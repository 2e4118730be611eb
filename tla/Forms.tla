------------------------------- MODULE Forms -------------------------------
(***************************************************************************)
(* What the registration form of the web client lets through                *)
(* (tokenfusionweb, lib/utils/validation.ts), and what the server accepts   *)
(* (tokenfusionserver, modules/user/dto and common/utils).                  *)
(*                                                                          *)
(* An input is known by what the rules ask of it: a password by its length  *)
(* and the kinds of its characters, an address by whether it has the form   *)
(* of one, on which the two libraries are taken to agree, and by its domain.*)
(***************************************************************************)
EXTENDS Naturals

Letters == {"lower", "upper"}
Characters == Letters \cup {"digit", "underscore", "other"}

Password == [length : Nat, has : SUBSET Characters]
Address == [wellFormed : BOOLEAN, domain : {"plain", "listed", "keyword"}]

\* The fields of the form; repeated: both passwords are the same.
Form == [email : Address, password : Password, repeated : BOOLEAN,
         nickname : Nat, inviteCode : Nat]

-----------------------------------------------------------------------------
(* The web client.                                                          *)

\* The domain is on the list, or has a word in it such as temp or fake.
isTempEmail(a) == a.domain \in {"listed", "keyword"}

\* /^(?=.*[a-zA-Z])(?=.*\d)[a-zA-Z\d\W]+$/: the underscore is of neither kind.
Mixed(p) == p.has \cap Letters # {} /\ "digit" \in p.has /\ "underscore" \notin p.has

\* Mutant: six characters are enough.
ShortPassword(p) == p.length \in 6 .. 64 /\ Mixed(p)

passwordField(p) == p.length \in 8 .. 64 /\ Mixed(p)

registerSchema(f) ==
    /\ f.email.wellFormed /\ ~isTempEmail(f.email)
    /\ passwordField(f.password) /\ f.repeated
    /\ f.nickname <= 64 /\ f.inviteCode <= 16

Point(b) == IF b THEN 1 ELSE 0

\* The meter below the password.
Score(p) ==
    Point(p.length >= 8) + Point("lower" \in p.has) + Point("upper" \in p.has)
        + Point("digit" \in p.has) + Point(p.has \cap {"underscore", "other"} # {})

getPasswordStrength(p) ==
    IF Score(p) >= 4 THEN "strong" ELSE IF Score(p) = 3 THEN "medium" ELSE "weak"

-----------------------------------------------------------------------------
(* The server.                                                              *)

TempEmail(a) == a.domain \in {"listed", "keyword"}

\* RegisterDto, before UserService looks at the address.
RegisterDto(f) ==
    /\ f.email.wellFormed
    /\ f.password.length >= 8 /\ f.password.length <= 64
    /\ f.password.has \cap Letters # {} /\ "digit" \in f.password.has
    /\ "underscore" \notin f.password.has
    /\ f.nickname <= 64 /\ f.inviteCode <= 16

ServerAccepts(f) == RegisterDto(f) /\ ~TempEmail(f.email)
=============================================================================
