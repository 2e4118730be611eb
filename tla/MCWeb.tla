------------------------------- MODULE MCWeb -------------------------------
(* Small instances of Web. *)
EXTENDS Web

Plain == [wellFormed |-> TRUE, domain |-> "plain"]

\* Around the limits that the rules set.
Inputs ==
    [email : {Plain, [Plain EXCEPT !.domain = "keyword"]},
     password : {p \in [length : {7, 8, 64, 65},
                        has : {{"lower", "digit"}, {"upper", "digit", "other"},
                               {"upper", "underscore", "digit"}, {"lower"}}] :
                 p.length = 8 \/ p.has = {"lower", "digit"}},
     repeated : {TRUE}, nickname : {64, 65}, inviteCode : {16, 17}]
=============================================================================
