------------------------------ MODULE MCObjects -----------------------------
(***************************************************************************)
(* Named properties on a small instance: one ordinary name, the names of    *)
(* the methods that get and set it, and the dotted names made of them.      *)
(***************************************************************************)
EXTENDS BoundObjects

CONSTANTS other,   \* a property name that is not the API's ...
          getter,  \* ... and the names of methods that get and set it
          setter

\* Names with one, two and three tokens, among them one with an empty token and
\* one with nothing else.
AllKeys == {<<other>>, <<getter>>, <<setter>>, <<ApiName, other, other>>,
            <<other, other, other>>, <<other, Empty, other>>, <<Empty, Empty>>}

OtherIs(names) == [n \in Tokens |-> IF n = other THEN names ELSE {}]
OtherSetters == OtherIs({setter})
OtherGetters == OtherIs({getter})
=============================================================================
