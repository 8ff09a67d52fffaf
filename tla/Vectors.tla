------------------------------ MODULE Vectors -------------------------------
(***************************************************************************)
(* std::vector as a sequence: what the host's vectors hold, and the loop    *)
(* that walks one with an iterator and erases some of its elements.         *)
(***************************************************************************)
EXTENDS Naturals, Sequences

Elems(s) == {s[i] : i \in DOMAIN s}

\* "if (...) i = v.erase(i); else i++;": the elements of gone are erased, the
\* others keep their order.
Without(s, gone) ==
    LET kept[i \in 0..Len(s)] ==
          IF i = 0 THEN <<>>
          ELSE IF s[i] \in gone THEN kept[i - 1] ELSE Append(kept[i - 1], s[i])
    IN  kept[Len(s)]
=============================================================================
