-------------------------------- MODULE Lists --------------------------------
(***************************************************************************)
(* Filtered and sorted sequences, as the iterators and the stable sorts of *)
(* the standard library make them.  An element is known by its index, so   *)
(* that equal elements stay apart and nothing has to be computed one       *)
(* element after the other.                                                *)
(***************************************************************************)
EXTENDS Integers, Sequences, FiniteSets, Functions

IsList(s) == s \in Seq(Range(s))

\* How many of the indices in keep are ahead of i, counting i.
Place(keep, ahead, i) == Cardinality({j \in keep : <<j, i>> \in ahead}) + 1

\* The elements of s at the indices in keep, in the order of ahead, a set of
\* pairs of indices.
Arranged(s, keep, ahead) ==
    [k \in 1..Cardinality(keep) |-> s[CHOOSE i \in keep : Place(keep, ahead, i) = k]]

\* A filter keeps the order.
Earlier(keep) == {p \in keep \X keep : p[1] < p[2]}
Picked(s, keep) == Arranged(s, keep, Earlier(keep))

\* A stable sort keeps the order of what it need not exchange.
Stable(keep, less) == {p \in keep \X keep : p \in less \/ (<<p[2], p[1]>> \notin less /\ p[1] < p[2])}
Less(s, keep, Before(_, _)) == {p \in keep \X keep : Before(s[p[1]], s[p[2]])}
Sorted(s, keep, Before(_, _)) == Arranged(s, keep, Stable(keep, Less(s, keep, Before)))

\* The elements of the sequences of ss, one sequence after the other.
Flattened(ss) ==
    LET places == UNION {{k} \X DOMAIN ss[k] : k \in DOMAIN ss}
        ahead == {p \in places \X places :
                     p[1][1] < p[2][1] \/ (p[1][1] = p[2][1] /\ p[1][2] < p[2][2])}
    IN  Arranged([p \in places |-> ss[p[1]][p[2]]], places, ahead)
=============================================================================
