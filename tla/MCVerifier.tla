---------------------------- MODULE MCVerifier ----------------------------
(* Instances of Verifier for TLC. *)
EXTENDS Verifier

CONSTANTS small, large, r, s

\* Totals of two assets.
Own(e0, d0, e1) == [a \in {0, 1} |-> IF a = 0 THEN [equity |-> e0, debt |-> d0]
                                     ELSE [equity |-> e1, debt |-> 0]]
Zero == Own(0, 0, 0)

Row(n, tier, min, max, before, added) ==
    [number |-> n, tier |-> tier, min |-> min, max |-> max, root |-> r,
     before |-> before, after |-> Add(before, added), committed |-> TRUE,
     keys |-> tier, added |-> added]

\* Four honest batches: one of the small tier, three of the large one.
Honest ==
    << Row(0, small, 0, 1, Zero, Own(1, 0, 0)),
       Row(1, large, 2, 2, Own(1, 0, 0), Own(1, 1, 0)),
       Row(2, large, 3, 3, Own(2, 1, 0), Own(0, 0, 1)),
       Row(3, large, 4, 4, Own(2, 1, 1), Own(1, 1, 0)) >>

\* A row with one value, or a value and the proof of it, that is not the honest one.
Altered(row) ==
    {[row EXCEPT !.number = n] : n \in {0, 1, 4}}
    \cup {[row EXCEPT !.tier = t] : t \in {small, large, None}}
    \cup {[row EXCEPT !.keys = t] : t \in {small, large, None}}
    \cup {[row EXCEPT !.tier = t, !.keys = t] : t \in {small, large}}
    \cup {[row EXCEPT !.min = m] : m \in {0, 2, 3}}
    \cup {[row EXCEPT !.max = m] : m \in {2, 5}}
    \cup {[row EXCEPT !.root = s]}
    \cup {[row EXCEPT !.after = Own(3, 2, 1), !.committed = c] : c \in BOOLEAN}
    \cup {[row EXCEPT !.before = b, !.after = Add(b, row.added)] :
            b \in {Zero, Own(1, 0, 0), Own(0, 0, 1)}}
    \cup {[row EXCEPT !.before = Zero, !.added = row.after]}
    \cup {[row EXCEPT !.added = d, !.after = Add(row.before, d)] : d \in {Zero, Own(0, 2, 0)}}

MCTables ==
    LET files == {Honest, <<>>, SubSeq(Honest, 1, 3), Append(Honest, Honest[4]),
                  <<Honest[3], Honest[1], Honest[4], Honest[2]>>}
                 \cup UNION {{[Honest EXCEPT ![i] = row] : row \in Altered(Honest[i])} : i \in 1 .. 4}
    IN  {f \in files : \A i \in 1 .. Len(f) : Sound(f[i])}

Entry(a, e, d) == [index |-> a, totals |-> [equity |-> e, debt |-> d]]

\* The true totals, in either order; a false one; those of an insolvent exchange
\* (which the users of one of the tables make true); one asset
\* listed twice; an asset out of range.
MCConfigs ==
    { <<Entry(0, 3, 2), Entry(1, 1, 0)>>, <<Entry(1, 1, 0), Entry(0, 3, 2)>>,
      <<Entry(0, 2, 2), Entry(1, 1, 0)>>, <<Entry(0, 2, 3), Entry(1, 1, 0)>>,
      <<Entry(0, 3, 2), Entry(0, 1, 0)>>, <<Entry(0, 3, 2), Entry(2, 1, 0)>> }

=============================================================================
