--------------------------- MODULE MCUserBatches ---------------------------
(* Instances of UserBatches for TLC: amounts below 16, boundaries up to 15. *)
EXTENDS UserBatches

CONSTANT Bad

MCOpsPerBatch == (2 :> 2) @@ (4 :> 1)

----------------------------------------------------------------------------
(* Asset files.                                                            *)

Tier(low, high, ratio) == [low |-> low, high |-> high, ratio |-> ratio]
None0 == <<>>
TwoSteps == <<Tier(0, 2, 100), Tier(2, 3, 50)>>
OneStep == <<Tier(0, 2, 70)>>
UpToTop == <<Tier(0, 1, 90), Tier(1, 5, 33)>>
Above100 == <<Tier(0, 3, 150)>>
Above255 == <<Tier(0, 3, 300)>>
Beyond == <<Tier(0, 6, 90)>>
Falling == <<Tier(0, 3, 90), Tier(1, 3, 50)>>
ThreeSteps == <<Tier(0, 1, 90), Tier(1, 2, 70), Tier(2, 3, 50)>>
ZeroStep == <<Tier(0, 0, 0), Tier(0, 5, 1)>>
Whole == <<Tier(0, 5, 100)>>

Asset(price, loan, margin, portfolioMargin) ==
    [price |-> price,
     ratios |-> [k \in Kinds |-> IF k = "loan" THEN loan
                                 ELSE IF k = "margin" THEN margin ELSE portfolioMargin]]

CexOf(enc) == <<Asset(1, enc, OneStep, None0), Asset(2, TwoSteps, enc, UpToTop),
                Asset(1, None0, UpToTop, enc)>>

\* Of each asset all collaterals count whole.
Generous == <<Asset(1, Whole, Whole, Whole), Asset(2, Whole, Whole, Whole), Asset(1, Whole, Whole, Whole)>>

MCCexFiles ==
    {CexOf(enc) : enc \in {None0, TwoSteps, OneStep, UpToTop, Above100, Above255,
                           Beyond, Falling, ThreeSteps, ZeroStep}} \cup {Generous}

----------------------------------------------------------------------------
(* User files.                                                             *)

U(equity, debt, loan, margin, portfolioMargin) ==
    [equity |-> equity, debt |-> debt,
     collateral |-> [k \in Kinds |-> IF k = "loan" THEN loan
                                     ELSE IF k = "margin" THEN margin ELSE portfolioMargin]]
Zero == U(0, 0, 0, 0, 0)

R(id, x, y, z) == [id |-> id, columns |-> <<x, y, z>>]

Poor     == R("poor", Zero, Zero, Zero)
Saver    == R("saver", Zero, U(3, 0, 0, 0, 0), Zero)
Late     == R("last", Zero, Zero, U(2, 0, 0, 1, 1))
Borrower == R("borrower", U(9, 0, 5, 4, 0), Zero, U(0, 4, 0, 0, 0))
AtEdge   == R("edge", Zero, U(7, 2, 4, 0, 3), Zero)
Outer    == R("outer", U(6, 0, 0, 6, 0), Zero, U(1, 1, 0, 1, 0))
Trader   == R("trader", U(4, 0, 1, 1, 1), U(2, 0, 0, 0, 2), U(3, 1, 0, 3, 0))
Whale    == R("whale", Zero, U(9, 0, 9, 0, 0), Zero)
Skipped  == R("skipped", U(0, 0, 2, 0, 0), Zero, U(1, 0, 0, 0, 0))
Unbacked == R("unbacked", U(1, 9, 1, 0, 0), Zero, Zero)
Pledged  == R("pledged", U(2, 0, 2, 1, 0), Zero, Zero)
Narrow   == R("narrow", U(8, 7, 4, 3, 0), Zero, Zero)
Garbled  == R("garbled", Bad, Zero, Zero)
Overflow == R("overflow", U(9, 1, 9, 9, 0), Zero, Bad)
Rich     == R("rich", U(9, 0, 0, 0, 0), Zero, Zero)
Tycoon   == R("tycoon", U(15, 0, 15, 0, 0), U(14, 0, 7, 7, 0), Zero)

\* Any two rows around a third file, and some longer sets.
AllRows == {Poor, Saver, Late, Borrower, AtEdge, Outer, Trader, Whale, Skipped,
            Unbacked, Pledged, Narrow, Garbled, Overflow, Rich}

MCDataSets ==
    { << <<r>>, <<Saver>>, <<s>> >> : r, s \in AllRows }
    \cup
    { <<>>, << <<Poor>> >>, << <<Tycoon>> >>,
      << <<Trader, Saver>>, <<>>, <<Trader>>, <<AtEdge, Outer>> >>,
      << <<AtEdge>>, <<Skipped, Poor>>, <<Trader>> >>,
      << <<Trader>>, <<Borrower, Pledged>> >>,
      << <<Rich>>, <<Trader>>, <<Rich, Saver>> >>,
      << <<Borrower>>, <<Trader, Late>>, <<AtEdge>>, <<Saver>>, <<Outer, Late>> >> }

=============================================================================
