---------------------------- MODULE VendorScore ----------------------------
(***************************************************************************)
(* The composite score of one vendor (core/vendor_scorer.py): a row per    *)
(* delivered order with what the system knows of it, an employee's tap on  *)
(* a row, and the recomputation after each tap (core/rating.py), which     *)
(* reads the rows, writes the vendor and logs, one command after another.  *)
(*                                                                         *)
(* Scores are exact fractions <<p, q>> of 0..100; the code rounds what it  *)
(* stores, after it took the band from the unrounded value.                *)
(***************************************************************************)
EXTENDS Integers, Sequences, FiniteSets, SequencesExt

CONSTANTS
  Rows,        \* ids of rating rows, one per delivered order
  Signals,     \* [Rows -> [onTime, priceKept, repeat, minutes]]
  Tappers,     \* requests that record a tap
  MinOrders    \* orders a vendor needs to have a score (3)

Untapped == 0
Absent == -1
Satisfied == 5
Issue == 2
NoTime == -1

VARIABLES
  stars,       \* of each row: Absent, Untapped, Issue or Satisfied
  score, band, \* of the vendor
  tapper,      \* of each request: [at, read]
  newest,      \* history: the request that read last, before it writes
  counted,     \* history: the rows delivered when it read
  stands       \* history: what was written last is what was read last

scoreVars == <<stars, score, band, tapper, newest, counted, stands>>
history == <<newest, counted, stands>>

Unproven == <<-1, 1>>
Out == [at |-> "out", read |-> [r \in Rows |-> Absent]]

ScoreInit ==
  /\ stars = [r \in Rows |-> Absent]
  /\ score = Unproven /\ band = "unproven"
  /\ tapper = [t \in Tappers |-> Out]
  /\ newest = {} /\ counted = {} /\ stands = FALSE

----------------------------------------------------------------------------
(* calculate_vendor_score, as a function of the rows it read *)

Delivered(rows) == {r \in Rows : rows[r] # Absent}
Tapped(rows) == {r \in Rows : rows[r] \in {Issue, Satisfied}}
Share(rows, Holds(_)) == Cardinality({r \in Delivered(rows) : Holds(r)})

\* statistics.median, doubled: the mean of the two middle values.
TwiceMedian(S, minutes) ==
  LET order == SetToSortSeq(S, LAMBDA r, q : minutes[r] < minutes[q])
      n == Len(order)
  IN  IF n % 2 = 1 THEN 2 * minutes[order[(n + 1) \div 2]]
      ELSE minutes[order[n \div 2]] + minutes[order[n \div 2 + 1]]

Response(rows) ==
  LET minutes == [r \in Rows |-> Signals[r].minutes]
      timed == {r \in Delivered(rows) : minutes[r] # NoTime}
      twice == TwiceMedian(timed, minutes)
  IN  CASE timed = {} -> 60
        [] timed # {} /\ twice < 60 -> 100
        [] timed # {} /\ twice \in 60..119 -> 80
        [] timed # {} /\ twice \in 120..479 -> 60
        [] OTHER -> 30

Stars(rows) == SumFunctionOnSet(rows, Tapped(rows))

\* Wrong variant: rows without a tap count as no stars.
SatisfactionOfAll(rows) ==
  <<Stars(rows), Cardinality(Delivered(rows))>>

\* Stars over their number; 3 of 5 stands for the neutral 60 of 100.
Satisfaction(rows) ==
  IF Tapped(rows) = {} THEN <<3, 1>>
  ELSE <<Stars(rows), Cardinality(Tapped(rows))>>

\* 35 % satisfaction, 25 % punctuality, 20 % price, 10 % response, 10 % repeat.
Composite(rows) ==
  LET n == Cardinality(Delivered(rows))
      sat == Satisfaction(rows)
      system == 25 * Share(rows, LAMBDA r : Signals[r].onTime)
              + 20 * Share(rows, LAMBDA r : Signals[r].priceKept)
              + 10 * Share(rows, LAMBDA r : Signals[r].repeat)
  IN  IF n < MinOrders THEN Unproven
      ELSE <<35 * 20 * sat[1] * n + 100 * system * sat[2]
               + 10 * Response(rows) * n * sat[2],
             100 * n * sat[2]>>

AtLeast(p, x) == p[1] >= x * p[2]
NotBelow(p, q) == p[1] * q[2] >= q[1] * p[2]

Band(p) ==
  CASE p = Unproven -> "unproven"
    [] p # Unproven /\ AtLeast(p, 85) -> "preferred"
    [] p # Unproven /\ ~AtLeast(p, 85) /\ AtLeast(p, 70) -> "reliable"
    [] p # Unproven /\ ~AtLeast(p, 70) /\ AtLeast(p, 50) -> "provisional"
    [] OTHER -> "flagged"

----------------------------------------------------------------------------

\* on_delivery_confirmed creates the row; the score waits for a tap.
DeliverRow(r) ==
  /\ stars[r] = Absent /\ stars' = [stars EXCEPT ![r] = Untapped]
  /\ UNCHANGED <<score, band, tapper, history>>

TapOn(r, s) == stars[r] # Absent /\ stars' = [stars EXCEPT ![r] = s]

\* Wrong variant: the rows are read before the tap is stored.
TapReadFirst(t) ==
  /\ tapper[t].at = "out"
  /\ \E r \in Rows, s \in {Satisfied, Issue} : TapOn(r, s)
  /\ tapper' = [tapper EXCEPT ![t] = [at |-> "write", read |-> stars]]
  /\ newest' = {t} /\ counted' = Delivered(stars) /\ stands' = FALSE
  /\ UNCHANGED <<score, band>>

\* on_rating_received up to the read of calculate_vendor_score.
Tap(t) ==
  /\ tapper[t].at = "out"
  /\ \E r \in Rows, s \in {Satisfied, Issue} : TapOn(r, s)
  /\ tapper' = [tapper EXCEPT ![t].at = "read"]
  /\ UNCHANGED <<score, band, history>>

\* reconcile_vendor_scores recomputes without a tap; no job is registered.
ReadRows(t) ==
  /\ tapper[t].at = "read"
  /\ tapper' = [tapper EXCEPT ![t] = [at |-> "write", read |-> stars]]
  /\ newest' = {t} /\ counted' = Delivered(stars) /\ stands' = FALSE
  /\ UNCHANGED <<stars, score, band>>

Scored(rows) == Composite(rows)

\* A vendor without a score ends here: nothing is logged.
WriteScore(t) ==
  /\ tapper[t].at = "write"
  /\ score' = Scored(tapper[t].read) /\ band' = Band(Scored(tapper[t].read))
  /\ tapper' = [tapper EXCEPT ![t] =
                  [Out EXCEPT !.at = IF score' = Unproven THEN "out" ELSE "log"]]
  /\ stands' = (t \in newest) /\ newest' = newest \ {t}
  /\ UNCHANGED <<stars, counted>>

\* A row of the score history, which nothing reads.
LogScore(t) ==
  /\ tapper[t].at = "log" /\ tapper' = [tapper EXCEPT ![t] = Out]
  /\ UNCHANGED <<stars, score, band, history>>

\* A command raises: the tap stays.  Whoever fails to read leaves a tap that
\* perhaps no reading has.
FailScore(t) ==
  /\ tapper[t].at \in {"read", "write", "log"}
  /\ tapper' = [tapper EXCEPT ![t] = Out]
  /\ newest' = IF tapper[t].at = "read" THEN {} ELSE newest \ {t}
  /\ stands' = (stands /\ tapper[t].at # "read")
  /\ UNCHANGED <<stars, score, band, counted>>

ScoreNext ==
  \/ \E r \in Rows : DeliverRow(r)
  \/ \E t \in Tappers : Tap(t) \/ ReadRows(t) \/ WriteScore(t)
                        \/ LogScore(t) \/ FailScore(t)

ScoreSpec == ScoreInit /\ [][ScoreNext]_scoreVars

----------------------------------------------------------------------------
(* Properties *)

\* However the recomputations of several taps overlap, and whichever of their
\* commands raise: once none is before its write, and the score written last
\* is of the rows read last, no tap is missing from the score and band; only a
\* row delivered since is.  What leaves an old score is an older reading
\* written over a newer one, or a failure before the write; the next
\* recomputation ends it (core/rating.py:76-78, core/vendor_scorer.py:65-95).
LatestReadingStands ==
  LET rows == [r \in Rows |-> IF r \in counted THEN stars[r] ELSE Absent]
  IN  stands /\ (\A t \in Tappers : tapper[t].at \notin {"read", "write"})
        => score = Composite(rows) /\ band = Band(Composite(rows))

\* A first or changed tap moves the score the way it points, in particular
\* from the neutral 60 and on rows nobody tapped (core/vendor_scorer.py:72-76).
TapsMoveScore ==
  [][\A r \in Rows :
       stars'[r] # stars[r] /\ stars[r] # Absent =>
         IF stars'[r] = Satisfied
         THEN NotBelow(Composite(stars'), Composite(stars))
         ELSE NotBelow(Composite(stars), Composite(stars'))]_scoreVars
============================================================================
