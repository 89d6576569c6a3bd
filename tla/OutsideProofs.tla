---------------------------- MODULE OutsideProofs ----------------------------
(***************************************************************************)
(* Proofs about the parts of MCOutside, one after the other: the context   *)
(* files, the backups, the reminder mails, the calendar, the repository in *)
(* the cockpit, the packs.  Of each part an inductive invariant is proved  *)
(* of its own actions first, then of OutsideNext, in which the part runs   *)
(* or has no state.  What a part promises on a calm server rests on one    *)
(* more fact, that at most one request is in the middle of something       *)
(* (...One).                                                               *)
(*                                                                         *)
(* Why hand-written text survives: as long as nobody takes a pin away, a   *)
(* row that remembers a text is pinned, and so is every older copy of it   *)
(* that a request still works on; and an UPDATE names only the columns its *)
(* session changed, so that no request writes an older pin back.           *)
(***************************************************************************)
EXTENDS MCOutside, FiniteSetTheorems, WellFoundedInduction, TLAPS

-----------------------------------------------------------------------------
\* Types

LEMMA RowTypes ==
    /\ NoRow \in Row
    /\ \A x \in Row : x.sum \in Sums /\ x.pinned \in BOOLEAN
    /\ \A s \in Sums, b \in BOOLEAN : [sum |-> s, pinned |-> b] \in Row
  BY DEF NoRow, Row, Sums

LEMMA IdleType ==
    /\ Idle \in Call
    /\ Idle.at = "idle" /\ Idle.op = "regenerate" /\ Idle.old = NoRow /\ Idle.new = NoRow
  BY RowTypes DEF Idle, Call, Sums

LEMMA WrittenIs ==
    \A t \in Nat : Written(t) \in Nat /\ (t \notin Returns => Written(t) = t)
  BY DataAssumption DEF Written

LEMMA InitType == Init => TypeOK
<1> SUFFICES ASSUME Init PROVE TypeOK
  OBVIOUS
<1>1. data \in 0..MaxData /\ disk \in Sums /\ row \in Row
  BY RowTypes, DataAssumption DEF Init, Sums
<1>2. call \in [Requests -> Call]
  BY IdleType DEF Init
<1>3. \A r, q \in Requests : HasLock(r) /\ HasLock(q) => r = q
  BY IdleType DEF Init, HasLock
<1> QED
  BY <1>1, <1>2, <1>3 DEF Init, TypeOK

\* What the row becomes, by whichever way, is a row; and so is the call.
LEMMA RowsMade ==
    ASSUME TypeOK, NEW x \in Row, NEW ctx \in Nat, NEW c \in Call
    PROVE  /\ Left(x) \in Row
           /\ Adopted \in Row
           /\ Fresh(x, ctx) \in Row
           /\ Saved(c) \in Row
<1>1. disk \in Sums /\ authored \in BOOLEAN /\ row \in Row
  BY DEF TypeOK
<1>2. ctx \in Sums
  BY DEF Sums
<1>3. x.sum \in Sums /\ x.pinned \in BOOLEAN
  BY RowTypes
<1>4. Left(x) \in Row
  <2>1. Pinned(x) \in BOOLEAN
    BY DEF Pinned, Exists
  <2>2. (IF Pinned(x) /\ Drifted(x) THEN disk ELSE x.sum) \in Sums
    BY <1>1, <1>3
  <2> QED
    BY <2>1, <2>2, RowTypes DEF Left
<1>5. Adopted \in Row
  BY <1>1, RowTypes DEF Adopted
<1>6. Fresh(x, ctx) \in Row
  BY <1>1, <1>2, <1>3, RowTypes DEF Fresh
<1>7. Saved(c) \in Row
  <2>1. c.old \in Row /\ c.new \in Row
    BY DEF Call
  <2>2. Updated(c) \in Row
    <3>1. (IF c.new.sum = c.old.sum THEN row.sum ELSE c.new.sum) \in Sums
      BY <1>1, <2>1, RowTypes
    <3>2. (IF c.new.pinned = c.old.pinned THEN row.pinned ELSE c.new.pinned) \in BOOLEAN
      BY <1>1, <2>1, RowTypes
    <3> QED
      BY <3>1, <3>2, RowTypes DEF Updated
  <2> QED
    BY <2>1, <2>2 DEF Saved
<1> QED
  BY <1>4, <1>5, <1>6, <1>7

\* The fields of the calls that the actions make.
LEMMA HoldingMade ==
    ASSUME TypeOK, NEW c \in Call
    PROVE  /\ Holding(c) \in Call /\ Holding(c).at = "locked" /\ Holding(c).op = c.op
           /\ Holding(c).old = row
<1>1. row \in Row
  BY DEF TypeOK
<1> QED
  BY <1>1 DEF Holding, Call

LEMMA LookedMade ==
    ASSUME TypeOK, NEW c \in Call, NEW x \in Row, NEW next \in {"writing", "saving"}
    PROVE  /\ Looked(c, next, x) \in Call /\ Looked(c, next, x).at = next
           /\ Looked(c, next, x).op = c.op /\ Looked(c, next, x).old = c.old
           /\ Looked(c, next, x).seen = disk /\ Looked(c, next, x).new = x
<1>1. disk \in Sums
  BY DEF TypeOK
<1> QED
  BY <1>1 DEF Looked, Call

LEMMA AdoptingMade ==
    ASSUME TypeOK
    PROVE  /\ Adopting \in Call /\ Adopting.at = "adopting" /\ Adopting.op = "keep"
           /\ Adopting.old = row
<1>1. row \in Row
  BY DEF TypeOK
<1> QED
  BY <1>1, IdleType DEF Adopting, Call

LEMMA PinningMade ==
    ASSUME TypeOK, NEW op \in {"keep", "release"}
    PROVE  /\ Pinning(op) \in Call /\ Pinning(op).at = "saving" /\ Pinning(op).op = op
           /\ Pinning(op).old = row /\ Pinning(op).new.sum = row.sum
           /\ Pinning(op).new.pinned = (op = "keep")
<1>1. row \in Row
  BY DEF TypeOK
<1> DEFINE kept == [row EXCEPT !.pinned = (op = "keep")]
<1>2. kept \in Row /\ kept.sum = row.sum /\ kept.pinned = (op = "keep")
  BY <1>1 DEF Row
<1>3. Pinning(op) = [Idle EXCEPT !.at = "saving", !.op = op, !.old = row, !.new = kept]
  BY DEF Pinning
<1> HIDE DEF kept
<1>4. /\ Pinning(op) \in Call /\ Pinning(op).at = "saving" /\ Pinning(op).op = op
      /\ Pinning(op).old = row /\ Pinning(op).new = kept
  BY <1>1, <1>2, <1>3, IdleType DEF Call
<1> QED
  BY <1>2, <1>4

\* Whatever a request does, one call changes, and to a call; only Lock gives it
\* the lock.
LEMMA WorkType ==
    ASSUME TypeOK, NEW r \in Requests, Work(r) \/ Abort(r)
    PROVE  \E c \in Call :
              /\ call' = [call EXCEPT ![r] = c]
              /\ c.at \in {"locked", "writing"} =>
                    \/ HasLock(r)
                    \/ \A q \in Requests : ~HasLock(q)
<1> DEFINE Good(c) == /\ call' = [call EXCEPT ![r] = c]
                      /\ c.at \in {"locked", "writing"} =>
                            \/ HasLock(r)
                            \/ \A q \in Requests : ~HasLock(q)
<1> SUFFICES \E c \in Call : Good(c)
  OBVIOUS
<1>1. call[r] \in Call /\ row \in Row /\ data \in Nat
  BY DataAssumption DEF TypeOK
<1>2. call[r].old \in Row /\ call[r].ctx \in Nat
  BY <1>1 DEF Call
<1>3. CASE AdoptMissing(r) \/ Save(r) \/ SaveRefused(r) \/ Abort(r)
  BY <1>3, IdleType DEF AdoptMissing, Save, SaveRefused, Abort
<1>4. CASE Render(r)
  <2>1. /\ [Idle EXCEPT !.at = "rendered", !.ctx = data] \in Call
        /\ [Idle EXCEPT !.at = "rendered", !.ctx = data].at = "rendered"
    BY <1>1, IdleType DEF Call
  <2> QED
    BY <1>4, <2>1 DEF Render
<1>5. CASE Lock(r)
  BY <1>1, <1>5, HoldingMade DEF Lock, TypeOK
<1>6. CASE Look(r)
  <2> DEFINE x == call[r].old
  <2> DEFINE ctx == call[r].ctx
  <2>1. /\ Left(x) \in Row /\ Adopted \in Row /\ Fresh(x, ctx) \in Row
    BY <1>1, <1>2, RowsMade
  <2>2. HasLock(r)
    BY <1>6 DEF Look, HasLock
  <2>3. /\ Looked(call[r], "saving", Left(x)) \in Call
        /\ Looked(call[r], "saving", Adopted) \in Call
        /\ Looked(call[r], "writing", Fresh(x, ctx)) \in Call
    BY <1>1, <2>1, LookedMade
  <2>4. \/ call' = [call EXCEPT ![r] = Looked(call[r], "saving", Left(x))]
        \/ call' = [call EXCEPT ![r] = Looked(call[r], "saving", Adopted)]
        \/ call' = [call EXCEPT ![r] = Looked(call[r], "writing", Fresh(x, ctx))]
    BY <1>6 DEF Look, TypeOK
  <2> QED
    BY <2>2, <2>3, <2>4
<1>7. CASE Write(r)
  <2>1. [call[r] EXCEPT !.at = "saving"] \in Call /\ [call[r] EXCEPT !.at = "saving"].at = "saving"
    BY <1>1 DEF Call
  <2>2. call' = [call EXCEPT ![r] = [call[r] EXCEPT !.at = "saving"]]
    BY <1>7 DEF Write, TypeOK
  <2> QED
    BY <2>1, <2>2
<1>8. ASSUME NEW op \in {"keep", "release"}, PinRead(r, op)
      PROVE  \E c \in Call : Good(c)
  <2>1. Pinning(op) \in Call /\ Pinning(op).at = "saving"
    BY <1>1, PinningMade
  <2> QED
    BY <1>8, <2>1 DEF PinRead
<1>9. CASE AdoptRead(r)
  <2>1. Adopting \in Call /\ Adopting.at = "adopting"
    BY <1>1, AdoptingMade
  <2> QED
    BY <1>9, <2>1 DEF AdoptRead
<1>10. CASE AdoptLook(r)
  <2>1. Adopted \in Row
    BY <1>1, <1>2, RowsMade
  <2>2. /\ Looked(call[r], "saving", Adopted) \in Call
        /\ Looked(call[r], "saving", Adopted).at = "saving"
    BY <1>1, <2>1, LookedMade
  <2>3. call' = [call EXCEPT ![r] = Looked(call[r], "saving", Adopted)]
    BY <1>10 DEF AdoptLook, TypeOK
  <2> QED
    BY <2>2, <2>3
<1> QED
  BY <1>3, <1>4, <1>5, <1>6, <1>7, <1>8, <1>9, <1>10 DEF Work

LEMMA NextType == TypeOK /\ [Next]_vars => TypeOK'
<1> SUFFICES ASSUME TypeOK, [Next]_vars PROVE TypeOK'
  OBVIOUS
<1>1. ASSUME NEW r \in Requests, Work(r) \/ Abort(r) PROVE TypeOK'
  <2>1. PICK c \in Call : /\ call' = [call EXCEPT ![r] = c]
                          /\ c.at \in {"locked", "writing"} =>
                                \/ HasLock(r)
                                \/ \A q \in Requests : ~HasLock(q)
    BY <1>1, WorkType
  <2>2. call' \in [Requests -> Call]
    BY <2>1 DEF TypeOK
  <2>3. \A q, p \in Requests : HasLock(q)' /\ HasLock(p)' => q = p
    BY <2>1 DEF TypeOK, HasLock
  <2>4. authored' \in BOOLEAN /\ data' \in 0..MaxData
    BY <1>1 DEF TypeOK, Work, Abort, Render, Lock, Look, Write, PinRead, AdoptRead,
                AdoptLook, AdoptMissing, Save, SaveRefused
  <2>5. disk' \in Sums
    <3>1. disk \in Sums /\ Written(call[r].ctx) \in Sums
      BY WrittenIs DEF TypeOK, Call, Sums
    <3> QED
      BY <1>1, <3>1 DEF Work, Abort, Render, Lock, Look, Write, PinRead, AdoptRead,
                        AdoptLook, AdoptMissing, Save, SaveRefused
  <2>6. row' \in Row
    <3>1. row \in Row
      BY DEF TypeOK
    <3>2. Saved(call[r]) \in Row
      <4>1. call[r] \in Call
        BY DEF TypeOK
      <4> QED
        BY <3>1, <4>1, RowsMade
    <3> QED
      BY <1>1, <3>1, <3>2 DEF Work, Abort, Render, Lock, Look, Write, PinRead, AdoptRead,
                              AdoptLook, AdoptMissing, Save, SaveRefused
  <2>7. unpinned' \in BOOLEAN
    BY <1>1 DEF TypeOK, Work, Abort, Render, Lock, Look, Write, PinRead, AdoptRead,
                AdoptLook, AdoptMissing, Save, SaveRefused
  <2>8. wish' \in {"none", "keep", "release"}
    <3>1. call[r].op \in {"regenerate", "keep", "release"}
      BY DEF TypeOK, Call
    <3> QED
      BY <1>1, <3>1 DEF TypeOK, Work, Abort, Render, Lock, Look, Write, PinRead, AdoptRead,
                        AdoptLook, AdoptMissing, Save, SaveRefused
  <2> QED
    BY <2>2, <2>3, <2>4, <2>5, <2>6, <2>7, <2>8 DEF TypeOK
<1>2. CASE Plan \/ Edit \/ UNCHANGED vars
  <2>1. data' \in 0..MaxData
    BY <1>2, DataAssumption DEF TypeOK, Plan, Edit, vars
  <2>2. disk' \in Sums
    BY <1>2 DEF TypeOK, Plan, Edit, vars, Sums
  <2> QED
    BY <1>2, <2>1, <2>2 DEF TypeOK, Plan, Edit, vars, HasLock
<1> QED
  BY <1>1, <1>2 DEF Next

\* Every variable keeps its type, and two requests never hold the lock of one
\* project at a time.
THEOREM TypeCorrect == Spec => []TypeOK
<1> QED
  BY InitType, NextType, PTL DEF Spec

-----------------------------------------------------------------------------
\* The invariant

\* A row, or an older copy of it: without a row there is no pin, and unless a
\* pin was taken away ("u") a text that is remembered is pinned.
RowOk(x, u) ==
    /\ ~Exists(x) => ~x.pinned
    /\ ~u /\ x.sum \in Texts => x.pinned

\* A copy "old" of the row "x": a row stays, and unless taken away its pin.
CopyOk(old, x, u) ==
    /\ RowOk(old, u)
    /\ Exists(old) => Exists(x)
    /\ ~u /\ old.pinned => x.pinned

\* What a request is about to save, by what was asked for.
NewOk(c, u) ==
    /\ Exists(c.new)
    /\ c.op = "release" => Exists(c.old) /\ c.new.sum = c.old.sum
    /\ c.op # "release" => /\ c.old.pinned => c.new.pinned
                           /\ ~u /\ c.new.sum \in Texts => c.new.pinned

OverOk(c, u) == c.seen \in Texts => ~authored /\ (~Exists(c.old) \/ u)

CallOk(c, x, u) ==
    /\ CopyOk(c.old, x, u)
    /\ c.at # "saving" => c.op # "release"
    /\ c.at \in {"writing", "saving"} => NewOk(c, u)
    /\ c.at = "writing" => OverOk(c, u)

PinInv ==
    /\ TypeOK
    /\ RowOk(row, unpinned)
    /\ \A r \in Requests : CallOk(call[r], row, unpinned)

LEMMA IdleOk == \A x \in Row, u \in BOOLEAN : CallOk(Idle, x, u)
<1>1. ~Exists(NoRow) /\ ~NoRow.pinned /\ NoRow.sum \notin Texts
  BY TextsAssumption DEF NoRow, Exists
<1> QED
  BY <1>1, IdleType DEF CallOk, CopyOk, RowOk

LEMMA PinInit == Init => PinInv
<1> SUFFICES ASSUME Init PROVE PinInv
  OBVIOUS
<1>1. TypeOK
  BY InitType
<1>2. ~Exists(NoRow) /\ ~NoRow.pinned /\ NoRow.sum \notin Texts
  BY TextsAssumption DEF NoRow, Exists
<1>3. RowOk(row, unpinned)
  BY <1>2 DEF Init, RowOk
<1>4. \A r \in Requests : CallOk(call[r], row, unpinned)
  BY IdleOk, RowTypes DEF Init
<1> QED
  BY <1>1, <1>3, <1>4 DEF PinInv

\* The row of this very moment is a good copy of itself.
LEMMA CopyOfRow == PinInv => CopyOk(row, row, unpinned)
  BY DEF PinInv, CopyOk

\* Everything a request does before it saves: the row stays as it is, and the
\* call it makes is still in order.
LEMMA QuietStep ==
    ASSUME PinInv, NEW r \in Requests, NEW c \in Call,
           call' = [call EXCEPT ![r] = c], CallOk(c, row, unpinned),
           TypeOK', UNCHANGED <<row, unpinned, authored>>
    PROVE  PinInv'
<1>1. RowOk(row, unpinned)'
  BY DEF PinInv, RowOk, Exists
<1>2. ASSUME NEW q \in Requests PROVE CallOk(call[q], row, unpinned)'
  <2>1. CallOk(call'[q], row, unpinned)
    BY DEF PinInv, TypeOK
  <2> QED
    BY <2>1 DEF CallOk, CopyOk, RowOk, NewOk, OverOk, Exists
<1> QED
  BY <1>1, <1>2 DEF PinInv

\* The decision table of regenerate: a row that is left alone, taken over or
\* written anew is in order, and a text is written over only as
\* HandWrittenIsSpared says.
LEMMA LookOk ==
    ASSUME PinInv, NEW r \in Requests, Look(r), TypeOK'
    PROVE  PinInv'
<1> DEFINE c == call[r]
<1> DEFINE x == call[r].old
<1> DEFINE ctx == call[r].ctx
<1>1. TypeOK /\ c \in Call /\ x \in Row /\ ctx \in Nat /\ CallOk(c, row, unpinned)
  BY DEF PinInv, TypeOK, Call
<1>2. /\ CopyOk(x, row, unpinned)
      /\ RowOk(x, unpinned)
      /\ c.op # "release"
  BY <1>1 DEF CallOk, CopyOk, Look
<1>3. /\ Left(x) \in Row /\ Adopted \in Row /\ Fresh(x, ctx) \in Row
  BY <1>1, RowsMade
<1>4. UNCHANGED <<row, unpinned, authored>>
  BY DEF Look
<1>5. CASE Spared(x, ctx) /\ call' = [call EXCEPT ![r] = Looked(c, "saving", Left(x))]
  <2> DEFINE d == Looked(c, "saving", Left(x))
  <2>1. d \in Call /\ d.at = "saving" /\ d.op = c.op /\ d.old = x /\ d.new = Left(x)
    <3>1. disk \in Sums
      BY <1>1 DEF TypeOK
    <3> QED
      BY <1>1, <1>3, <3>1 DEF Looked, Call
  <2>2. Exists(x)
    BY <1>5 DEF Spared, Pinned, Drifted
  <2>3. Left(x).pinned = Pinned(x)
    BY DEF Left
  <2>4. Left(x).sum = IF Pinned(x) /\ Drifted(x) THEN disk ELSE x.sum
    BY DEF Left
  <2>5. Exists(Left(x))
    BY <2>2, <2>4 DEF Exists, Drifted
  <2>6. x.pinned => Pinned(x)
    BY <2>2 DEF Pinned
  <2>7. ~unpinned /\ Left(x).sum \in Texts => Pinned(x)
    BY <1>2, <2>4, <2>6 DEF RowOk
  <2>8. NewOk(d, unpinned)
    BY <1>2, <2>1, <2>3, <2>5, <2>6, <2>7 DEF NewOk
  <2>9. CallOk(d, row, unpinned)
    BY <1>2, <2>1, <2>8 DEF CallOk
  <2> QED
    BY <1>4, <1>5, <2>1, <2>9, QuietStep
<1>6. CASE Adoptable(x) /\ call' = [call EXCEPT ![r] = Looked(c, "saving", Adopted)]
  <2> DEFINE d == Looked(c, "saving", Adopted)
  <2>1. d \in Call /\ d.at = "saving" /\ d.op = c.op /\ d.old = x /\ d.new = Adopted
    <3>1. disk \in Sums
      BY <1>1 DEF TypeOK
    <3> QED
      BY <1>1, <1>3, <3>1 DEF Looked, Call
  <2>2. Exists(Adopted) /\ Adopted.pinned
    BY <1>6 DEF Adopted, Adoptable, Exists
  <2>3. NewOk(d, unpinned)
    BY <1>2, <2>1, <2>2 DEF NewOk
  <2>4. CallOk(d, row, unpinned)
    BY <1>2, <2>1, <2>3 DEF CallOk
  <2> QED
    BY <1>4, <1>6, <2>1, <2>4, QuietStep
<1>7. CASE /\ ~Spared(x, ctx) /\ ~Adoptable(x)
           /\ call' = [call EXCEPT ![r] = Looked(c, "writing", Fresh(x, ctx))]
  <2> DEFINE d == Looked(c, "writing", Fresh(x, ctx))
  <2>1. /\ d \in Call /\ d.at = "writing" /\ d.op = c.op /\ d.old = x
        /\ d.new = Fresh(x, ctx) /\ d.seen = disk
    <3>1. disk \in Sums
      BY <1>1 DEF TypeOK
    <3> QED
      BY <1>1, <1>3, <3>1 DEF Looked, Call
  <2>2. Fresh(x, ctx).sum = ctx
    BY DEF Fresh
  <2>3. Exists(Fresh(x, ctx)) /\ Fresh(x, ctx).sum \notin Texts
    BY <1>1, <2>2, DataAssumption DEF Exists
  <2>4. x.pinned => Fresh(x, ctx).pinned
    BY <1>2 DEF Fresh, RowOk
  <2>5. NewOk(d, unpinned)
    BY <1>2, <2>1, <2>3, <2>4 DEF NewOk
  <2>6. ASSUME disk \in Texts PROVE ~authored /\ (~Exists(x) \/ unpinned)
    <3>1. disk # NoFile
      BY <2>6, TextsAssumption
    <3>2. CASE Exists(x)
      <4>1. ~x.pinned /\ ~authored /\ disk = x.sum
        BY <1>7, <3>1, <3>2 DEF Spared, Pinned, Drifted
      <4> QED
        BY <1>2, <2>6, <4>1 DEF RowOk
    <3>3. CASE ~Exists(x)
      BY <1>7, <3>1, <3>3 DEF Adoptable
    <3> QED
      BY <3>2, <3>3
  <2>7. OverOk(d, unpinned)
    BY <2>1, <2>6 DEF OverOk
  <2>8. CallOk(d, row, unpinned)
    BY <1>2, <2>1, <2>5, <2>7 DEF CallOk
  <2> QED
    BY <1>4, <1>7, <2>1, <2>8, QuietStep
<1> QED
  BY <1>1, <1>5, <1>6, <1>7 DEF Look

\* What a request saves is in order, and no pin goes unless it was asked to.
LEMMA SavedOk ==
    ASSUME PinInv, NEW r \in Requests, Save(r)
    PROVE  /\ RowOk(row', unpinned')
           /\ Exists(row) => Exists(row')
           /\ row.pinned /\ ~row'.pinned => call[r].op = "release"
<1> DEFINE c == call[r]
<1>1. TypeOK /\ c \in Call /\ CallOk(c, row, unpinned) /\ RowOk(row, unpinned)
  BY DEF PinInv, TypeOK
<1>2. CopyOk(c.old, row, unpinned) /\ NewOk(c, unpinned) /\ RowOk(c.old, unpinned)
  BY <1>1 DEF Save, CallOk, CopyOk
<1>3. /\ row \in Row /\ c.old \in Row /\ c.new \in Row
  BY <1>1 DEF TypeOK, Call
<1>4. /\ row.pinned \in BOOLEAN /\ c.old.pinned \in BOOLEAN /\ c.new.pinned \in BOOLEAN
  BY <1>3, RowTypes
<1>5. /\ Insertable(c)
      /\ row' = Saved(c)
      /\ unpinned' = (unpinned \/ (row.pinned /\ ~row'.pinned))
  BY DEF Save
<1>6. unpinned' \/ (~unpinned /\ (row.pinned => row'.pinned))
  BY <1>5
<1>7. CASE ~Exists(c.old)
  <2>1. row' = c.new
    BY <1>5, <1>7 DEF Saved
  <2>2. ~Exists(row) /\ ~row.pinned
    BY <1>1, <1>5, <1>7 DEF Insertable, RowOk
  <2>3. c.op # "release"
    BY <1>2, <1>7 DEF NewOk
  <2>4. RowOk(row', unpinned')
    BY <1>2, <1>6, <2>1, <2>3 DEF NewOk, RowOk
  <2> QED
    BY <2>2, <2>4
<1>8. CASE Exists(c.old)
  <2>1. /\ row'.sum = IF c.new.sum = c.old.sum THEN row.sum ELSE c.new.sum
        /\ row'.pinned = IF c.new.pinned = c.old.pinned THEN row.pinned ELSE c.new.pinned
    BY <1>5, <1>8 DEF Saved, Updated
  <2>2. Exists(row) /\ Exists(c.new)
    BY <1>2, <1>8 DEF CopyOk, NewOk
  <2>3. Exists(row')
    BY <2>1, <2>2 DEF Exists
  <2>4. c.op # "release" => (row.pinned => row'.pinned)
    BY <1>2, <1>4, <2>1 DEF NewOk
  <2>5. ASSUME ~unpinned', row'.sum \in Texts PROVE row'.pinned
    <3>1. ~unpinned /\ (row.pinned => row'.pinned)
      BY <1>6, <2>5
    <3>2. CASE row'.sum = row.sum
      BY <1>1, <2>5, <3>1, <3>2 DEF RowOk
    <3>3. CASE row'.sum # row.sum
      <4>1. c.new.sum # c.old.sum /\ row'.sum = c.new.sum
        BY <2>1, <3>3
      <4>2. c.op # "release"
        BY <1>2, <4>1 DEF NewOk
      <4>3. c.new.pinned
        BY <1>2, <2>5, <3>1, <4>1, <4>2 DEF NewOk
      <4>4. CASE c.old.pinned
        BY <1>2, <3>1, <4>4 DEF CopyOk
      <4>5. CASE ~c.old.pinned
        BY <1>4, <2>1, <4>3, <4>5
      <4> QED
        BY <4>4, <4>5
    <3> QED
      BY <3>2, <3>3
  <2>6. RowOk(row', unpinned')
    BY <2>3, <2>5 DEF RowOk
  <2> QED
    BY <2>3, <2>4, <2>6
<1> QED
  BY <1>7, <1>8

LEMMA SaveOk ==
    ASSUME PinInv, NEW r \in Requests, Save(r), TypeOK'
    PROVE  PinInv'
<1>1. /\ RowOk(row', unpinned')
      /\ Exists(row) => Exists(row')
  BY SavedOk
<1>2. unpinned' \/ (~unpinned /\ (row.pinned => row'.pinned))
  BY DEF Save
<1>3. unpinned => unpinned'
  BY DEF Save
<1>4. row' \in Row /\ unpinned' \in BOOLEAN
  BY DEF TypeOK
<1>5. ASSUME NEW q \in Requests PROVE CallOk(call'[q], row', unpinned')
  <2>1. CASE q = r
    <3>1. call'[q] = Idle
      BY <2>1 DEF Save, PinInv, TypeOK
    <3> QED
      BY <1>4, <3>1, IdleOk
  <2>2. CASE q # r
    <3>1. call'[q] = call[q]
      BY <2>2 DEF Save, PinInv, TypeOK
    <3>2. CallOk(call[q], row, unpinned)
      BY DEF PinInv
    <3>3. CopyOk(call[q].old, row', unpinned')
      BY <1>1, <1>2, <1>3, <3>2 DEF CallOk, CopyOk, RowOk
    <3>4. NewOk(call[q], unpinned) => NewOk(call[q], unpinned')
      BY <1>3 DEF NewOk
    <3>5. OverOk(call[q], unpinned) => OverOk(call[q], unpinned')
      BY <1>3 DEF OverOk
    <3> QED
      BY <3>1, <3>2, <3>3, <3>4, <3>5 DEF CallOk
  <2> QED
    BY <2>1, <2>2
<1>6. authored' = authored
  BY DEF Save
<1>7. (\A q \in Requests : CallOk(call[q], row, unpinned))'
  BY <1>5, <1>6 DEF CallOk, CopyOk, RowOk, NewOk, OverOk, Exists
<1>8. RowOk(row, unpinned)'
  BY <1>1 DEF RowOk, Exists
<1> QED
  BY <1>7, <1>8 DEF PinInv

LEMMA PinNext == PinInv /\ [Next]_vars => PinInv'
<1> SUFFICES ASSUME PinInv, [Next]_vars PROVE PinInv'
  OBVIOUS
<1>1. TypeOK /\ TypeOK'
  BY NextType DEF PinInv
<1>2. CopyOk(row, row, unpinned) /\ row \in Row /\ unpinned \in BOOLEAN
  BY <1>1, CopyOfRow DEF TypeOK
<1>3. ASSUME NEW r \in Requests, Work(r) \/ Abort(r) PROVE PinInv'
  <2> DEFINE c == call[r]
  <2>1. c \in Call /\ CallOk(c, row, unpinned)
    BY <1>1 DEF PinInv, TypeOK
  <2>2. CallOk(Idle, row, unpinned)
    BY <1>2, IdleOk
  <2>3. CASE Render(r)
    <3> DEFINE d == [Idle EXCEPT !.at = "rendered", !.ctx = data]
    <3>1. data \in Nat
      BY <1>1, DataAssumption DEF TypeOK
    <3>2. d \in Call /\ d.at = "rendered" /\ d.op = "regenerate" /\ d.old = Idle.old
      BY <3>1, IdleType DEF Call
    <3>3. call' = [call EXCEPT ![r] = d] /\ UNCHANGED <<row, unpinned, authored>>
      BY <2>3 DEF Render
    <3> HIDE DEF d
    <3>4. CallOk(d, row, unpinned)
      BY <2>2, <3>2 DEF CallOk
    <3> QED
      BY <1>1, <3>2, <3>3, <3>4, QuietStep
  <2>4. CASE Lock(r)
    <3>1. /\ Holding(c) \in Call /\ Holding(c).at = "locked" /\ Holding(c).op = c.op
          /\ Holding(c).old = row
      BY <1>1, <1>2, <2>1, HoldingMade
    <3>2. call' = [call EXCEPT ![r] = Holding(c)] /\ UNCHANGED <<row, unpinned, authored>>
      BY <1>1, <2>4 DEF Lock, TypeOK
    <3>3. c.op # "release"
      BY <2>1, <2>4 DEF Lock, CallOk
    <3>4. CallOk(Holding(c), row, unpinned)
      BY <1>2, <3>1, <3>3 DEF CallOk
    <3> QED
      BY <1>1, <3>1, <3>2, <3>4, QuietStep
  <2>5. CASE Look(r)
    BY <1>1, <2>5, LookOk
  <2>6. CASE Write(r)
    <3> DEFINE d == [c EXCEPT !.at = "saving"]
    <3>1. /\ d \in Call /\ d.at = "saving" /\ d.op = c.op /\ d.old = c.old /\ d.new = c.new
      BY <2>1 DEF Call
    <3>2. call' = [call EXCEPT ![r] = d] /\ UNCHANGED <<row, unpinned, authored>>
      BY <1>1, <2>6 DEF Write, TypeOK
    <3> HIDE DEF d
    <3>3. CopyOk(c.old, row, unpinned) /\ NewOk(c, unpinned)
      BY <2>1, <2>6 DEF Write, CallOk
    <3>4. CallOk(d, row, unpinned)
      BY <3>1, <3>3 DEF CallOk, NewOk
    <3> QED
      BY <1>1, <3>1, <3>2, <3>4, QuietStep
  <2>7. ASSUME NEW op \in {"keep", "release"}, PinRead(r, op) PROVE PinInv'
    <3> DEFINE d == Pinning(op)
    <3>1. /\ d \in Call /\ d.at = "saving" /\ d.op = op /\ d.old = row
          /\ d.new.sum = row.sum /\ d.new.pinned = (op = "keep")
      BY <1>1, <1>2, <2>1, PinningMade
    <3>2. /\ call' = [call EXCEPT ![r] = d] /\ UNCHANGED <<row, unpinned, authored>>
          /\ Exists(row)
      BY <2>7 DEF PinRead
    <3>3. Exists(d.new)
      BY <3>1, <3>2 DEF Exists
    <3>4. NewOk(d, unpinned)
      BY <3>1, <3>2, <3>3 DEF NewOk
    <3>5. CallOk(d, row, unpinned)
      BY <1>2, <3>1, <3>4 DEF CallOk
    <3> QED
      BY <1>1, <3>1, <3>2, <3>5, QuietStep
  <2>8. CASE AdoptRead(r)
    <3>1. /\ Adopting \in Call /\ Adopting.at = "adopting" /\ Adopting.op = "keep"
          /\ Adopting.old = row
      BY <1>1, <1>2, <2>1, AdoptingMade
    <3>2. call' = [call EXCEPT ![r] = Adopting] /\ UNCHANGED <<row, unpinned, authored>>
      BY <2>8 DEF AdoptRead
    <3>3. CallOk(Adopting, row, unpinned)
      BY <1>2, <3>1 DEF CallOk
    <3> QED
      BY <1>1, <3>1, <3>2, <3>3, QuietStep
  <2>9. CASE AdoptLook(r)
    <3> DEFINE d == Looked(c, "saving", Adopted)
    <3>1. disk \in Sums
      BY <1>1 DEF TypeOK
    <3>2. Adopted \in Row
      BY <3>1, RowTypes DEF Adopted
    <3>3. d \in Call /\ d.at = "saving" /\ d.op = c.op /\ d.old = c.old /\ d.new = Adopted
      BY <2>1, <3>1, <3>2 DEF Looked, Call
    <3>4. call' = [call EXCEPT ![r] = d] /\ UNCHANGED <<row, unpinned, authored>>
      BY <1>1, <2>9 DEF AdoptLook, TypeOK
    <3>5. Exists(Adopted) /\ Adopted.pinned
      BY <2>9 DEF AdoptLook, Adopted, Exists
    <3>6. c.op # "release" /\ CopyOk(c.old, row, unpinned)
      BY <2>1, <2>9 DEF AdoptLook, CallOk
    <3> HIDE DEF d
    <3>7. NewOk(d, unpinned)
      BY <3>3, <3>5, <3>6 DEF NewOk
    <3>8. CallOk(d, row, unpinned)
      BY <3>3, <3>6, <3>7 DEF CallOk
    <3> QED
      BY <1>1, <3>3, <3>4, <3>8, QuietStep
  <2>10. CASE Save(r)
    BY <1>1, <2>10, SaveOk
  <2>11. CASE AdoptMissing(r) \/ SaveRefused(r) \/ Abort(r)
    <3>1. call' = [call EXCEPT ![r] = Idle] /\ UNCHANGED <<row, unpinned, authored>>
      BY <2>11 DEF AdoptMissing, SaveRefused, Abort
    <3> QED
      BY <1>1, <2>2, <3>1, IdleType, QuietStep
  <2> QED
    BY <1>3, <2>3, <2>4, <2>5, <2>6, <2>7, <2>8, <2>9, <2>10, <2>11 DEF Work
<1>4. CASE Plan \/ Edit \/ UNCHANGED vars
  <2>1. UNCHANGED <<authored, row, call, unpinned>>
    BY <1>4 DEF Plan, Edit, vars
  <2> QED
    BY <1>1, <2>1 DEF PinInv, RowOk, CallOk, CopyOk, NewOk, OverOk, Exists
<1> QED
  BY <1>3, <1>4 DEF Next

LEMMA PinAlways == Spec => []PinInv
<1> QED
  BY PinInit, PinNext, PTL DEF Spec

-----------------------------------------------------------------------------
\* The theorems

\* A regeneration writes over a text that it has seen only in a file that is not
\* authored, and that has no row yet or has lost its pin to somebody's request
\* (the decision table of regenerate, set_pinned and adopt_on_disk together).
THEOREM HandWrittenSpared == Spec => []HandWrittenIsSpared
<1>1. PinInv => HandWrittenIsSpared
  BY DEF PinInv, CallOk, OverOk, HandWrittenIsSpared
<1> QED
  BY <1>1, PinAlways, PTL

\* No regeneration or adoption writes an older pin back over a newer one: a pin
\* goes with a set_pinned request that takes it away.
THEOREM PinsAreKept == Spec => PinsStay
<1> DEFINE Keeps == row.pinned /\ ~row'.pinned =>
                       \E r \in Requests : call[r].op = "release" /\ call'[r] # call[r]
<1>1. ASSUME PinInv, [Next]_vars PROVE Keeps
  <2>1. ASSUME NEW r \in Requests, Save(r) PROVE Keeps
    <3>1. row.pinned /\ ~row'.pinned => call[r].op = "release"
      BY <1>1, <2>1, SavedOk
    <3>2. call[r].at = "saving" /\ call'[r] = Idle
      BY <1>1, <2>1 DEF Save, PinInv, TypeOK
    <3>3. call'[r] # call[r]
      BY <3>2, IdleType
    <3> QED
      BY <3>1, <3>3
  <2>2. (\A r \in Requests : ~Save(r)) => row' = row
    BY <1>1 DEF Next, Work, Abort, Render, Lock, Look, Write, PinRead, AdoptRead, AdoptLook,
                AdoptMissing, SaveRefused, Plan, Edit, vars
  <2> QED
    BY <2>1, <2>2
<1>2. PinInv /\ [Next]_vars => [Keeps]_vars
  BY <1>1
<1> QED
  BY <1>2, PinAlways, PTL DEF Spec, PinsStay

-----------------------------------------------------------------------------
\* The context files of a calm server.  A request that is alone saves what it has
\* decided over the very row it decided from.

FileBusy == {r \in Requests : call[r] # Idle}
FileOne == \A r, q \in FileBusy : r = q
FileCalmNext ==
    /\ Plan \/ Edit \/ \E r \in Requests : Work(r)
    /\ Cardinality(FileBusy') <= 1

\* A file that Planarus wrote is known to its row; a text in the row that is not
\* pinned is there because somebody took the pin away.
Knows(sum) == sum = disk \/ (sum \in Returns /\ disk = Written(sum))
FileSync == Exists(row) /\ disk \in Nat => Knows(row.sum)
FileWish == row.sum \in Texts /\ ~row.pinned => wish = "release"

FileCall(c) ==
    /\ c.at \in {"rendered", "locked", "writing"} => c.op = "regenerate"
    /\ c.at \in {"locked", "writing", "adopting", "saving"} => c.old = row
    /\ c.at = "writing" => /\ c.new.sum = c.ctx
                           /\ c.seen \in Texts /\ Exists(c.old) => wish = "release"
    /\ c.at = "saving" =>
          /\ Exists(c.new) /\ disk \in Nat => Knows(c.new.sum)
          /\ c.new.sum \in Texts /\ ~c.new.pinned =>
                c.op = "release" \/ (c.op = "regenerate" /\ wish = "release")

FileCalm ==
    /\ FileOne /\ FileWish
    /\ \A r \in Requests : FileCall(call[r])
    /\ (\A r \in Requests : call[r].at # "saving") => FileSync

LEMMA FileOneAfter ==
    ASSUME Cardinality(FileBusy') <= 1
    PROVE  FileOne'
<1>1. IsFiniteSet(FileBusy') /\ Cardinality(FileBusy') \in Nat
  BY RequestsAreFinite, FS_Subset, FS_CardinalityType DEF FileBusy
<1>2. Cardinality(FileBusy') = 0 \/ Cardinality(FileBusy') = 1
  BY <1>1
<1>3. CASE Cardinality(FileBusy') = 0
  BY <1>1, <1>3, FS_EmptySet DEF FileOne
<1>4. CASE Cardinality(FileBusy') = 1
  BY <1>1, <1>4, FS_Singleton DEF FileOne
<1> QED
  BY <1>2, <1>3, <1>4

LEMMA FileCalmInit == Init => FileCalm
<1> SUFFICES ASSUME Init PROVE FileCalm
  OBVIOUS
<1>1. row.sum \notin Texts /\ ~Exists(row)
  BY TextsAssumption DEF Init, NoRow, Exists
<1> QED
  BY <1>1, IdleType DEF Init, FileCalm, FileOne, FileBusy, FileWish, FileSync, FileCall

\* A request that becomes c, the others being idle.
LEMMA FileMoves ==
    ASSUME TypeOK, FileCalm, FileOne', NEW r \in Requests, NEW c \in Call,
           call' = [call EXCEPT ![r] = c], call[r] # Idle \/ c # Idle,
           FileCall(c)', FileWish', c.at = "saving" \/ FileSync'
    PROVE  FileCalm'
<1>1. call'[r] = c /\ \A s \in Requests \ {r} : call'[s] = call[s]
  BY DEF TypeOK
<1>2. \A s \in Requests \ {r} : call'[s] = Idle
  BY <1>1 DEF FileCalm, FileOne, FileBusy
<1>3. FileCall(Idle)'
  BY IdleType DEF FileCall
<1>4. ASSUME NEW s \in Requests PROVE FileCall(call[s])'
  <2>1. CASE s = r
    BY <1>1, <2>1 DEF FileCall
  <2>2. CASE s # r
    BY <1>2, <1>3, <2>2 DEF FileCall
  <2> QED
    BY <2>1, <2>2
<1> QED
  BY <1>1, <1>4 DEF FileCalm

\* The same if it is not about to save and nothing else changes.
LEMMA FileQuiet ==
    ASSUME TypeOK, FileCalm, FileOne', NEW r \in Requests, NEW c \in Call,
           call' = [call EXCEPT ![r] = c], call[r] # Idle \/ c # Idle,
           call[r].at # "saving", UNCHANGED <<disk, row, wish>>, FileCall(c)
    PROVE  FileCalm' /\ FileSync
<1>1. \A s \in Requests \ {r} : call[s] = Idle
  BY DEF TypeOK, FileCalm, FileOne, FileBusy
<1>2. FileSync
  BY <1>1, IdleType DEF FileCalm
<1>3. FileCall(c)' /\ FileWish' /\ FileSync'
  BY <1>2 DEF FileCall, FileCalm, FileWish, FileSync, Exists, Knows
<1> QED
  BY <1>2, <1>3, FileMoves

LEMMA FileLooks ==
    ASSUME TypeOK, FileCalm, FileOne', NEW r \in Requests, Look(r)
    PROVE  FileCalm'
<1> DEFINE c == call[r]
           x == c.old
           ctx == c.ctx
<1>1. /\ c \in Call /\ c.at = "locked" /\ FileCall(c) /\ row \in Row /\ disk \in Sums
      /\ UNCHANGED <<disk, row, wish>>
  BY DEF Look, TypeOK, FileCalm
<1>2. x = row /\ c.op = "regenerate" /\ x \in Row /\ ctx \in Nat
  BY <1>1 DEF FileCall, Call
<1>3. FileSync /\ FileWish
  <2>1. \A s \in Requests \ {r} : call[s] = Idle
    BY <1>1, IdleType DEF TypeOK, FileCalm, FileOne, FileBusy
  <2> QED
    BY <1>1, <2>1, IdleType DEF FileCalm
<1>4. Left(x) \in Row /\ Adopted \in Row /\ Fresh(x, ctx) \in Row
  BY <1>1, <1>2, RowsMade
<1>5. ASSUME NEW next \in {"writing", "saving"}, NEW new \in Row,
             call' = [call EXCEPT ![r] = Looked(c, next, new)],
             next = "writing" => /\ new.sum = ctx
                                 /\ disk \in Texts /\ Exists(x) => wish = "release",
             next = "saving" => /\ Exists(new) /\ disk \in Nat => Knows(new.sum)
                                /\ new.sum \in Texts /\ ~new.pinned => wish = "release"
      PROVE  FileCalm'
  <2> DEFINE d == Looked(c, next, new)
  <2>1. /\ d \in Call /\ d.at = next /\ d.op = c.op /\ d.old = x /\ d.seen = disk /\ d.new = new
    <3>1. c \in Call
      BY <1>1
    <3> HIDE DEF c
    <3> QED
      BY <3>1, LookedMade
  <2>2. d.ctx = ctx
    BY <1>1 DEF Looked, Call
  <2> HIDE DEF d
  <2>3. FileCall(d)
    BY <1>2, <1>5, <2>1, <2>2 DEF FileCall
  <2> QED
    BY <1>1, <1>5, <2>1, <2>3, FileQuiet, IdleType DEF d
<1>6. CASE Spared(x, ctx) /\ call' = [call EXCEPT ![r] = Looked(c, "saving", Left(x))]
  <2>1. Exists(Left(x)) /\ disk \in Nat => Knows(Left(x).sum)
    BY <1>2, <1>3 DEF Left, Exists, Pinned, Drifted, FileSync, Knows
  <2>2. Left(x).sum \in Texts /\ ~Left(x).pinned => wish = "release"
    BY <1>2, <1>3, TextsAssumption DEF Left, Exists, Pinned, FileWish
  <2> QED
    BY <1>4, <1>5, <1>6, <2>1, <2>2
<1>7. CASE call' = [call EXCEPT ![r] = Looked(c, "saving", Adopted)]
  BY <1>4, <1>5, <1>7 DEF Adopted, Knows
<1>8. CASE ~Spared(x, ctx) /\ call' = [call EXCEPT ![r] = Looked(c, "writing", Fresh(x, ctx))]
  <2>1. disk \in Texts /\ Exists(x) => wish = "release"
    BY <1>2, <1>3, <1>8, TextsAssumption DEF Spared, Pinned, Drifted, FileWish
  <2> QED
    BY <1>4, <1>5, <1>8, <2>1 DEF Fresh
<1> QED
  BY <1>6, <1>7, <1>8 DEF Look, TypeOK

LEMMA FileCalmStep ==
    ASSUME PinInv, FileCalm, FileCalmNext
    PROVE  FileCalm'
<1>0. /\ FileOne' /\ TypeOK /\ row \in Row /\ data \in Nat
      /\ \A r \in Requests : call[r] \in Call /\ FileCall(call[r])
  BY FileOneAfter, DataAssumption DEF FileCalmNext, FileCalm, PinInv, TypeOK
<1>1. ASSUME NEW r \in Requests, Render(r) PROVE FileCalm'
  <2> DEFINE d == [Idle EXCEPT !.at = "rendered", !.ctx = data]
  <2>1. d \in Call /\ d.at = "rendered" /\ d.op = "regenerate"
    BY <1>0, IdleType DEF Call
  <2>2. /\ call' = [call EXCEPT ![r] = d] /\ UNCHANGED <<disk, row, wish>>
        /\ call[r].at # "saving"
    BY <1>1, IdleType DEF Render
  <2> HIDE DEF d
  <2>3. FileCall(d)
    BY <2>1 DEF FileCall
  <2> QED
    BY <1>0, <2>1, <2>2, <2>3, FileQuiet, IdleType
<1>2. ASSUME NEW r \in Requests, Lock(r) PROVE FileCalm'
  <2>1. /\ Holding(call[r]) \in Call /\ Holding(call[r]).at = "locked"
        /\ Holding(call[r]).op = call[r].op /\ Holding(call[r]).old = row
    BY <1>0, HoldingMade
  <2>2. /\ call' = [call EXCEPT ![r] = Holding(call[r])] /\ UNCHANGED <<disk, row, wish>>
        /\ call[r].at = "rendered"
    BY <1>0, <1>2 DEF Lock, TypeOK
  <2>3. FileCall(Holding(call[r]))
    BY <1>0, <2>1, <2>2 DEF FileCall
  <2> QED
    BY <1>0, <2>1, <2>2, <2>3, FileQuiet, IdleType
<1>3. ASSUME NEW r \in Requests, Look(r) PROVE FileCalm'
  BY <1>0, <1>3, FileLooks
<1>4. ASSUME NEW r \in Requests, Write(r) PROVE FileCalm'
  <2>1. PICK d \in Call : /\ d = [call[r] EXCEPT !.at = "saving"] /\ d.at = "saving"
                         /\ d.op = call[r].op /\ d.old = call[r].old /\ d.new = call[r].new
    <3> DEFINE e == [call[r] EXCEPT !.at = "saving"]
    <3>1. /\ e \in Call /\ e.at = "saving"
          /\ e.op = call[r].op /\ e.old = call[r].old /\ e.new = call[r].new
      BY <1>0 DEF Call
    <3> QED
      BY <3>1
  <2>2. /\ call' = [call EXCEPT ![r] = d] /\ UNCHANGED <<row, wish>> /\ call[r].at = "writing"
        /\ disk' = Written(call[r].ctx) /\ call[r].ctx \in Nat
    BY <1>0, <1>4, <2>1 DEF Write, TypeOK, Call
  <2>3. d.old = row /\ d.new.sum = call[r].ctx
    BY <1>0, <2>1, <2>2 DEF FileCall
  <2>6. Knows(d.new.sum)'
    BY <2>2, <2>3 DEF Knows, Written
  <2>7. disk' \in Nat /\ d.new.sum \notin Texts
    BY <2>2, <2>3, DataAssumption DEF Written
  <2>4. FileCall(d)'
    BY <2>1, <2>2, <2>3, <2>6, <2>7 DEF FileCall
  <2>5. FileWish'
    BY <2>2 DEF FileCalm, FileWish
  <2> QED
    BY <1>0, <2>1, <2>2, <2>4, <2>5, FileMoves, IdleType
<1>5. ASSUME NEW r \in Requests, NEW op \in {"keep", "release"}, PinRead(r, op)
      PROVE  FileCalm'
  <2>1. PICK d \in Call : /\ d = Pinning(op) /\ d.at = "saving" /\ d.op = op /\ d.old = row
                         /\ d.new.sum = row.sum /\ d.new.pinned = (op = "keep")
    BY <1>0, PinningMade
  <2>2. call' = [call EXCEPT ![r] = d] /\ UNCHANGED <<disk, row, wish>> /\ call[r] = Idle
    BY <1>5, <2>1 DEF PinRead
  <2>3. d # Idle
    BY <2>1, IdleType
  <2>4. FileSync
    <3>1. \A s \in Requests \ {r} : call'[s] = call[s]
      BY <2>2
    <3>2. call'[r] = d
      BY <1>0, <2>2 DEF TypeOK
    <3>3. \A s \in Requests : call[s] = Idle
      BY <1>0, <2>2, <2>3, <3>1, <3>2 DEF FileOne, FileBusy
    <3> QED
      BY <3>3, IdleType DEF FileCalm
  <2>5. FileCall(d)'
    BY <2>1, <2>2, <2>4 DEF FileCall, FileSync, Exists, Knows
  <2>6. FileWish'
    BY <2>2 DEF FileCalm, FileWish
  <2> QED
    BY <1>0, <2>1, <2>2, <2>3, <2>5, <2>6, FileMoves
<1>6. ASSUME NEW r \in Requests, AdoptRead(r) PROVE FileCalm'
  <2>1. /\ Adopting \in Call /\ Adopting.at = "adopting" /\ Adopting.op = "keep"
        /\ Adopting.old = row
    BY <1>0, AdoptingMade
  <2>2. call' = [call EXCEPT ![r] = Adopting] /\ UNCHANGED <<disk, row, wish>> /\ call[r] = Idle
    BY <1>6 DEF AdoptRead
  <2>3. FileCall(Adopting)
    BY <2>1 DEF FileCall
  <2> QED
    BY <1>0, <2>1, <2>2, <2>3, FileQuiet, IdleType
<1>7. ASSUME NEW r \in Requests, AdoptLook(r) PROVE FileCalm'
  <2> DEFINE d == Looked(call[r], "saving", Adopted)
  <2>1. Adopted \in Row
    BY <1>0, RowTypes DEF Adopted, TypeOK
  <2>2. /\ d \in Call /\ d.at = "saving" /\ d.op = call[r].op /\ d.old = call[r].old
        /\ d.new = Adopted
    <3>1. call[r] \in Call /\ "saving" \in {"writing", "saving"} /\ TypeOK
      BY <1>0 DEF TypeOK
    <3> QED
      BY <2>1, <3>1, LookedMade
  <2>3. /\ call' = [call EXCEPT ![r] = d] /\ UNCHANGED <<disk, row, wish>>
        /\ call[r].at = "adopting"
    BY <1>0, <1>7 DEF AdoptLook, TypeOK
  <2> HIDE DEF d
  <2>4. FileCall(d)
    BY <1>0, <2>2, <2>3 DEF FileCall, Adopted, Knows
  <2> QED
    BY <1>0, <2>2, <2>3, <2>4, FileQuiet, IdleType
<1>8. ASSUME NEW r \in Requests, AdoptMissing(r) PROVE FileCalm'
  <2>1. /\ call' = [call EXCEPT ![r] = Idle] /\ UNCHANGED <<disk, row, wish>>
        /\ call[r].at = "adopting"
    BY <1>8 DEF AdoptMissing
  <2>2. FileCall(Idle)
    BY IdleType DEF FileCall
  <2> QED
    BY <1>0, <2>1, <2>2, FileQuiet, IdleType
<1>9. ASSUME NEW r \in Requests, Save(r) PROVE FileCalm'
  <2>1. /\ call' = [call EXCEPT ![r] = Idle] /\ disk' = disk /\ call[r].at = "saving"
        /\ row' = Saved(call[r])
        /\ wish' = IF call[r].op = "regenerate" THEN wish ELSE call[r].op
    BY <1>9 DEF Save
  <2>2. call[r].old = row /\ FileCall(call[r])
    BY <1>0, <2>1 DEF FileCall
  <2>3. row'.sum = call[r].new.sum /\ row'.pinned = call[r].new.pinned
    BY <2>1, <2>2 DEF Saved, Updated
  <2>4. FileSync' /\ FileWish'
    BY <2>1, <2>2, <2>3 DEF FileCall, FileSync, FileWish, Exists, Knows
  <2>5. FileCall(Idle)'
    BY IdleType DEF FileCall
  <2> QED
    BY <1>0, <2>1, <2>4, <2>5, FileMoves, IdleType
<1>10. ASSUME NEW r \in Requests, SaveRefused(r) PROVE FileCalm'
  BY <1>0, <1>10 DEF SaveRefused, Insertable, FileCall
<1>11. CASE Plan
  BY <1>0, <1>11 DEF Plan, FileCalm, FileWish, FileSync, FileCall, Knows
<1>12. CASE Edit
  <2>1. disk' \notin Nat /\ UNCHANGED <<row, call, wish>>
    BY <1>12, DataAssumption DEF Edit
  <2> QED
    BY <1>0, <2>1 DEF FileCalm, FileWish, FileSync, FileCall
<1> QED
  BY <1>1, <1>2, <1>3, <1>4, <1>5, <1>6, <1>7, <1>8, <1>9, <1>10, <1>11, <1>12
     DEF FileCalmNext, Work

LEMMA FileKept == PinInv /\ (calm => FileCalm) => CalmFileIsKept
<1> SUFFICES ASSUME PinInv, calm => FileCalm PROVE CalmFileIsKept
  OBVIOUS
<1>1. CalmInSync
  BY IdleType DEF CalmInSync, FileCalm, FileSync, Knows
<1>2. CalmWishesHold
  BY DEF CalmWishesHold, FileCalm, FileCall
<1> QED
  BY <1>1, <1>2 DEF CalmFileIsKept, PinInv

-----------------------------------------------------------------------------
\* The instance of MCOutside

outsideVars == <<part, calm, vars, fileVars, mailVars, calendarVars, gitVars, packVars>>

\* A step of the instance is one of the part that runs.
LEMMA PartSteps ==
    ASSUME [OutsideNext]_outsideVars
    PROVE  /\ part' = part
           /\ part = "files" => MCNext \/ UNCHANGED <<vars, calm>>
           /\ part # "files" => UNCHANGED <<vars, calm>>
           /\ part = "backups" => (BackupsNext \/ UNCHANGED fileVars) /\ calm' = calm
           /\ part = "mails" => (MailsNext \/ UNCHANGED mailVars) /\ calm' = calm
           /\ part = "calendar" => (CalendarNext \/ UNCHANGED calendarVars) /\ calm' = calm
           /\ part \in {"git", "git with faults"} =>
                  (GitNext \/ UNCHANGED gitVars) /\ calm' = calm
BY DEF OutsideNext, outsideVars, MCNext


FileRun == PinInv /\ (calm => FileCalm)

\* The context files run in MCSpec, and in the instance.
LEMMA FileRunStep == FileRun /\ (MCNext \/ UNCHANGED <<vars, calm>>) => FileRun'
<1> SUFFICES ASSUME FileRun, MCNext \/ UNCHANGED <<vars, calm>> PROVE FileRun'
  OBVIOUS
<1>1. CASE UNCHANGED <<vars, calm>>
  <2>1. PinInv'
    BY <1>1, PinNext DEF FileRun
  <2>2. FileCalm => FileCalm'
    BY <1>1 DEF vars, FileCalm, FileOne, FileBusy, FileWish, FileSync, FileCall, Exists, Knows
  <2> QED
    BY <1>1, <2>1, <2>2 DEF FileRun
<1>2. CASE MCNext
  <2>1. PinInv'
    BY <1>2, PinNext DEF FileRun, MCNext, Next
  <2>2. calm' = calm /\ (calm => FileCalmNext)
    BY <1>2 DEF MCNext, FileCalmNext, FileBusy
  <2>3. calm => FileCalm'
    BY <2>2, FileCalmStep DEF FileRun
  <2> QED
    BY <2>1, <2>2, <2>3 DEF FileRun
<1> QED
  BY <1>1, <1>2

\* One request at a time, the row knows what Planarus wrote into the file, and a
\* regeneration overwrites a text it has found only if the last decision of a person
\* was to take the pin away (regenerate, set_pinned and adopt_on_disk).
THEOREM FilesOfOutside == OutsideSpec => []CalmFileIsKept
<1>1. OutsideInit => FileRun
  BY PinInit, FileCalmInit DEF OutsideInit, MCInit, FileRun
<1>2. FileRun => CalmFileIsKept
  BY FileKept DEF FileRun
<1>3. FileRun /\ [OutsideNext]_outsideVars => FileRun'
  BY FileRunStep, PartSteps DEF outsideVars
<1> QED
  BY <1>1, <1>2, <1>3, PTL DEF OutsideSpec, outsideVars

-----------------------------------------------------------------------------
\* The backups and restores of the database

\* What a restore has displaced, with a part of it where no restore and no start of
\* the application reaches it any more.
BackupLasts(v) ==
    \E m \in aside :
        /\ m.kind = "main"
        /\ m.ver = v \/ \E w \in aside \cup {wal} : w.kind = "wal" /\ w.of = m.id /\ w.ver = v

\* A database file is newer than those that were moved aside, so that none of their
\* logs is in its place.
BackupFiles ==
    /\ up => B!Sound
    /\ main # B!None /\ wal # B!None => wal.of = main.id
    /\ main # B!None => \A x \in aside : x.kind = "main" => x.id < main.id
    /\ \E x \in B!Pieces \ {B!None} : x.ver \in B!Vers
    /\ \A v \in owed : BackupLasts(v)

BackupRestore ==
    /\ restore.at = "idle" <=> restore = B!NoRestore
    /\ restore # B!NoRestore =>
          /\ ~up /\ restore.stamp \in B!Stamps /\ file[restore.stamp] \in B!Vers
          /\ \A j \in Requests : job[j] = B!Idle
    /\ restore.at \in {"moved", "clear"} => main = B!None
    /\ restore.at \in {"clear", "copying"} => wal = B!None
    /\ restore.at = "copying" => main # B!None

BackupInv ==
    /\ B!TypeOK /\ BackupFiles /\ BackupRestore
    /\ \A j \in Requests : job[j] # B!Idle => job[j].at # "idle" /\ job[j].stamp \in B!Stamps

\* One backup at a time.  The one under way is newer than all the others, and is in
\* its place once it is verified.
BackupBusy == {j \in Requests : job[j] # B!Idle}
BackupOne == \A j, k \in BackupBusy : j = k
BackupNewest(c) ==
    /\ c.stamp > reported /\ file[c.stamp] # Missing
    /\ \A t \in B!Stamps : t > c.stamp => file[t] = Missing
    /\ c.at = "writing" => c.ver # 0 /\ file[c.stamp] = Torn
    /\ c.at \in {"verified", "kept"} => file[c.stamp] \in B!Vers
BackupCalm ==
    /\ BackupOne
    /\ \A s \in B!Stamps : file[s] # 0
    /\ main # B!None => main.ver # 0
    /\ wal # B!None => wal.ver # 0
    /\ \A j \in Requests : job[j] # B!Idle => BackupNewest(job[j])
    /\ B!GoodBackupStays
BackupCalmNext == B!Next /\ Cardinality(BackupBusy') <= 1

LEMMA LeastIs ==
    ASSUME NEW S \in SUBSET Nat, S # {}
    PROVE  \E x \in S : \A y \in S : x <= y
<1>1. PICK x \in S : \A y \in S : <<y, x>> \notin OpToRel(<, Nat)
  BY WFMin, NatLessThanWellFounded, Zenon
<1>2. \A y \in S : ~(y < x)
  BY <1>1 DEF OpToRel
<1> QED
  BY <1>2

LEMMA NewestIs ==
    ASSUME NEW N \in Nat, NEW S \in SUBSET (0..N), S # {}
    PROVE  B!Newest(S) \in S /\ \A w \in S : w <= B!Newest(S)
<1> DEFINE T == {N - x : x \in S}
<1>1. T \in SUBSET Nat /\ T # {}
  <2>1. \A x \in S : x \in 0..N /\ N - x \in Nat
    OBVIOUS
  <2> QED
    BY <2>1
<1>2. PICK m \in T : \A y \in T : m <= y
  <2> HIDE DEF T
  <2> QED
    BY <1>1, LeastIs
<1>3. PICK v \in S : m = N - v
  BY <1>2
<1>4. \A w \in S : w <= v
  BY <1>2, <1>3
<1> QED
  BY <1>4 DEF B!Newest


\* What the database's files are, and how new they are.
LEMMA BackupParts ==
    ASSUME BackupInv
    PROVE  /\ B!None \notin B!Main /\ B!None \notin B!Wal
           /\ main # B!None => main \in B!Main /\ main.kind = "main" /\ main.id \in 0..MaxId
                               /\ main.ver \in B!Vers \cup {Torn}
           /\ wal # B!None => wal \in B!Wal /\ wal.kind = "wal" /\ wal.of \in 0..MaxId
                              /\ wal.ver \in B!Vers
           /\ \A x \in aside : x \in B!Main \/ x \in B!Wal
           /\ \A x \in aside : x # B!None
           /\ Torn \notin B!Vers
BY BackupsAssumption DEF BackupInv, B!TypeOK, B!Main, B!Wal, B!None, B!Vers

LEMMA BackupLive ==
    ASSUME BackupInv, main # B!None
    PROVE  B!Live \in B!Vers \cup {Torn} /\ (B!Sound => B!Live \in B!Vers)
BY BackupParts DEF B!Live, B!Sound

LEMMA BackupLastId ==
    ASSUME BackupInv, B!LastId < MaxId
    PROVE  /\ B!LastId + 1 \in 0..MaxId
           /\ \A x \in B!Pieces : x.kind = "main" => x.id < B!LastId + 1
<1> DEFINE I == {x.id : x \in {y \in B!Pieces : y.kind = "main"}}
                \cup {x.of : x \in {y \in B!Pieces : y.kind = "wal"}} \cup {0}
<1>1. \A x \in B!Pieces :
         x = B!None \/ (x \in B!Main /\ x.kind = "main") \/ (x \in B!Wal /\ x.kind = "wal")
  BY BackupParts DEF B!Pieces, B!Main, B!Wal
<1>2. I \in SUBSET (0..MaxId)
  <2>1. \A x \in B!Pieces : /\ x.kind = "main" => x.id \in 0..MaxId
                            /\ x.kind = "wal" => x.of \in 0..MaxId
    BY <1>1 DEF B!Main, B!Wal, B!None
  <2> QED
    BY <2>1, BackupsAssumption
<1>3. B!LastId = B!Newest(I)
  BY DEF B!LastId
<1>4. \A x \in B!Pieces : x.kind = "main" => x.id \in I
  OBVIOUS
<1>5. I # {}
  OBVIOUS
<1> HIDE DEF I
<1>6. B!Newest(I) \in I /\ \A w \in I : w <= B!Newest(I)
  BY <1>2, <1>5, NewestIs, BackupsAssumption
<1>7. B!Newest(I) \in 0..MaxId
  BY <1>2, <1>6
<1>8. \A w \in I : w \in Nat
  BY <1>2
<1> QED
  BY <1>3, <1>4, <1>6, <1>7, <1>8, BackupsAssumption

LEMMA BackupLastVer ==
    ASSUME BackupInv, B!LastVer < MaxVer
    PROVE  B!LastVer + 1 \in B!Vers /\ B!LastVer + 1 # 0
<1> DEFINE V == (B!Known \cap B!Vers) \cup owed \cup {job[j].ver : j \in Requests}
<1>1. V \in SUBSET (0..MaxVer)
  <2>1. owed \subseteq B!Vers /\ \A j \in Requests : job[j].ver \in B!Vers
    BY DEF BackupInv, B!TypeOK, B!Job
  <2> QED
    BY <2>1 DEF B!Vers
<1>2. V # {}
  <2>1. PICK x \in B!Pieces \ {B!None} : x.ver \in B!Vers
    BY DEF BackupInv, BackupFiles
  <2>2. x.ver \in B!Known
    BY <2>1 DEF B!Known
  <2> QED
    BY <2>1, <2>2
<1>3. B!LastVer = B!Newest(V)
  BY DEF B!LastVer
<1> HIDE DEF V
<1>4. B!Newest(V) \in 0..MaxVer
  BY <1>1, <1>2, NewestIs, BackupsAssumption
<1> QED
  BY <1>3, <1>4, BackupsAssumption DEF B!Vers

LEMMA BackupTaken ==
    ASSUME BackupInv, NEW s \in B!Stamps, s = B!Newest(B!Taken) + 1
    PROVE  /\ s > reported /\ \A t \in B!Stamps : t >= s => file[t] = Missing
<1>1. B!Taken \in SUBSET (0..MaxStamp) /\ reported \in B!Taken
  <2>1. reported \in 0..MaxStamp /\ \A j \in Requests : job[j].stamp \in 0..MaxStamp
    BY BackupsAssumption DEF BackupInv, B!TypeOK, B!Job, B!Stamps
  <2> QED
    BY <2>1, BackupsAssumption DEF B!Taken, B!Stamps
<1>2. B!Newest(B!Taken) \in B!Taken /\ \A w \in B!Taken : w <= B!Newest(B!Taken)
  BY <1>1, NewestIs, BackupsAssumption
<1> DEFINE n == B!Newest(B!Taken)
<1> HIDE DEF n
<1>3. n \in 0..MaxStamp /\ \A w \in B!Taken : w \in 0..MaxStamp /\ w <= n
  BY <1>1, <1>2 DEF n
<1>4. \A t \in B!Stamps : file[t] # Missing => t \in B!Taken
  BY DEF B!Taken
<1>5. s = n + 1
  BY DEF n
<1> QED
  BY <1>1, <1>3, <1>4, <1>5, BackupsAssumption DEF B!Stamps

LEMMA BackupInit == B!Init => BackupInv /\ BackupCalm
<1> SUFFICES ASSUME B!Init PROVE BackupInv /\ BackupCalm
  OBVIOUS
<1>1. main \in B!Main /\ main # B!None /\ main.ver = 1 /\ 1 \in B!Vers /\ wal = B!None
  BY BackupsAssumption DEF B!Init, B!Main, B!None, B!Vers
<1>2. B!TypeOK
  <2>1. B!Idle \in B!Job /\ B!NoRestore \in B!Restore
    BY BackupsAssumption DEF B!Job, B!Idle, B!Restore, B!NoRestore, B!Vers
  <2>2. file \in [B!Stamps -> B!Contents] /\ job \in [Requests -> B!Job]
    BY <2>1 DEF B!Init, B!Contents
  <2> QED
    BY <1>1, <2>1, <2>2 DEF B!Init, B!TypeOK
<1>3. BackupFiles
  BY <1>1 DEF B!Init, BackupFiles, B!Pieces
<1>4. BackupRestore
  BY DEF B!Init, BackupRestore, B!NoRestore
<1>5. BackupCalm
  BY <1>1, BackupsAssumption DEF B!Init, BackupCalm, BackupOne, BackupBusy, B!GoodBackupStays
<1> QED
  BY <1>2, <1>3, <1>4, <1>5 DEF B!Init, BackupInv

\* The files of the database stay.
LEMMA BackupFilesStay ==
    ASSUME BackupFiles, UNCHANGED <<B!database, owed>>
    PROVE  BackupFiles'
BY DEF BackupFiles, B!database, B!Pieces, BackupLasts, B!Sound

\* A step of a backup that becomes c.
LEMMA BackupMoves ==
    ASSUME BackupInv, UNCHANGED <<B!database, restore, owed>>, restore = B!NoRestore,
           file' \in [B!Stamps -> B!Contents], reported' \in B!Stamps \cup {0},
           NEW j \in Requests, NEW c \in B!Job, job' = [job EXCEPT ![j] = c],
           c # B!Idle => c.at # "idle" /\ c.stamp \in B!Stamps
    PROVE  BackupInv'
<1>1. B!TypeOK'
  BY DEF BackupInv, B!TypeOK, B!database
<1>2. BackupFiles'
  BY BackupFilesStay DEF BackupInv
<1>3. BackupRestore'
  BY DEF BackupInv, BackupRestore, B!NoRestore
<1>4. \A k \in Requests : job'[k] # B!Idle => job'[k].at # "idle" /\ job'[k].stamp \in B!Stamps
  BY DEF BackupInv, B!TypeOK
<1> QED
  BY <1>1, <1>2, <1>3, <1>4 DEF BackupInv

\* A step of the database or of a restore.
LEMMA BackupDatabase ==
    ASSUME BackupInv, UNCHANGED <<file, job, reported>>,
           up' \in BOOLEAN, main' \in B!Main \cup {B!None}, wal' \in B!Wal \cup {B!None},
           aside' \subseteq B!Main \cup B!Wal, restore' \in B!Restore, owed' \subseteq B!Vers,
           BackupFiles', BackupRestore'
    PROVE  BackupInv'
BY DEF BackupInv, B!TypeOK

LEMMA BackupMain ==
    ASSUME NEW m \in B!Main, NEW v \in B!Vers \cup {Torn}
    PROVE  \E n \in B!Main : n = [m EXCEPT !.ver = v] /\ n.id = m.id /\ n.ver = v /\ n # B!None
<1> DEFINE n == [m EXCEPT !.ver = v]
<1>1. n \in B!Main /\ n.id = m.id /\ n.ver = v /\ n # B!None
  BY DEF B!Main, B!None
<1> QED
  BY <1>1

LEMMA BackupStartKeeps ==
    ASSUME BackupInv, B!Start
    PROVE  BackupInv'
<1>0. /\ UNCHANGED <<aside, file, job, restore, reported>> /\ up' = TRUE /\ restore = B!NoRestore
      /\ aside \subseteq B!Main \cup B!Wal /\ restore \in B!Restore /\ owed \subseteq B!Vers
      /\ main \in B!Main \cup {B!None} /\ wal \in B!Wal \cup {B!None}
  BY DEF B!Start, BackupInv, B!TypeOK
<1>1. BackupRestore'
  BY <1>0 DEF BackupRestore, B!NoRestore
<1>2. CASE B!Sound /\ UNCHANGED <<main, wal, owed>>
  <2>1. BackupFiles'
    BY <1>0, <1>2 DEF BackupInv, BackupFiles, B!Sound, B!Pieces, BackupLasts
  <2> QED
    BY <1>0, <1>1, <1>2, <2>1, BackupDatabase
<1>3. CASE /\ main = B!None /\ B!LastId < MaxId /\ B!LastVer < MaxVer
           /\ main' = B!NewMain(B!LastVer + 1) /\ wal' = B!None
           /\ owed' = IF wal = B!None THEN owed ELSE owed \ {wal.ver}
  <2>1. PICK m \in B!Main : m = B!NewMain(B!LastVer + 1)
    BY <1>3, BackupLastId, BackupLastVer DEF B!NewMain, B!Main
  <2>2. m.id = B!LastId + 1 /\ m.ver \in B!Vers /\ m # B!None
    BY <1>3, <2>1, BackupLastVer DEF B!NewMain, B!None
  <2>3. \A x \in aside : x.kind = "main" => x.id < m.id
    BY <1>3, <2>2, BackupLastId DEF B!Pieces
  <2>4. \E x \in B!Pieces' \ {B!None} : x.ver \in B!Vers
    BY <1>3, <2>1, <2>2 DEF B!Pieces
  <2>5. ASSUME NEW v \in owed' PROVE BackupLasts(v)'
    <3>1. v \in owed /\ (wal # B!None => v # wal.ver)
      BY <1>3
    <3>2. BackupLasts(v)
      BY <3>1 DEF BackupInv, BackupFiles
    <3>3. B!None.kind = "none"
      BY DEF B!None
    <3> QED
      BY <1>0, <3>1, <3>2, <3>3 DEF BackupLasts
  <2>6. BackupFiles'
    BY <1>0, <1>3, <2>1, <2>2, <2>3, <2>4, <2>5, BackupParts DEF BackupFiles, B!Sound
  <2> QED
    BY <1>0, <1>1, <1>3, <2>1, <2>6, BackupDatabase
<1> QED
  BY <1>2, <1>3 DEF B!Start

\* The running application: the database file keeps its identity.
LEMMA BackupUpKeeps ==
    ASSUME BackupInv, up, NEW m \in B!Main, NEW w \in B!Wal \cup {B!None},
           m.id = main.id, m.ver \in B!Vers \/ m = main, w # B!None => w.of = m.id,
           w # B!None \/ m.ver \in B!Vers,
           main' = m, wal' = w, up' \in BOOLEAN,
           UNCHANGED <<aside, file, job, restore, reported, owed>>
    PROVE  BackupInv'
<1>0. /\ restore = B!NoRestore /\ main \in B!Main /\ main # B!None /\ m # B!None
      /\ aside \subseteq B!Main \cup B!Wal /\ restore \in B!Restore /\ owed \subseteq B!Vers
  BY BackupParts DEF BackupInv, B!TypeOK, BackupRestore, BackupFiles, B!Sound
<1>1. BackupRestore'
  BY <1>0 DEF BackupRestore, B!NoRestore
<1>2. \E x \in B!Pieces' \ {B!None} : x.ver \in B!Vers
  BY <1>0 DEF B!Pieces, B!Wal
<1>3. ASSUME NEW v \in owed PROVE BackupLasts(v)'
  <2>1. BackupLasts(v)
    BY DEF BackupInv, BackupFiles
  <2>2. \A x \in aside : x.kind = "main" => x.id # main.id
    <3>1. \A x \in aside : x.kind = "main" => x.id < main.id /\ x.id \in 0..MaxId
      BY <1>0, BackupParts DEF BackupInv, BackupFiles, B!Main, B!Wal
    <3> QED
      BY <3>1
  <2>3. wal.kind = "wal" => wal.of = main.id
    BY <1>0 DEF BackupInv, BackupFiles, B!None
  <2> QED
    BY <2>1, <2>2, <2>3 DEF BackupLasts
<1>4. BackupFiles'
  BY <1>0, <1>2, <1>3, BackupParts DEF BackupInv, BackupFiles, B!Sound
<1> QED
  BY <1>0, <1>1, <1>4, BackupDatabase

\* A step of a backup.
BackupStep(j) ==
    \/ B!BackupBegin(j) \/ B!BackupWritten(j) \/ B!BackupVerify(j)
    \/ B!BackupPrune(j) \/ B!BackupReport(j) \/ B!BackupDies(j)

LEMMA BackupJob ==
    /\ B!Idle \in B!Job /\ B!Idle.at = "idle"
    /\ \A c \in B!Job, a \in {"written", "verified", "kept"} :
          LET d == [c EXCEPT !.at = a] IN
          d \in B!Job /\ d.at = a /\ d.stamp = c.stamp /\ d.ver = c.ver
BY BackupsAssumption DEF B!Job, B!Idle, B!Vers

\* What a step of a backup makes of the job and of the files.
LEMMA BackupStepMakes ==
    ASSUME BackupInv, NEW j \in Requests, BackupStep(j)
    PROVE  /\ UNCHANGED <<B!database, restore, owed>> /\ restore = B!NoRestore
           /\ file' \in [B!Stamps -> B!Contents] /\ reported' \in B!Stamps \cup {0}
           /\ \E c \in B!Job : /\ job' = [job EXCEPT ![j] = c]
                               /\ c # B!Idle => c.at # "idle" /\ c.stamp \in B!Stamps
<1>0. /\ file \in [B!Stamps -> B!Contents] /\ reported \in B!Stamps \cup {0}
      /\ job[j] \in B!Job /\ B!Vers \subseteq B!Contents
      /\ Missing \in B!Contents /\ Torn \in B!Contents
      /\ job[j] # B!Idle => job[j].stamp \in B!Stamps /\ restore = B!NoRestore
      /\ 0 \in B!Vers
  BY BackupsAssumption DEF BackupInv, B!TypeOK, BackupRestore, B!Contents, B!Vers
<1>1. CASE B!BackupBegin(j)
  <2>1. PICK s \in B!Stamps : /\ file' = [file EXCEPT ![s] = Torn]
                              /\ job' = [job EXCEPT ![j] = [at |-> "writing", stamp |-> s,
                                                            ver |-> B!Live]]
    BY <1>1 DEF B!BackupBegin
  <2>2. B!Live \in B!Vers
    BY <1>1, BackupLive DEF B!BackupBegin, B!Sound
  <2>3. PICK c \in B!Job : c = [at |-> "writing", stamp |-> s, ver |-> B!Live]
    BY <2>2 DEF B!Job
  <2>4. c.at # "idle" /\ c.stamp \in B!Stamps
    BY <2>3
  <2> QED
    BY <1>0, <1>1, <2>1, <2>3, <2>4 DEF B!BackupBegin
<1>2. CASE B!BackupWritten(j)
  <2> DEFINE d == [job[j] EXCEPT !.at = "written"]
  <2>1. d \in B!Job /\ d.at = "written" /\ d.stamp = job[j].stamp /\ job[j] # B!Idle
    BY <1>0, <1>2, BackupJob DEF B!BackupWritten
  <2>2. file' \in [B!Stamps -> B!Contents]
    <3>1. PICK c \in {job[j].ver, Torn} :
             file' = [file EXCEPT ![job[j].stamp] = IF @ = Missing THEN @ ELSE c]
      BY <1>2 DEF B!BackupWritten
    <3>2. c \in B!Contents
      BY <1>0 DEF B!Job
    <3> QED
      BY <1>0, <3>1, <3>2
  <2> QED
    BY <1>0, <1>2, <2>1, <2>2 DEF B!BackupWritten
<1>3. CASE B!BackupVerify(j)
  <2> DEFINE d == [job[j] EXCEPT !.at = "verified"]
  <2>1. d \in B!Job /\ d.at = "verified" /\ d.stamp = job[j].stamp /\ job[j] # B!Idle
    BY <1>0, <1>3, BackupJob DEF B!BackupVerify
  <2>2. job' = [job EXCEPT ![j] = d] \/ job' = [job EXCEPT ![j] = B!Idle]
    BY <1>3 DEF B!BackupVerify
  <2>3. file' \in [B!Stamps -> B!Contents]
    BY <1>0, <1>3 DEF B!BackupVerify
  <2> HIDE DEF d
  <2> QED
    BY <1>0, <1>3, <2>1, <2>2, <2>3, BackupJob DEF B!BackupVerify
<1>4. CASE B!BackupPrune(j)
  <2> DEFINE d == [job[j] EXCEPT !.at = "kept"]
  <2>1. d \in B!Job /\ d.at = "kept" /\ d.stamp = job[j].stamp /\ job[j] # B!Idle
    BY <1>0, <1>4, BackupJob DEF B!BackupPrune
  <2>2. file' \in [B!Stamps -> B!Contents]
    BY <1>0, <1>4 DEF B!BackupPrune
  <2> QED
    BY <1>0, <1>4, <2>1, <2>2 DEF B!BackupPrune
<1>5. CASE B!BackupReport(j) \/ B!BackupDies(j)
  <2>1. job[j] # B!Idle
    BY <1>5, BackupJob DEF B!BackupReport, B!BackupDies
  <2> QED
    BY <1>0, <1>5, <2>1, BackupJob DEF B!BackupReport, B!BackupDies
<1> QED
  BY <1>1, <1>2, <1>3, <1>4, <1>5 DEF BackupStep

LEMMA BackupStepKeeps ==
    ASSUME BackupInv, NEW j \in Requests, BackupStep(j)
    PROVE  BackupInv'
<1>1. PICK c \in B!Job : /\ job' = [job EXCEPT ![j] = c]
                         /\ c # B!Idle => c.at # "idle" /\ c.stamp \in B!Stamps
  BY BackupStepMakes
<1> QED
  BY <1>1, BackupStepMakes, BackupMoves

LEMMA BackupInvStep ==
    ASSUME BackupInv, B!Next
    PROVE  BackupInv'
<1>0. /\ up \in BOOLEAN /\ main \in B!Main \cup {B!None} /\ wal \in B!Wal \cup {B!None}
      /\ aside \subseteq B!Main \cup B!Wal /\ restore \in B!Restore /\ owed \subseteq B!Vers
      /\ file \in [B!Stamps -> B!Contents] /\ job \in [Requests -> B!Job]
      /\ reported \in B!Stamps \cup {0} /\ BackupRestore /\ BackupFiles
  BY DEF BackupInv, B!TypeOK
<1>1. CASE B!Start
  BY <1>1, BackupStartKeeps
<1>2. CASE B!Commit
  <2>1. B!LastVer + 1 \in B!Vers /\ main \in B!Main
    BY <1>0, <1>2, BackupLastVer DEF B!Commit, BackupFiles, B!Sound
  <2>2. PICK w \in B!Wal : w = [kind |-> "wal", of |-> main.id, ver |-> B!LastVer + 1]
    BY <2>1 DEF B!Wal, B!Main
  <2>3. w.of = main.id /\ w # B!None
    BY <2>2 DEF B!None
  <2> QED
    BY <1>0, <1>2, <2>1, <2>2, <2>3, BackupUpKeeps DEF B!Commit
<1>3. CASE B!Checkpoint
  <2>1. wal.ver \in B!Vers /\ main \in B!Main /\ wal.of = main.id
    BY <1>0, <1>3, BackupParts DEF B!Checkpoint, BackupFiles, B!Sound
  <2>2. PICK m \in B!Main : m = [main EXCEPT !.ver = wal.ver] /\ m.id = main.id /\ m.ver = wal.ver
    BY <2>1, BackupMain
  <2> QED
    BY <1>0, <1>3, <2>1, <2>2, BackupUpKeeps DEF B!Checkpoint
<1>4. CASE B!Stop
  <2>1. main \in B!Main /\ main # B!None /\ (wal # B!None => wal.of = main.id)
    BY <1>0, <1>4 DEF B!Stop, BackupFiles, B!Sound
  <2>2. CASE main' = [main EXCEPT !.ver = B!Live] /\ wal' = B!None
    <3>1. B!Live \in B!Vers \cup {Torn}
      BY <2>1, BackupLive
    <3>2. PICK m \in B!Main : m = [main EXCEPT !.ver = B!Live] /\ m.id = main.id /\ m.ver = B!Live
      BY <2>1, <3>1, BackupMain
    <3>3. B!Live \in B!Vers
      BY <1>0, <1>4, <2>1, BackupLive DEF B!Stop, BackupFiles
    <3> QED
      BY <1>0, <1>4, <2>1, <2>2, <3>2, <3>3, BackupUpKeeps DEF B!Stop
  <2>3. CASE UNCHANGED <<main, wal>>
    <3>1. BackupFiles' /\ BackupRestore'
      BY <1>0, <1>4, <2>3 DEF B!Stop, BackupFiles, B!Pieces, BackupLasts, BackupRestore
    <3> QED
      BY <1>0, <1>4, <2>3, <3>1, BackupDatabase DEF B!Stop
  <2> QED
    BY <1>4, <2>2, <2>3 DEF B!Stop
<1>5. ASSUME NEW j \in Requests, BackupStep(j) PROVE BackupInv'
  BY <1>5, BackupStepKeeps
<1>6. ASSUME NEW s \in B!Stamps, B!RestoreBegin(s) PROVE BackupInv'
  <2>1. restore' \in B!Restore /\ restore'.at = "verified" /\ restore'.stamp = s
    BY <1>6 DEF B!RestoreBegin, B!Restore
  <2>2. BackupRestore'
    BY <1>6, <2>1 DEF B!RestoreBegin, BackupRestore, B!NoRestore, B!database
  <2> QED
    BY <1>0, <1>6, <2>1, <2>2, BackupFilesStay, BackupDatabase DEF B!RestoreBegin, B!database
<1>7. CASE B!MoveMain
  <2>1. restore' \in B!Restore /\ restore'.at = "moved" /\ restore'.stamp = restore.stamp
    BY <1>0, <1>7 DEF B!MoveMain, B!Restore
  <2>2. BackupRestore'
    BY <1>0, <1>7, <2>1 DEF B!MoveMain, BackupRestore, B!NoRestore
  <2>3. aside' \subseteq B!Main \cup B!Wal /\ B!Pieces \ {B!None} = B!Pieces' \ {B!None}
    BY <1>0, <1>7 DEF B!MoveMain, B!Pieces
  <2>4. owed' \subseteq B!Vers
    BY <1>0, <1>7, BackupLive DEF B!MoveMain, B!Sound
  <2>5. ASSUME NEW v \in owed' PROVE BackupLasts(v)'
    <3>1. CASE v \in owed
      BY <1>0, <1>7, <3>1 DEF B!MoveMain, BackupFiles, BackupLasts
    <3>2. CASE B!Sound /\ v = B!Live
      <4>1. main \in aside' /\ main.kind = "main" /\ wal' = wal
        BY <1>7, <3>2, BackupParts DEF B!MoveMain, B!Sound
      <4>2. main.ver = v \/ (wal.kind = "wal" /\ wal.of = main.id /\ wal.ver = v)
        BY <1>0, <3>2, BackupParts DEF B!Sound, B!Live, BackupFiles
      <4> QED
        BY <4>1, <4>2 DEF BackupLasts
    <3> QED
      BY <1>7, <3>1, <3>2 DEF B!MoveMain
  <2>6. BackupFiles'
    BY <1>0, <1>7, <2>3, <2>5 DEF B!MoveMain, BackupFiles, BackupRestore, B!NoRestore
  <2> QED
    BY <1>0, <1>7, <2>1, <2>2, <2>3, <2>4, <2>6, BackupDatabase DEF B!MoveMain
<1>8. CASE B!MoveWal
  <2>1. restore' \in B!Restore /\ restore'.at = "clear" /\ restore'.stamp = restore.stamp
    BY <1>0, <1>8 DEF B!MoveWal, B!Restore
  <2>2. BackupRestore'
    BY <1>0, <1>8, <2>1 DEF B!MoveWal, BackupRestore, B!NoRestore
  <2>3. aside' \subseteq B!Main \cup B!Wal /\ B!Pieces \ {B!None} = B!Pieces' \ {B!None}
    BY <1>0, <1>8 DEF B!MoveWal, B!Pieces
  <2>4. ASSUME NEW v \in owed PROVE BackupLasts(v)'
    <3>1. B!None.kind = "none"
      BY DEF B!None
    <3> QED
      BY <1>0, <1>8, <3>1 DEF B!MoveWal, BackupFiles, BackupLasts
  <2>5. BackupFiles'
    BY <1>0, <1>8, <2>3, <2>4 DEF B!MoveWal, BackupFiles, BackupRestore, B!NoRestore
  <2> QED
    BY <1>0, <1>8, <2>1, <2>2, <2>3, <2>5, BackupDatabase DEF B!MoveWal
<1>9. CASE B!CopyBegin
  <2>1. restore' \in B!Restore /\ restore'.at = "copying" /\ restore'.stamp = restore.stamp
    BY <1>0, <1>9 DEF B!CopyBegin, B!Restore
  <2>2. PICK m \in B!Main : m = B!NewMain(Torn) /\ m.id = B!LastId + 1 /\ m # B!None
    BY <1>9, BackupLastId DEF B!CopyBegin, B!NewMain, B!Main, B!None
  <2>3. main' = m /\ main = B!None /\ wal = B!None /\ wal' = B!None /\ UNCHANGED <<aside, owed, up>>
    BY <1>0, <1>9, <2>2 DEF B!CopyBegin, BackupRestore
  <2>4. BackupRestore'
    BY <1>0, <1>9, <2>1, <2>2, <2>3 DEF B!CopyBegin, BackupRestore, B!NoRestore
  <2>5. \A x \in aside : x.kind = "main" => x.id < m.id
    BY <1>9, <2>2, BackupLastId DEF B!CopyBegin, B!Pieces
  <2>6. \E x \in B!Pieces' \ {B!None} : x.ver \in B!Vers
    BY <1>0, <2>3 DEF BackupFiles, B!Pieces
  <2>7. BackupFiles'
    BY <1>0, <2>2, <2>3, <2>5, <2>6 DEF BackupFiles, BackupLasts, B!Sound
  <2> QED
    BY <1>0, <1>9, <2>1, <2>3, <2>4, <2>7, BackupDatabase DEF B!CopyBegin
<1>10. CASE B!CopyEnd
  <2>1. main \in B!Main /\ wal = B!None /\ file[restore.stamp] \in B!Vers
    BY <1>0, <1>10 DEF B!CopyEnd, BackupRestore, B!NoRestore
  <2>2. PICK m \in B!Main : /\ m = [main EXCEPT !.ver = file[restore.stamp]] /\ m.id = main.id
                            /\ m.ver = file[restore.stamp] /\ m # B!None
    BY <2>1, BackupMain
  <2>3. B!NoRestore \in B!Restore
    BY DEF B!NoRestore, B!Restore
  <2>4. BackupRestore'
    BY <1>10 DEF B!CopyEnd, BackupRestore, B!NoRestore
  <2>5. BackupFiles'
    <3>1. main # B!None /\ main' = m /\ ~up /\ UNCHANGED <<up, wal, aside, owed>>
      BY <1>0, <1>10, <2>2 DEF B!CopyEnd, BackupRestore, B!NoRestore
    <3>2. \E x \in B!Pieces' \ {B!None} : x.ver \in B!Vers
      BY <2>1, <2>2, <3>1 DEF B!Pieces
    <3> QED
      BY <1>0, <2>1, <2>2, <3>1, <3>2 DEF BackupFiles, BackupLasts
  <2> QED
    BY <1>0, <1>10, <2>2, <2>3, <2>4, <2>5, BackupDatabase DEF B!CopyEnd
<1>11. CASE B!RestoreDies
  <2>1. B!NoRestore \in B!Restore /\ BackupRestore'
    BY <1>11 DEF B!RestoreDies, B!NoRestore, B!Restore, BackupRestore
  <2> QED
    BY <1>0, <1>11, <2>1, BackupFilesStay, BackupDatabase DEF B!RestoreDies, B!database
<1> QED
  BY <1>1, <1>2, <1>3, <1>4, <1>5, <1>6, <1>7, <1>8, <1>9, <1>10, <1>11 DEF B!Next, BackupStep

LEMMA BackupReversible == BackupInv => B!RestoresAreReversible
<1> SUFFICES ASSUME BackupInv, NEW v \in owed PROVE B!Recoverable(v)
  BY DEF BackupInv, BackupFiles, B!RestoresAreReversible
<1>1. BackupLasts(v)
  BY DEF BackupInv, BackupFiles
<1> QED
  BY <1>1 DEF BackupLasts, B!Recoverable, B!Pieces

\* One backup at a time.

LEMMA BackupOneAfter ==
    ASSUME Cardinality(BackupBusy') <= 1
    PROVE  BackupOne'
<1>1. IsFiniteSet(BackupBusy') /\ Cardinality(BackupBusy') \in Nat
  BY RequestsAreFinite, FS_Subset, FS_CardinalityType DEF BackupBusy
<1>2. Cardinality(BackupBusy') = 0 \/ Cardinality(BackupBusy') = 1
  BY <1>1
<1>3. CASE Cardinality(BackupBusy') = 0
  BY <1>1, <1>3, FS_EmptySet DEF BackupOne
<1>4. CASE Cardinality(BackupBusy') = 1
  BY <1>1, <1>4, FS_Singleton DEF BackupOne
<1> QED
  BY <1>2, <1>3, <1>4

\* The newest of the backups is kept, if any is.
LEMMA BackupNewestKept ==
    ASSUME BackupInv, NEW s \in B!Stamps, file[s] # Missing,
           \A t \in B!Stamps : t > s => file[t] = Missing
    PROVE  s \in B!Kept
<1>1. {t \in B!Stamps : t >= s /\ file[t] # Missing} = {s}
  BY BackupsAssumption DEF B!Stamps
<1>2. B!Cardinality({s}) = Cardinality({s}) /\ Cardinality({s}) = 1
  BY FS_Singleton DEF B!Cardinality, Cardinality
<1> QED
  BY <1>1, <1>2, BackupsAssumption DEF B!Kept

\* A backup that becomes c, alone.
LEMMA BackupCalmMoves ==
    ASSUME BackupInv, BackupCalm, BackupOne', UNCHANGED <<main, wal>>,
           NEW j \in Requests, NEW c \in B!Job, job' = [job EXCEPT ![j] = c],
           job[j] # B!Idle \/ c # B!Idle, \A s \in B!Stamps : file'[s] # 0,
           c # B!Idle => BackupNewest(c)', B!GoodBackupStays'
    PROVE  BackupCalm'
<1>1. job'[j] = c /\ \A k \in Requests \ {j} : job'[k] = job[k]
  BY DEF BackupInv, B!TypeOK
<1>2. \A k \in Requests \ {j} : job'[k] = B!Idle
  BY <1>1 DEF BackupCalm, BackupOne, BackupBusy
<1>3. ASSUME NEW k \in Requests, job'[k] # B!Idle PROVE BackupNewest(job[k])'
  <2>1. k = j
    BY <1>2, <1>3
  <2> QED
    BY <1>1, <1>3, <2>1 DEF BackupNewest
<1> QED
  BY <1>3 DEF BackupCalm

LEMMA BackupCalmStep ==
    ASSUME BackupInv, BackupCalm, BackupOne', NEW j \in Requests, BackupStep(j)
    PROVE  BackupCalm'
<1>0. /\ UNCHANGED <<main, wal>> /\ file \in [B!Stamps -> B!Contents] /\ job[j] \in B!Job
      /\ reported \in 0..MaxStamp
      /\ job[j] # B!Idle => job[j].stamp \in B!Stamps /\ BackupNewest(job[j])
      /\ Torn \notin B!Vers /\ Missing \notin B!Vers /\ Torn # Missing /\ Torn # 0 /\ Missing # 0
      /\ B!Idle \in B!Job /\ B!Idle.at = "idle"
      /\ \A s \in B!Stamps : file[s] # 0 /\ s \in Nat
  BY BackupStepMakes, BackupsAssumption, BackupJob
     DEF BackupInv, B!TypeOK, BackupCalm, B!database, B!Vers, B!Stamps
<1>1. CASE B!BackupBegin(j)
  <2>1. PICK s \in B!Stamps : /\ s = B!Newest(B!Taken) + 1 /\ file' = [file EXCEPT ![s] = Torn]
                              /\ job' = [job EXCEPT ![j] = [at |-> "writing", stamp |-> s,
                                                            ver |-> B!Live]]
    BY <1>1 DEF B!BackupBegin
  <2>2. s > reported /\ \A t \in B!Stamps : t >= s => file[t] = Missing
    BY <2>1, BackupTaken
  <2>3. B!Live \in B!Vers /\ B!Live # 0
    BY <1>1, BackupLive DEF B!BackupBegin, B!Sound, B!Live, BackupCalm
  <2>4. PICK c \in B!Job : c = [at |-> "writing", stamp |-> s, ver |-> B!Live]
    BY <2>3 DEF B!Job
  <2>5. c.at = "writing" /\ c.stamp = s /\ c.ver = B!Live /\ reported' = reported
    BY <1>1, <2>4 DEF B!BackupBegin
  <2>6. BackupNewest(c)'
    BY <1>0, <2>1, <2>2, <2>3, <2>5 DEF BackupNewest
  <2>7. B!GoodBackupStays'
    BY <1>0, <2>1, <2>2, <2>5 DEF BackupCalm, B!GoodBackupStays
  <2>8. \A t \in B!Stamps : file'[t] # 0
    BY <1>0, <2>1
  <2> QED
    BY <1>0, <2>1, <2>4, <2>5, <2>6, <2>7, <2>8, BackupCalmMoves
<1>2. CASE B!BackupWritten(j)
  <2> DEFINE s == job[j].stamp
  <2>1. PICK c \in B!Job : c = [job[j] EXCEPT !.at = "written"] /\ c.at = "written" /\ c.stamp = s
    BY <1>0, BackupJob
  <2>2. /\ s \in B!Stamps /\ BackupNewest(job[j]) /\ job[j] # B!Idle /\ job[j].at = "writing"
        /\ job' = [job EXCEPT ![j] = c] /\ reported' = reported
    BY <1>0, <1>2, <2>1 DEF B!BackupWritten
  <2>3. PICK v \in {job[j].ver, Torn} : file' = [file EXCEPT ![s] = v]
    <3>1. file[s] # Missing
      BY <2>2 DEF BackupNewest
    <3>2. PICK v \in {job[j].ver, Torn} :
             file' = [file EXCEPT ![s] = IF @ = Missing THEN @ ELSE v]
      BY <1>2 DEF B!BackupWritten
    <3> QED
      BY <3>1, <3>2
  <2>4. v # Missing /\ v # 0
    BY <1>0, <2>2, <2>3 DEF BackupNewest, B!Job
  <2>5. BackupNewest(c)'
    BY <1>0, <2>1, <2>2, <2>3, <2>4 DEF BackupNewest
  <2>6. B!GoodBackupStays'
    <3>1. s > reported /\ v \notin {0, Missing}
      BY <2>2, <2>4 DEF BackupNewest
    <3>2. ASSUME reported # 0
          PROVE  \E t \in B!Stamps : t >= reported /\ file'[t] \in B!Vers \ {0}
      <4>1. PICK t \in B!Stamps : t >= reported /\ file[t] \in B!Vers \ {0}
        BY <3>2 DEF BackupCalm, B!GoodBackupStays
      <4>2. t # s
        BY <1>0, <2>2, <2>3, <4>1 DEF BackupNewest
      <4> QED
        BY <1>0, <2>3, <4>1, <4>2
    <3> QED
      BY <2>2, <3>2 DEF B!GoodBackupStays
  <2> QED
    BY <1>0, <2>2, <2>3, <2>4, <2>5, <2>6, BackupCalmMoves
<1>3. CASE B!BackupVerify(j)
  <2> DEFINE s == job[j].stamp
  <2>1. PICK c \in B!Job : c = [job[j] EXCEPT !.at = "verified"] /\ c.at = "verified" /\ c.stamp = s
    BY <1>0, BackupJob
  <2>2. s \in B!Stamps /\ BackupNewest(job[j]) /\ job[j] # B!Idle /\ reported' = reported
    BY <1>0, <1>3 DEF B!BackupVerify
  <2>3. CASE file[s] = Torn
    <3>1. file' = [file EXCEPT ![s] = Missing] /\ job' = [job EXCEPT ![j] = B!Idle]
      BY <1>0, <1>3, <2>3 DEF B!BackupVerify
    <3>2. B!GoodBackupStays'
      BY <1>0, <2>2, <2>3, <3>1 DEF BackupCalm, B!GoodBackupStays
    <3> QED
      BY <1>0, <2>2, <3>1, <3>2, BackupCalmMoves
  <2>4. CASE file[s] # Torn
    <3>1. file[s] \in B!Vers
      BY <1>0, <2>2, <2>4 DEF BackupNewest, B!Contents
    <3>2. file' = file /\ job' = [job EXCEPT ![j] = c]
      BY <1>0, <1>3, <2>1, <2>4, <3>1 DEF B!BackupVerify
    <3>3. BackupNewest(c)'
      BY <2>1, <2>2, <3>1, <3>2 DEF BackupNewest
    <3>4. B!GoodBackupStays'
      BY <2>2, <3>2 DEF BackupCalm, B!GoodBackupStays
    <3> QED
      BY <1>0, <2>2, <3>2, <3>3, <3>4, BackupCalmMoves
  <2> QED
    BY <2>3, <2>4
<1>4. CASE B!BackupPrune(j)
  <2> DEFINE s == job[j].stamp
  <2>1. PICK c \in B!Job : c = [job[j] EXCEPT !.at = "kept"] /\ c.at = "kept" /\ c.stamp = s
    BY <1>0, BackupJob
  <2>2. /\ s \in B!Stamps /\ BackupNewest(job[j]) /\ job[j] # B!Idle /\ job[j].at = "verified"
        /\ job' = [job EXCEPT ![j] = c] /\ reported' = reported
        /\ file' = [t \in B!Stamps |-> IF t \in B!Kept THEN file[t] ELSE Missing]
    BY <1>0, <1>4, <2>1 DEF B!BackupPrune
  <2>3. s \in B!Kept /\ file[s] \in B!Vers \ {0} /\ s > reported
    BY <1>0, <2>2, BackupNewestKept DEF BackupNewest
  <2> HIDE DEF s
  <2>4. file'[s] = file[s] /\ \A t \in B!Stamps : file'[t] \in {file[t], Missing}
    BY <2>2, <2>3
  <2>5. BackupNewest(c)'
    BY <1>0, <2>1, <2>2, <2>3, <2>4 DEF BackupNewest, s
  <2>6. B!GoodBackupStays'
    <3>1. s >= reported
      BY <1>0, <2>2, <2>3
    <3> QED
      BY <2>2, <2>3, <2>4, <3>1 DEF B!GoodBackupStays
  <2> QED
    BY <1>0, <2>2, <2>4, <2>5, <2>6, BackupCalmMoves
<1>5. CASE B!BackupReport(j)
  <2>1. /\ file' = file /\ job' = [job EXCEPT ![j] = B!Idle] /\ job[j] # B!Idle
        /\ reported' \in {reported, job[j].stamp} /\ file[job[j].stamp] \in B!Vers \ {0}
        /\ job[j].stamp \in B!Stamps
    BY <1>0, <1>5 DEF B!BackupReport, BackupNewest
  <2>2. B!GoodBackupStays'
    BY <1>0, <2>1 DEF BackupCalm, B!GoodBackupStays
  <2> QED
    BY <1>0, <2>1, <2>2, BackupCalmMoves
<1>6. CASE B!BackupDies(j)
  <2>1. file' = file /\ job' = [job EXCEPT ![j] = B!Idle] /\ job[j] # B!Idle /\ reported' = reported
    BY <1>6 DEF B!BackupDies
  <2>2. B!GoodBackupStays'
    BY <2>1 DEF BackupCalm, B!GoodBackupStays
  <2> QED
    BY <1>0, <2>1, <2>2, BackupCalmMoves
<1> QED
  BY <1>1, <1>2, <1>3, <1>4, <1>5, <1>6 DEF BackupStep

LEMMA BackupCalmNextStep ==
    ASSUME BackupInv, BackupCalm, BackupCalmNext
    PROVE  BackupCalm'
<1>0. BackupOne'
  BY BackupOneAfter DEF BackupCalmNext
<1>1. ASSUME NEW j \in Requests, BackupStep(j) PROVE BackupCalm'
  BY <1>0, <1>1, BackupCalmStep
\* The database and the restores leave the backups alone, and no database is empty.
<1>2. ASSUME UNCHANGED <<file, job, reported>>,
             main' # B!None => main'.ver # 0, wal' # B!None => wal'.ver # 0
      PROVE  BackupCalm'
  BY <1>0, <1>2 DEF BackupCalm, BackupNewest, B!GoodBackupStays
<1>3. CASE B!Start
  <2>1. B!LastVer < MaxVer => B!NewMain(B!LastVer + 1).ver # 0
    BY BackupLastVer DEF B!NewMain
  <2> QED
    BY <1>2, <1>3, <2>1 DEF B!Start, BackupCalm
<1>4. CASE B!Commit
  <2>1. wal'.ver # 0 /\ main' = main
    BY <1>4, BackupLastVer DEF B!Commit
  <2> QED
    BY <1>2, <1>4, <2>1 DEF B!Commit, BackupCalm
<1>5. CASE B!Checkpoint
  <2>1. main \in B!Main /\ wal.ver \in B!Vers
    BY <1>5, BackupParts DEF B!Checkpoint, BackupInv, BackupFiles, B!Sound
  <2>2. main'.ver = wal.ver
    BY <1>5, <2>1 DEF B!Checkpoint, B!Main
  <2> QED
    BY <1>2, <1>5, <2>2 DEF B!Checkpoint, BackupCalm
<1>6. CASE B!Stop
  <2>1. main \in B!Main /\ main # B!None
    BY <1>6, BackupParts DEF B!Stop, BackupInv, BackupFiles, B!Sound
  <2>2. main'.ver # 0
    BY <1>6, <2>1 DEF B!Stop, BackupCalm, B!Main, B!Live
  <2> QED
    BY <1>2, <1>6, <2>2 DEF B!Stop, BackupCalm
<1>7. ASSUME NEW s \in B!Stamps, B!RestoreBegin(s) PROVE BackupCalm'
  BY <1>2, <1>7 DEF B!RestoreBegin, BackupCalm, B!database
<1>8. CASE B!MoveMain \/ B!MoveWal \/ B!RestoreDies
  BY <1>2, <1>8 DEF B!MoveMain, B!MoveWal, B!RestoreDies, BackupCalm, B!database
<1>9. CASE B!CopyBegin
  <2>1. B!NewMain(Torn).ver = Torn /\ Torn # 0
    BY BackupsAssumption DEF B!NewMain
  <2> QED
    BY <1>2, <1>9, <2>1 DEF B!CopyBegin, BackupCalm
<1>10. CASE B!CopyEnd
  <2>1. main \in B!Main /\ restore.stamp \in B!Stamps
    BY <1>10, BackupParts DEF B!CopyEnd, BackupInv, BackupRestore, B!NoRestore
  <2>2. main'.ver = file[restore.stamp]
    BY <1>10, <2>1 DEF B!CopyEnd, B!Main
  <2> QED
    BY <1>2, <1>10, <2>1, <2>2 DEF B!CopyEnd, BackupCalm
<1> QED
  BY <1>1, <1>3, <1>4, <1>5, <1>6, <1>7, <1>8, <1>9, <1>10 DEF BackupCalmNext, B!Next, BackupStep

BackupRun == part = "backups" => BackupInv /\ (calm => BackupCalm)

LEMMA BackupRunStep == BackupRun /\ [OutsideNext]_outsideVars => BackupRun'
<1> SUFFICES ASSUME BackupRun, [OutsideNext]_outsideVars, part = "backups", part' = part
             PROVE  BackupRun'
  BY PartSteps DEF BackupRun
<1>0. calm' = calm /\ BackupInv
  BY PartSteps DEF BackupRun
<1>1. CASE BackupsNext
  <2>1. BackupInv'
    BY <1>0, <1>1, BackupInvStep DEF BackupsNext
  <2>2. calm => BackupCalmNext
    BY <1>1 DEF BackupsNext, BackupCalmNext, BackupBusy
  <2>3. calm => BackupCalm'
    BY <1>0, <2>2, BackupCalmNextStep DEF BackupRun
  <2> QED
    BY <1>0, <2>1, <2>3 DEF BackupRun
<1>2. CASE UNCHANGED fileVars
  <2>1. BackupInv'
    BY <1>0, <1>2 DEF fileVars, BackupInv, B!TypeOK, BackupFiles, BackupRestore, BackupLasts,
                      B!Sound, B!Pieces
  <2>2. BackupCalm => BackupCalm'
    BY <1>2 DEF fileVars, BackupCalm, BackupOne, BackupBusy, BackupNewest, B!GoodBackupStays
  <2> QED
    BY <1>0, <2>1, <2>2 DEF BackupRun
<1> QED
  BY <1>1, <1>2, PartSteps

\* What a restore has moved aside can be put together again and no log is replayed
\* over another database, wherever restores stop; one backup at a time, a sound
\* backup as new as the last one reported stays (restore_backup, create_backup and
\* _prune of backup_service.py).
THEOREM BackupsOfOutside == OutsideSpec => []BackupsAreSound
<1>1. OutsideInit => BackupRun
  BY BackupInit DEF OutsideInit, BackupRun
<1>2. BackupRun => BackupsAreSound
  BY BackupReversible DEF BackupRun, BackupsAreSound, BackupInv, BackupCalm
<1> QED
  BY <1>1, <1>2, BackupRunStep, PTL DEF OutsideSpec, outsideVars

-----------------------------------------------------------------------------
\* The log of the mails

\* Counts up to a day do not fall from one day to the next.
MailGrows(count) == \A d, e \in 0..MaxDay : d <= e => count[d] <= count[e]

\* The mails that have left and are not logged.
MailOpen == {r \in Requests : mcall[r].at = "sent"}
MailOwed(d) == IF d >= day THEN Cardinality(MailOpen) ELSE 0

MailInv ==
    /\ M!TypeOK
    /\ MailGrows(log) /\ MailGrows(accepted)
    /\ \A r \in Requests :
          /\ MailGrows(mcall[r].rows)
          /\ ~mcall[r].writes => mcall[r].rows = M!NoMail
          /\ mcall[r] # M!Idle => mcall[r].at # "idle"
    /\ \A d \in 0..MaxDay : log[d] + MailOwed(d) <= accepted[d]
    /\ \A r \in Requests, d \in 0..MaxDay :
          log[d] + mcall[r].rows[d] + MailOwed(d) <= accepted[d]

LEMMA MailCounts ==
    /\ M!NoMail \in M!Counts /\ MailGrows(M!NoMail)
    /\ \A d \in 0..MaxDay : M!NoMail[d] = 0
    /\ M!Idle \in M!Call /\ M!Idle.at = "idle" /\ M!Idle.writes = FALSE /\ M!Idle.rows = M!NoMail
BY MailsAssumption DEF M!NoMail, M!Counts, MailGrows, M!Idle, M!Call

\* What one field of a request being changed does to the others.
LEMMA MailAt ==
    ASSUME NEW c \in M!Call, NEW a \in {"idle", "rules", "sent", "failed"}
    PROVE  LET e == [c EXCEPT !.at = a] IN
             /\ e \in M!Call /\ e.at = a /\ e.left = c.left /\ e.sent = c.sent
             /\ e.rows = c.rows /\ e.writes = c.writes
BY DEF M!Call

LEMMA MailLeft ==
    ASSUME NEW c \in M!Call, NEW n \in 0..Rules
    PROVE  LET e == [c EXCEPT !.left = n] IN
             /\ e \in M!Call /\ e.at = c.at /\ e.left = n /\ e.sent = c.sent
             /\ e.rows = c.rows /\ e.writes = c.writes
BY DEF M!Call

LEMMA MailSent ==
    ASSUME NEW c \in M!Call, NEW n \in Nat
    PROVE  LET e == [c EXCEPT !.sent = n] IN
             /\ e \in M!Call /\ e.at = c.at /\ e.left = c.left /\ e.sent = n
             /\ e.rows = c.rows /\ e.writes = c.writes
BY DEF M!Call

LEMMA MailNext ==
    ASSUME NEW c \in M!Call, c.left > 0
    PROVE  /\ M!NextRule(c) \in M!Call /\ M!NextRule(c).at = c.at /\ M!NextRule(c).sent = c.sent
           /\ M!NextRule(c).rows = c.rows /\ M!NextRule(c).writes = c.writes
<1> DEFINE n == c.left - 1
<1>1. n \in 0..Rules
  BY MailsAssumption DEF M!Call
<1>2. M!NextRule(c) = [c EXCEPT !.left = n]
  BY DEF M!NextRule
<1> HIDE DEF n
<1> QED
  BY <1>1, <1>2, MailLeft

LEMMA MailMore ==
    ASSUME day \in M!Days, NEW f \in M!Counts, MailGrows(f)
    PROVE  /\ M!OneMore(f) \in M!Counts /\ MailGrows(M!OneMore(f))
           /\ \A d \in 0..MaxDay : M!OneMore(f)[d] = IF d >= day THEN f[d] + 1 ELSE f[d]
<1>1. /\ M!OneMore(f) \in M!Counts
      /\ \A d \in 0..MaxDay : M!OneMore(f)[d] = IF d >= day THEN f[d] + 1 ELSE f[d]
  BY DEF M!OneMore, M!Counts, M!Days
<1>2. \A d \in 0..MaxDay : f[d] \in Nat
  BY DEF M!Counts
<1>3. MailGrows(M!OneMore(f))
  <2> SUFFICES ASSUME NEW d \in 0..MaxDay, NEW e \in 0..MaxDay, d <= e
               PROVE  M!OneMore(f)[d] <= M!OneMore(f)[e]
    BY DEF MailGrows
  <2>1. f[d] <= f[e] /\ f[d] \in Nat /\ f[e] \in Nat
    BY <1>2 DEF MailGrows
  <2> QED
    BY <1>1, <2>1, MailsAssumption DEF M!Days
<1> QED
  BY <1>1, <1>3

LEMMA MailLost ==
    ASSUME day \in M!Days, NEW f \in M!Counts
    PROVE  M!OneMore(f) \in M!Counts
BY DEF M!OneMore, M!Counts, M!Days

LEMMA MailOn ==
    ASSUME NEW f \in M!Counts, MailGrows(f), NEW d \in M!Days
    PROVE  M!On(f, d) \in Nat /\ M!On(f, d) = f[d] - f[d - 1]
<1>1. d \in 0..MaxDay /\ d - 1 \in 0..MaxDay /\ d - 1 <= d
  BY MailsAssumption DEF M!Days
<1>2. f[d] \in Nat /\ f[d - 1] \in Nat /\ f[d - 1] <= f[d]
  BY <1>1 DEF M!Counts, MailGrows
<1> QED
  BY <1>2 DEF M!On

LEMMA MailInit == M!Init => MailInv
<1> SUFFICES ASSUME M!Init PROVE MailInv
  OBVIOUS
<1>1. MailOpen = {}
  BY MailCounts DEF M!Init, MailOpen
<1>2. \A d \in 0..MaxDay : MailOwed(d) = 0
  BY <1>1, FS_EmptySet DEF MailOwed
<1>3. M!TypeOK
  BY MailCounts, MailsAssumption DEF M!Init, M!TypeOK, M!Days
<1> QED
  BY <1>2, <1>3, MailCounts DEF M!Init, MailInv

LEMMA MailOwes ==
    ASSUME day \in M!Days
    PROVE  Cardinality(MailOpen) \in Nat /\ \A d \in 0..MaxDay : MailOwed(d) \in Nat
<1>1. Cardinality(MailOpen) \in Nat
  BY RequestsAreFinite, FS_Subset, FS_CardinalityType DEF MailOpen
<1> QED
  BY <1>1 DEF MailOwed

\* A request that becomes c, with the same day; "sent" mails are more or less by one.
LEMMA MailCall ==
    ASSUME MailInv, NEW r \in Requests, NEW c \in M!Call, M!Becomes(r, c), day' = day,
           c.at # "idle" \/ c = M!Idle,
           MailGrows(c.rows), ~c.writes => c.rows = M!NoMail, c.writes => M!WriterFree(r)
    PROVE  /\ mcall' \in [Requests -> M!Call] /\ mcall'[r] = c
           /\ \A s \in Requests \ {r} : mcall'[s] = mcall[s]
           /\ \A s \in Requests : /\ MailGrows(mcall'[s].rows)
                                  /\ ~mcall'[s].writes => mcall'[s].rows = M!NoMail
                                  /\ mcall'[s] # M!Idle => mcall'[s].at # "idle"
           /\ \A s, q \in Requests : mcall'[s].writes /\ mcall'[q].writes => s = q
           /\ MailOpen' = IF c.at = "sent" THEN MailOpen \cup {r} ELSE MailOpen \ {r}
<1>1. /\ mcall' \in [Requests -> M!Call] /\ mcall'[r] = c
      /\ \A s \in Requests \ {r} : mcall'[s] = mcall[s]
  BY DEF MailInv, M!TypeOK, M!Becomes
<1>2. \A s, q \in Requests : mcall'[s].writes /\ mcall'[q].writes => s = q
  BY <1>1 DEF MailInv, M!TypeOK, M!WriterFree
<1>3. MailOpen' = IF c.at = "sent" THEN MailOpen \cup {r} ELSE MailOpen \ {r}
  BY <1>1 DEF MailOpen
<1> QED
  BY <1>1, <1>2, <1>3 DEF MailInv, MailGrows

\* A request that becomes c and neither sends nor logs nor commits.
LEMMA MailQuiet ==
    ASSUME MailInv, NEW r \in Requests, NEW c \in M!Call, M!Becomes(r, c),
           UNCHANGED <<day, log, accepted>>, unsure' \in M!Counts,
           c.at # "idle" \/ c = M!Idle, c.at # "sent",
           \/ c.rows = M!NoMail /\ ~c.writes
           \/ c.rows = mcall[r].rows /\ c.writes = mcall[r].writes
    PROVE  MailInv'
<1>1. MailGrows(c.rows) /\ (~c.writes => c.rows = M!NoMail) /\ (c.writes => M!WriterFree(r))
  BY MailCounts DEF MailInv, M!TypeOK, M!WriterFree, M!Call
<1>2. /\ mcall' \in [Requests -> M!Call] /\ mcall'[r] = c
      /\ \A s \in Requests \ {r} : mcall'[s] = mcall[s]
      /\ \A s \in Requests : /\ MailGrows(mcall'[s].rows)
                             /\ ~mcall'[s].writes => mcall'[s].rows = M!NoMail
                             /\ mcall'[s] # M!Idle => mcall'[s].at # "idle"
      /\ \A s, q \in Requests : mcall'[s].writes /\ mcall'[q].writes => s = q
      /\ MailOpen' = MailOpen \ {r}
  <2>1. c.at # "sent" /\ (c.at # "idle" \/ c = M!Idle) /\ M!Becomes(r, c) /\ day' = day
    OBVIOUS
  <2> QED
    BY <1>1, <2>1, MailCall
<1>3. Cardinality(MailOpen') <= Cardinality(MailOpen) /\ Cardinality(MailOpen') \in Nat
  BY <1>2, RequestsAreFinite, FS_Subset, FS_CardinalityType DEF MailOpen
<1>4. \A d \in 0..MaxDay : /\ MailOwed(d)' <= MailOwed(d)
                           /\ MailOwed(d)' \in Nat /\ MailOwed(d) \in Nat
  BY <1>3, MailOwes DEF MailInv, M!TypeOK, MailOwed
<1>5. \A d \in 0..MaxDay :
         /\ log[d] \in Nat /\ accepted[d] \in Nat
         /\ \A s \in Requests : mcall[s].rows[d] \in Nat /\ mcall'[s].rows[d] \in Nat
  BY <1>2 DEF MailInv, M!TypeOK, M!Counts, M!Call
<1>6. ASSUME NEW s \in Requests, NEW d \in 0..MaxDay
      PROVE  log[d] + mcall'[s].rows[d] + MailOwed(d)' <= accepted[d]
  <2>1. mcall'[s].rows = mcall[s].rows \/ mcall'[s].rows = M!NoMail
    BY <1>2
  <2>2. mcall'[s].rows[d] <= mcall[s].rows[d]
    BY <1>5, <2>1, MailCounts
  <2> QED
    BY <1>4, <1>5, <2>2 DEF MailInv
<1>7. \A d \in 0..MaxDay : log[d] + MailOwed(d)' <= accepted[d]
  BY <1>4, <1>5 DEF MailInv
<1> QED
  BY <1>2, <1>6, <1>7 DEF MailInv, M!TypeOK, MailGrows

LEMMA MailSends ==
    ASSUME MailInv, NEW r \in Requests, M!Send(r)
    PROVE  MailInv'
<1> DEFINE c == [M!NextRule(mcall[r]) EXCEPT !.at = "sent", !.sent = @ + 1]
<1>0. /\ mcall[r] \in M!Call /\ mcall[r].at = "rules" /\ mcall[r].left > 0 /\ M!Becomes(r, c)
      /\ accepted' = M!OneMore(accepted) /\ UNCHANGED <<day, log, unsure>> /\ day \in M!Days
      /\ log \in M!Counts /\ accepted \in M!Counts
  BY DEF M!Send, MailInv, M!TypeOK
<1>1. /\ c \in M!Call /\ c.at = "sent" /\ c.rows = mcall[r].rows /\ c.writes = mcall[r].writes
  <2> DEFINE n == M!NextRule(mcall[r])
             e == [n EXCEPT !.at = "sent"]
  <2>1. n \in M!Call /\ n.rows = mcall[r].rows /\ n.writes = mcall[r].writes
    BY <1>0, MailNext
  <2> HIDE DEF n
  <2>2. e \in M!Call /\ e.at = "sent" /\ e.rows = n.rows /\ e.writes = n.writes /\ e.sent = n.sent
    BY <2>1, MailAt
  <2> DEFINE k == n.sent + 1
  <2>3. c = [e EXCEPT !.sent = k]
    BY DEF n
  <2>4. k \in Nat
    BY <2>1 DEF M!Call
  <2> HIDE DEF c, e, k
  <2> QED
    BY <2>1, <2>2, <2>3, <2>4, MailSent
<1> HIDE DEF c
<1>2. MailGrows(c.rows) /\ (~c.writes => c.rows = M!NoMail) /\ (c.writes => M!WriterFree(r))
  BY <1>1 DEF MailInv, M!TypeOK, M!WriterFree
<1>3. /\ mcall' \in [Requests -> M!Call] /\ mcall'[r] = c
      /\ \A s \in Requests \ {r} : mcall'[s] = mcall[s]
      /\ \A s \in Requests : /\ MailGrows(mcall'[s].rows)
                             /\ ~mcall'[s].writes => mcall'[s].rows = M!NoMail
                             /\ mcall'[s] # M!Idle => mcall'[s].at # "idle"
      /\ \A s, q \in Requests : mcall'[s].writes /\ mcall'[q].writes => s = q
      /\ MailOpen' = MailOpen \cup {r}
  BY <1>0, <1>1, <1>2, MailCall
<1>4. r \notin MailOpen /\ IsFiniteSet(MailOpen)
  BY <1>0, RequestsAreFinite, FS_Subset DEF MailOpen
<1>5. Cardinality(MailOpen') = Cardinality(MailOpen) + 1 /\ Cardinality(MailOpen) \in Nat
  BY <1>3, <1>4, FS_AddElement, FS_CardinalityType
<1>6. /\ accepted' \in M!Counts /\ MailGrows(accepted')
      /\ \A d \in 0..MaxDay : accepted'[d] = IF d >= day THEN accepted[d] + 1 ELSE accepted[d]
  BY <1>0, MailMore DEF MailInv
<1>7. \A d \in 0..MaxDay : /\ accepted'[d] - accepted[d] = MailOwed(d)' - MailOwed(d)
                           /\ MailOwed(d) \in Nat /\ MailOwed(d)' \in Nat
                           /\ accepted[d] \in Nat /\ accepted'[d] \in Nat /\ log[d] \in Nat
  BY <1>0, <1>5, <1>6 DEF MailOwed, M!Counts
<1>8. ASSUME NEW s \in Requests, NEW d \in 0..MaxDay
      PROVE  log[d] + mcall'[s].rows[d] + MailOwed(d)' <= accepted'[d]
  <2>1. mcall'[s].rows = mcall[s].rows /\ mcall[s].rows[d] \in Nat
    BY <1>1, <1>3 DEF MailInv, M!TypeOK, M!Call, M!Counts
  <2>2. log[d] + mcall[s].rows[d] + MailOwed(d) <= accepted[d]
    BY DEF MailInv
  <2> QED
    BY <1>7, <2>1, <2>2
<1>9. \A d \in 0..MaxDay : log[d] + MailOwed(d)' <= accepted'[d]
  BY <1>7 DEF MailInv
<1> QED
  BY <1>0, <1>3, <1>6, <1>8, <1>9 DEF MailInv, M!TypeOK, MailGrows

LEMMA MailLogs ==
    ASSUME MailInv, NEW r \in Requests, M!Log(r)
    PROVE  MailInv'
<1> DEFINE rows == IF mcall[r].at = "sent" THEN M!OneMore(mcall[r].rows) ELSE mcall[r].rows
           c == [mcall[r] EXCEPT !.at = "rules", !.writes = TRUE, !.rows = rows]
<1>0. /\ mcall[r] \in M!Call /\ mcall[r].at \in {"sent", "failed"} /\ M!WriterFree(r)
      /\ UNCHANGED <<day, log, accepted, unsure>> /\ day \in M!Days
      /\ log \in M!Counts /\ accepted \in M!Counts /\ mcall[r].rows \in M!Counts
  BY DEF M!Log, MailInv, M!TypeOK, M!Call
<1>1. M!Becomes(r, c)
  BY DEF M!Log
<1>2. /\ rows \in M!Counts /\ MailGrows(rows)
      /\ \A d \in 0..MaxDay : rows[d] = IF d >= day /\ mcall[r].at = "sent"
                                          THEN mcall[r].rows[d] + 1 ELSE mcall[r].rows[d]
  BY <1>0, MailMore DEF MailInv
<1> HIDE DEF rows
<1>3. c \in M!Call /\ c.at = "rules" /\ c.rows = rows /\ c.writes
  BY <1>0, <1>2 DEF M!Call
<1> HIDE DEF c
<1>4. /\ mcall' \in [Requests -> M!Call] /\ mcall'[r] = c
      /\ \A s \in Requests \ {r} : mcall'[s] = mcall[s]
      /\ \A s \in Requests : /\ MailGrows(mcall'[s].rows)
                             /\ ~mcall'[s].writes => mcall'[s].rows = M!NoMail
                             /\ mcall'[s] # M!Idle => mcall'[s].at # "idle"
      /\ \A s, q \in Requests : mcall'[s].writes /\ mcall'[q].writes => s = q
      /\ MailOpen' = MailOpen \ {r}
  BY <1>0, <1>1, <1>2, <1>3, MailCall
<1>5. /\ IsFiniteSet(MailOpen) /\ Cardinality(MailOpen) \in Nat
      /\ r \in MailOpen <=> mcall[r].at = "sent"
  BY RequestsAreFinite, FS_Subset, FS_CardinalityType DEF MailOpen
<1>6. /\ Cardinality(MailOpen') \in Nat
      /\ Cardinality(MailOpen') =
            IF mcall[r].at = "sent" THEN Cardinality(MailOpen) - 1 ELSE Cardinality(MailOpen)
  BY <1>4, <1>5, FS_RemoveElement, FS_CardinalityType
<1>7. \A d \in 0..MaxDay : /\ MailOwed(d)' + rows[d] = MailOwed(d) + mcall[r].rows[d]
                           /\ MailOwed(d)' <= MailOwed(d)
                           /\ MailOwed(d) \in Nat /\ MailOwed(d)' \in Nat
                           /\ accepted[d] \in Nat /\ log[d] \in Nat
                           /\ rows[d] \in Nat /\ mcall[r].rows[d] \in Nat
  <2> TAKE d \in 0..MaxDay
  <2>1. accepted[d] \in Nat /\ log[d] \in Nat /\ rows[d] \in Nat /\ mcall[r].rows[d] \in Nat
    BY <1>0, <1>2 DEF M!Counts
  <2>2. /\ MailOwed(d) = IF d >= day THEN Cardinality(MailOpen) ELSE 0
        /\ MailOwed(d)' = IF d >= day THEN Cardinality(MailOpen') ELSE 0
    BY <1>0 DEF MailOwed
  <2>3. rows[d] = IF d >= day /\ mcall[r].at = "sent" THEN mcall[r].rows[d] + 1
                                                      ELSE mcall[r].rows[d]
    BY <1>2
  <2>4. CASE d >= day
    BY <1>5, <1>6, <2>1, <2>2, <2>3, <2>4
  <2>5. CASE ~(d >= day)
    BY <2>1, <2>2, <2>3, <2>5
  <2> QED
    BY <2>4, <2>5
<1>8. ASSUME NEW s \in Requests, NEW d \in 0..MaxDay
      PROVE  log[d] + mcall'[s].rows[d] + MailOwed(d)' <= accepted[d]
  <2>1. log[d] + mcall[s].rows[d] + MailOwed(d) <= accepted[d] /\ mcall[s].rows[d] \in Nat
    BY DEF MailInv, M!TypeOK, M!Call, M!Counts
  <2>2. CASE s = r
    BY <1>3, <1>4, <1>7, <2>1, <2>2
  <2>3. CASE s # r
    BY <1>4, <1>7, <2>1, <2>3
  <2> QED
    BY <2>2, <2>3
<1>9. \A d \in 0..MaxDay : log[d] + MailOwed(d)' <= accepted[d]
  BY <1>7 DEF MailInv
<1> QED
  BY <1>0, <1>4, <1>8, <1>9 DEF MailInv, M!TypeOK, MailGrows

LEMMA MailCommits ==
    ASSUME MailInv, NEW r \in Requests, M!Commit(r)
    PROVE  /\ MailInv'
           /\ \A d \in 0..MaxDay : log'[d] = log[d] + mcall[r].rows[d]
<1>0. /\ mcall[r] \in M!Call /\ mcall[r].at = "rules" /\ M!Becomes(r, M!Idle)
      /\ UNCHANGED <<day, accepted, unsure>> /\ day \in M!Days
      /\ log \in M!Counts /\ accepted \in M!Counts /\ mcall[r].rows \in M!Counts
      /\ MailGrows(log) /\ MailGrows(mcall[r].rows)
  BY DEF M!Commit, MailInv, M!TypeOK, M!Call
<1>1. /\ log' \in M!Counts
      /\ \A d \in 0..MaxDay : log'[d] = log[d] + mcall[r].rows[d]
  <2>1. log' = [d \in 0..MaxDay |-> log[d] + mcall[r].rows[d]]
    BY DEF M!Commit
  <2>2. \A d \in 0..MaxDay : log[d] + mcall[r].rows[d] \in Nat
    <3> TAKE d \in 0..MaxDay
    <3>1. log[d] \in Nat /\ mcall[r].rows[d] \in Nat
      BY <1>0 DEF M!Counts
    <3> QED
      BY <3>1
  <2> QED
    BY <2>1, <2>2 DEF M!Counts
<1>2. MailGrows(log')
  <2> SUFFICES ASSUME NEW d \in 0..MaxDay, NEW e \in 0..MaxDay, d <= e PROVE log'[d] <= log'[e]
    BY DEF MailGrows
  <2>1. /\ log[d] <= log[e] /\ mcall[r].rows[d] <= mcall[r].rows[e]
        /\ log[d] \in Nat /\ log[e] \in Nat /\ mcall[r].rows[d] \in Nat /\ mcall[r].rows[e] \in Nat
    BY <1>0 DEF MailGrows, M!Counts
  <2> QED
    BY <1>1, <2>1
<1>3. /\ mcall' \in [Requests -> M!Call] /\ mcall'[r] = M!Idle
      /\ \A s \in Requests \ {r} : mcall'[s] = mcall[s]
      /\ \A s \in Requests : /\ MailGrows(mcall'[s].rows)
                             /\ ~mcall'[s].writes => mcall'[s].rows = M!NoMail
                             /\ mcall'[s] # M!Idle => mcall'[s].at # "idle"
      /\ \A s, q \in Requests : mcall'[s].writes /\ mcall'[q].writes => s = q
      /\ MailOpen' = MailOpen \ {r}
  BY <1>0, MailCounts, MailCall
<1>4. MailOpen' = MailOpen
  BY <1>0, <1>3 DEF MailOpen
<1>5. \A d \in 0..MaxDay : MailOwed(d)' = MailOwed(d) /\ MailOwed(d) \in Nat
  BY <1>0, <1>4, MailOwes DEF MailOwed
<1>6. ASSUME NEW s \in Requests, NEW d \in 0..MaxDay
      PROVE  log'[d] + mcall'[s].rows[d] + MailOwed(d)' <= accepted[d]
  <2>1. /\ log[d] + mcall[r].rows[d] + MailOwed(d) <= accepted[d]
        /\ log[d] + mcall[s].rows[d] + MailOwed(d) <= accepted[d]
    BY DEF MailInv
  <2>2. /\ mcall[r].rows[d] \in Nat /\ mcall'[s].rows[d] \in Nat /\ log[d] \in Nat
        /\ accepted[d] \in Nat
    BY <1>0, <1>3 DEF M!Call, M!Counts
  <2>3. CASE mcall'[s].rows = M!NoMail
    BY <1>1, <1>5, <2>1, <2>2, <2>3, MailCounts
  <2>4. CASE mcall'[s].rows # M!NoMail
    <3>1. s # r /\ mcall[s].writes /\ mcall'[s] = mcall[s]
      BY <1>3, <2>4, MailCounts
    <3>2. ~mcall[r].writes
      BY <3>1 DEF MailInv, M!TypeOK
    <3>3. mcall[r].rows = M!NoMail
      BY <3>2 DEF MailInv
    <3> QED
      BY <1>1, <1>5, <2>1, <2>2, <3>1, <3>3, MailCounts
  <2> QED
    BY <2>3, <2>4
<1>7. \A d \in 0..MaxDay : log'[d] + MailOwed(d)' <= accepted[d]
  <2> TAKE d \in 0..MaxDay
  <2>1. log[d] + mcall[r].rows[d] + MailOwed(d) <= accepted[d]
    BY DEF MailInv
  <2>2. mcall[r].rows[d] \in Nat /\ log[d] \in Nat /\ accepted[d] \in Nat
    BY <1>0 DEF M!Counts
  <2> QED
    BY <1>1, <1>5, <2>1, <2>2
<1> QED
  BY <1>0, <1>1, <1>2, <1>3, <1>6, <1>7 DEF MailInv, M!TypeOK, MailGrows

LEMMA MailMidnight ==
    ASSUME MailInv, M!Midnight
    PROVE  MailInv'
<1>0. /\ day' = day + 1 /\ day' \in M!Days /\ day \in M!Days
      /\ UNCHANGED <<log, accepted, unsure, mcall>> /\ MailOpen' = MailOpen
  BY MailsAssumption DEF M!Midnight, MailInv, M!TypeOK, M!Days, MailOpen
<1>1. \A d \in 0..MaxDay : /\ MailOwed(d)' <= MailOwed(d)
                           /\ MailOwed(d)' \in Nat /\ MailOwed(d) \in Nat
  BY <1>0, MailOwes DEF MailOwed, M!Days
<1>2. \A d \in 0..MaxDay : /\ log[d] \in Nat /\ accepted[d] \in Nat
                           /\ \A s \in Requests : mcall[s].rows[d] \in Nat
  BY DEF MailInv, M!TypeOK, M!Counts, M!Call
<1>3. \A d \in 0..MaxDay :
         /\ log[d] + MailOwed(d)' <= accepted[d]
         /\ \A s \in Requests : log[d] + mcall[s].rows[d] + MailOwed(d)' <= accepted[d]
  BY <1>1, <1>2 DEF MailInv
<1> QED
  BY <1>0, <1>3 DEF MailInv, M!TypeOK, MailGrows

LEMMA MailStep == MailInv /\ [M!Next]_(M!vars) => MailInv'
<1> SUFFICES ASSUME MailInv, [M!Next]_(M!vars) PROVE MailInv'
  OBVIOUS
<1>1. ASSUME NEW r \in Requests, M!Begin(r) PROVE MailInv'
  <2> DEFINE c == [M!Idle EXCEPT !.at = "rules", !.left = Rules, !.sent = M!On(log, day)]
  <2>1. M!On(log, day) \in Nat
    BY MailOn DEF MailInv, M!TypeOK
  <2>2. c \in M!Call /\ c.at = "rules" /\ c.rows = M!NoMail /\ c.writes = FALSE
    <3> DEFINE e == [M!Idle EXCEPT !.at = "rules"]
               f == [e EXCEPT !.left = Rules]
    <3>1. e \in M!Call /\ e.at = "rules" /\ e.rows = M!NoMail /\ e.writes = FALSE
      BY MailCounts, MailAt
    <3>2. c = [f EXCEPT !.sent = M!On(log, day)]
      OBVIOUS
    <3> HIDE DEF c, e
    <3>3. f \in M!Call /\ f.at = "rules" /\ f.rows = M!NoMail /\ f.writes = FALSE
      <4>1. Rules \in 0..Rules
        BY MailsAssumption
      <4> QED
        BY <3>1, <4>1, MailLeft
    <3> HIDE DEF f
    <3> QED
      BY <2>1, <3>2, <3>3, MailSent
  <2> QED
    BY <1>1, <2>2, MailQuiet DEF M!Begin, MailInv, M!TypeOK
<1>2. ASSUME NEW r \in Requests, M!Skip(r) \/ M!Fail(r) \/ M!LoseReply(r) PROVE MailInv'
  <2>1. mcall[r] \in M!Call
    BY DEF MailInv, M!TypeOK
  <2>2. PICK c \in M!Call : /\ M!Becomes(r, c) /\ c.at \in {"rules", "failed"}
                            /\ c.rows = mcall[r].rows /\ c.writes = mcall[r].writes
    <3> DEFINE e == M!NextRule(mcall[r])
    <3>1. CASE M!Skip(r)
      <4>1. e \in M!Call /\ M!Becomes(r, e) /\ e.at = "rules"
            /\ e.rows = mcall[r].rows /\ e.writes = mcall[r].writes
        BY <2>1, <3>1, MailsAssumption DEF M!Skip, M!NextRule, M!Call
      <4> QED
        BY <4>1
    <3>2. CASE M!Fail(r) \/ M!LoseReply(r)
      <4> DEFINE f == [M!NextRule(mcall[r]) EXCEPT !.at = "failed"]
      <4>1. f \in M!Call /\ M!Becomes(r, f) /\ f.at = "failed"
            /\ f.rows = mcall[r].rows /\ f.writes = mcall[r].writes
        <5>1. e \in M!Call /\ e.rows = mcall[r].rows /\ e.writes = mcall[r].writes
          BY <2>1, <3>2, MailNext DEF M!Fail, M!LoseReply
        <5>2. M!Becomes(r, f)
          BY <3>2 DEF M!Fail, M!LoseReply
        <5> HIDE DEF e
        <5>3. f = [e EXCEPT !.at = "failed"]
          BY DEF e
        <5> HIDE DEF f
        <5> QED
          BY <5>1, <5>2, <5>3, MailAt
      <4> QED
        BY <4>1
    <3> QED
      BY <1>2, <3>1, <3>2
  <2>3. UNCHANGED <<day, log, accepted>> /\ unsure' \in M!Counts
    <3>1. day \in M!Days /\ unsure \in M!Counts
      BY DEF MailInv, M!TypeOK
    <3> QED
      BY <1>2, <3>1, MailLost DEF M!Skip, M!Fail, M!LoseReply
  <2>4. c.at # "idle" /\ c.at # "sent"
    BY <2>2
  <2> QED
    BY <2>2, <2>3, <2>4, MailQuiet
<1>3. ASSUME NEW r \in Requests, M!Abort(r) PROVE MailInv'
  BY <1>3, MailCounts, MailQuiet DEF M!Abort, MailInv, M!TypeOK
<1>4. CASE UNCHANGED M!vars
  BY <1>4 DEF M!vars, MailInv, M!TypeOK, MailGrows, MailOwed, MailOpen
<1> QED
  BY <1>1, <1>2, <1>3, <1>4, MailSends, MailLogs, MailCommits, MailMidnight DEF M!Next, M!Work

LEMMA MailLogTrue == MailInv => M!TypeOK /\ M!LogIsTrue
<1> SUFFICES ASSUME MailInv, NEW d \in M!Days PROVE log[d] <= accepted[d]
  BY DEF MailInv, M!LogIsTrue
<1>1. d \in 0..MaxDay
  BY DEF M!Days
<1>2. log[d] \in Nat /\ accepted[d] \in Nat /\ MailOwed(d) \in Nat
  BY <1>1, MailOwes DEF MailInv, M!TypeOK, M!Counts
<1> QED
  BY <1>1, <1>2 DEF MailInv

-----------------------------------------------------------------------------
\* One request at a time: the cap of a day

MailBusy == {r \in Requests : mcall[r] # M!Idle}
MailOne == \A r, q \in MailBusy : r = q
MailCalmNext == (M!Midnight \/ \E r \in Requests : M!Work(r)) /\ Cardinality(MailBusy') <= 1

\* What has left today is known to who is at work, and logged by the time nobody is.
MailCalm ==
    /\ MailOne
    /\ \A d \in 0..MaxDay : d >= day => accepted[d] = accepted[day]
    /\ \A d \in M!Days : M!On(accepted, d) <= Cap
    /\ \A r \in MailBusy :
          /\ M!On(accepted, day) <= mcall[r].sent
          /\ M!On(accepted, day) <= M!On(log, day) + M!On(mcall[r].rows, day)
                                   + (IF mcall[r].at = "sent" THEN 1 ELSE 0)
    /\ MailBusy = {} => M!On(accepted, day) <= M!On(log, day)

LEMMA MailOneAfter ==
    ASSUME Cardinality(MailBusy') <= 1
    PROVE  MailOne'
<1>1. IsFiniteSet(MailBusy') /\ Cardinality(MailBusy') \in Nat
  BY RequestsAreFinite, FS_Subset, FS_CardinalityType DEF MailBusy
<1>2. Cardinality(MailBusy') = 0 \/ Cardinality(MailBusy') = 1
  BY <1>1
<1>3. CASE Cardinality(MailBusy') = 0
  BY <1>1, <1>3, FS_EmptySet DEF MailOne
<1>4. CASE Cardinality(MailBusy') = 1
  BY <1>1, <1>4, FS_Singleton DEF MailOne
<1> QED
  BY <1>2, <1>3, <1>4

LEMMA MailCalmInit == M!Init => MailCalm
<1> SUFFICES ASSUME M!Init PROVE MailCalm
  OBVIOUS
<1>1. MailInv /\ day \in M!Days /\ MailBusy = {}
  BY MailInit, MailsAssumption DEF M!Init, MailBusy, M!Days
<1>2. /\ accepted \in M!Counts /\ MailGrows(accepted)
      /\ \A d \in M!Days : d \in 0..MaxDay /\ d - 1 \in 0..MaxDay
  BY <1>1, MailsAssumption DEF MailInv, M!TypeOK, M!Days
<1>3. \A d \in M!Days : M!On(accepted, d) = 0 /\ M!On(log, d) = 0
  BY <1>2, MailCounts DEF M!Init, M!On
<1>4. \A d \in 0..MaxDay : d >= day => accepted[d] = accepted[day]
  BY <1>1, <1>2, MailCounts DEF M!Init
<1> QED
  BY <1>1, <1>3, <1>4, MailsAssumption DEF MailCalm, MailOne

\* What one mail more is on each day.
LEMMA MailMoreOn ==
    ASSUME day \in M!Days, NEW f \in M!Counts, MailGrows(f), NEW d \in M!Days
    PROVE  M!On(M!OneMore(f), d) = IF d = day THEN M!On(f, d) + 1 ELSE M!On(f, d)
<1>1. d \in 0..MaxDay /\ d - 1 \in 0..MaxDay /\ d \in Int /\ day \in Int
  BY MailsAssumption DEF M!Days
<1>2. f[d] \in Nat /\ f[d - 1] \in Nat
  BY <1>1 DEF M!Counts
<1>3. /\ M!OneMore(f)[d] = IF d >= day THEN f[d] + 1 ELSE f[d]
      /\ M!OneMore(f)[d - 1] = IF d - 1 >= day THEN f[d - 1] + 1 ELSE f[d - 1]
  BY <1>1, MailMore
<1> QED
  BY <1>1, <1>2, <1>3 DEF M!On

\* The rows of a request are added to the log.
LEMMA MailSumOn ==
    ASSUME NEW f \in M!Counts, NEW g \in M!Counts, NEW h, NEW d \in M!Days,
           \A e \in 0..MaxDay : h[e] = f[e] + g[e]
    PROVE  M!On(h, d) = M!On(f, d) + M!On(g, d)
<1>1. d \in 0..MaxDay /\ d - 1 \in 0..MaxDay
  BY MailsAssumption DEF M!Days
<1>2. f[d] \in Nat /\ f[d - 1] \in Nat /\ g[d] \in Nat /\ g[d - 1] \in Nat
  BY <1>1 DEF M!Counts
<1> QED
  BY <1>1, <1>2 DEF M!On

\* The rows of every request are counts, and so are the log and what has left.
LEMMA MailNumbers ==
    ASSUME MailInv, NEW d \in M!Days
    PROVE  /\ M!On(accepted, d) \in Nat /\ M!On(log, d) \in Nat
           /\ \A r \in Requests : mcall[r].sent \in Nat /\ M!On(mcall[r].rows, d) \in Nat
<1>1. /\ accepted \in M!Counts /\ MailGrows(accepted) /\ log \in M!Counts /\ MailGrows(log)
      /\ \A r \in Requests : /\ mcall[r].sent \in Nat
                             /\ mcall[r].rows \in M!Counts /\ MailGrows(mcall[r].rows)
  BY DEF MailInv, M!TypeOK, M!Call
<1> QED
  BY <1>1, MailOn

LEMMA MailCalmStep ==
    ASSUME MailInv, MailInv', MailCalm, MailCalmNext
    PROVE  MailCalm'
<1>0. /\ MailOne' /\ MailOne
      /\ day \in M!Days /\ day' \in M!Days /\ day \in Int /\ day' \in Int
      /\ accepted \in M!Counts /\ MailGrows(accepted) /\ log \in M!Counts /\ MailGrows(log)
      /\ \A d \in M!Days : d \in 0..MaxDay /\ d - 1 \in 0..MaxDay /\ d \in Int
  BY MailOneAfter, MailsAssumption DEF MailCalmNext, MailCalm, MailInv, M!TypeOK, M!Days
<1>1. CASE M!Midnight
  <2>1. /\ UNCHANGED <<log, accepted, mcall>> /\ day' = day + 1 /\ MailBusy' = MailBusy
    BY <1>1 DEF M!Midnight, MailBusy
  <2>2. \A d \in 0..MaxDay : d >= day' => accepted'[d] = accepted'[day']
    BY <1>0, <2>1 DEF MailCalm
  <2>3. M!On(accepted, day') = 0
    <3>1. accepted[day'] = accepted[day] /\ day' - 1 = day /\ accepted[day] \in Nat
      <4>1. day \in 0..MaxDay /\ day' \in 0..MaxDay /\ day' - 1 = day /\ day' >= day
        BY <1>0, <2>1
      <4>2. accepted[day'] = accepted[day]
        BY <4>1 DEF MailCalm
      <4>3. accepted[day] \in Nat
        BY <1>0, <4>1 DEF M!Counts
      <4> QED
        BY <4>1, <4>2, <4>3
    <3> QED
      BY <3>1 DEF M!On
  <2>4. \A r \in Requests : mcall[r].sent \in Nat /\ M!On(mcall[r].rows, day') \in Nat
    BY <1>0, MailNumbers
  <2>5. M!On(log, day') \in Nat
    BY <1>0, MailNumbers
  <2>6. \A d \in M!Days : M!On(accepted, d)' = M!On(accepted, d)
    BY <2>1 DEF M!On
  <2>7. /\ M!On(accepted', day') = 0 /\ M!On(log', day') \in Nat
        /\ \A r \in Requests : mcall'[r].sent \in Nat /\ M!On(mcall'[r].rows, day') \in Nat
    BY <2>1, <2>3, <2>4, <2>5
  <2>8. \A r \in MailBusy' :
          /\ M!On(accepted', day') <= mcall'[r].sent
          /\ M!On(accepted', day') <= M!On(log', day') + M!On(mcall'[r].rows, day')
                                     + (IF mcall'[r].at = "sent" THEN 1 ELSE 0)
    BY <2>7 DEF MailBusy
  <2>9. \A d \in M!Days : M!On(accepted', d) <= Cap
    BY <2>1 DEF MailCalm
  <2> QED
    BY <1>0, <2>2, <2>7, <2>8, <2>9 DEF MailCalm
\* A request that sends nothing: it still knows what has left today.
<1>2. ASSUME NEW r \in Requests, NEW c \in M!Call, M!Becomes(r, c), UNCHANGED <<day, accepted>>,
             M!On(accepted, day) <= c.sent,
             M!On(accepted, day) <= M!On(log', day) + M!On(c.rows, day)
                                   + (IF c.at = "sent" THEN 1 ELSE 0),
             c # M!Idle
      PROVE  MailCalm'
  <2>1. mcall'[r] = c /\ r \in MailBusy'
    BY <1>2 DEF M!Becomes, MailBusy, MailInv, M!TypeOK
  <2>2. MailBusy' = {r}
    BY <1>0, <2>1 DEF MailOne
  <2>3. \A d \in M!Days : M!On(accepted', d) <= Cap
    BY <1>2 DEF MailCalm
  <2>4. \A d \in 0..MaxDay : d >= day' => accepted'[d] = accepted'[day']
    BY <1>2 DEF MailCalm
  <2>5. \A q \in MailBusy' :
          /\ M!On(accepted', day') <= mcall'[q].sent
          /\ M!On(accepted', day') <= M!On(log', day') + M!On(mcall'[q].rows, day')
                                     + (IF mcall'[q].at = "sent" THEN 1 ELSE 0)
    BY <1>2, <2>1, <2>2
  <2> QED
    BY <1>0, <2>2, <2>3, <2>4, <2>5 DEF MailCalm
<1>3. ASSUME NEW r \in Requests, M!Begin(r) PROVE MailCalm'
  <2> DEFINE c == [M!Idle EXCEPT !.at = "rules", !.left = Rules, !.sent = M!On(log, day)]
  <2>1. M!Becomes(r, c) /\ UNCHANGED <<day, log, accepted>> /\ mcall[r] = M!Idle
    BY <1>3 DEF M!Begin
  <2>2. mcall'[r] = c /\ c.sent = M!On(log, day) /\ c.at = "rules" /\ c.rows = M!NoMail
    BY <2>1 DEF M!Becomes, MailInv, M!TypeOK, M!Idle
  <2>3. c \in M!Call /\ c # M!Idle
    <3>1. c = mcall'[r] /\ mcall'[r] \in M!Call
      BY <2>2 DEF MailInv, M!TypeOK
    <3> QED
      BY <3>1, <2>2, MailCounts
  <2> HIDE DEF c
  <2>4. MailBusy \subseteq {}
    <3> SUFFICES ASSUME NEW q \in MailBusy PROVE FALSE
      OBVIOUS
    <3>1. q # r /\ q \in Requests /\ mcall'[q] = mcall[q]
      BY <2>1 DEF MailBusy, M!Becomes, MailInv, M!TypeOK
    <3>2. q \in MailBusy' /\ r \in MailBusy'
      BY <2>2, <2>3, <3>1 DEF MailBusy
    <3> QED
      BY <1>0, <3>1, <3>2 DEF MailOne
  <2>5. /\ M!On(accepted, day) <= M!On(log, day)
        /\ M!On(accepted, day) \in Nat /\ M!On(log, day) \in Nat
    BY <1>0, <2>4, MailNumbers DEF MailCalm
  <2>6. M!On(M!NoMail, day) = 0
    BY <1>0, MailCounts DEF M!On
  <2>7. /\ M!On(accepted, day) <= c.sent
        /\ M!On(accepted, day) <= M!On(log', day) + M!On(c.rows, day)
                                       + (IF c.at = "sent" THEN 1 ELSE 0)
    BY <2>1, <2>2, <2>5, <2>6
  <2> QED
    BY <1>2, <2>1, <2>3, <2>7
<1>4. ASSUME NEW r \in Requests, M!Skip(r) \/ M!Fail(r) \/ M!LoseReply(r) PROVE MailCalm'
  <2>1. /\ mcall[r] \in M!Call /\ mcall[r].at = "rules" /\ mcall[r].left > 0 /\ r \in MailBusy
        /\ UNCHANGED <<day, log, accepted>>
    BY <1>4, MailCounts DEF M!Skip, M!Fail, M!LoseReply, MailBusy, MailInv, M!TypeOK
  <2>2. /\ mcall'[r] \in M!Call /\ M!Becomes(r, mcall'[r]) /\ mcall'[r].at \in {"rules", "failed"}
        /\ mcall'[r].sent = mcall[r].sent /\ mcall'[r].rows = mcall[r].rows
    <3> DEFINE e == M!NextRule(mcall[r])
               f == [e EXCEPT !.at = "failed"]
    <3>1. e \in M!Call /\ e.at = "rules" /\ e.sent = mcall[r].sent /\ e.rows = mcall[r].rows
      BY <2>1, MailNext
    <3>2. (M!Becomes(r, e) \/ M!Becomes(r, f)) /\ mcall'[r] \in {e, f}
      BY <1>4 DEF M!Skip, M!Fail, M!LoseReply, M!Becomes, MailInv, M!TypeOK
    <3> HIDE DEF e
    <3>3. f \in M!Call /\ f.at = "failed" /\ f.sent = e.sent /\ f.rows = e.rows
      BY <3>1, MailAt
    <3>4. M!Becomes(r, mcall'[r])
      BY <3>2 DEF M!Becomes, MailInv, M!TypeOK
    <3> HIDE DEF f
    <3> QED
      BY <3>1, <3>2, <3>3, <3>4
  <2>3. mcall'[r] # M!Idle
    BY <2>2, MailCounts
  <2>4. /\ M!On(accepted, day) <= mcall[r].sent
        /\ M!On(accepted, day) <= M!On(log, day) + M!On(mcall[r].rows, day)
    BY <2>1, <1>0, MailNumbers DEF MailCalm
  <2>5. M!On(accepted, day) <= M!On(log', day) + M!On(mcall'[r].rows, day)
                                   + (IF mcall'[r].at = "sent" THEN 1 ELSE 0)
    BY <2>1, <2>2, <2>4, <1>0, MailNumbers
  <2> QED
    BY <1>2, <2>1, <2>2, <2>3, <2>4, <2>5
<1>5. ASSUME NEW r \in Requests, M!Log(r) PROVE MailCalm'
  <2> DEFINE c == mcall'[r]
  <2>1. /\ mcall[r] \in M!Call /\ mcall[r].at \in {"sent", "failed"} /\ r \in MailBusy
        /\ UNCHANGED <<day, log, accepted>>
    BY <1>5, MailCounts DEF M!Log, MailBusy, MailInv, M!TypeOK
  <2>2. /\ c \in M!Call /\ M!Becomes(r, c) /\ c.at = "rules" /\ c.sent = mcall[r].sent
        /\ c.rows = IF mcall[r].at = "sent" THEN M!OneMore(mcall[r].rows) ELSE mcall[r].rows
    BY <1>5, <2>1 DEF M!Log, M!Becomes, MailInv, M!TypeOK, M!Call
  <2>3. /\ M!On(accepted, day) <= mcall[r].sent
        /\ M!On(accepted, day) <= M!On(log, day) + M!On(mcall[r].rows, day)
                                       + (IF mcall[r].at = "sent" THEN 1 ELSE 0)
    BY <2>1 DEF MailCalm
  <2>4. M!On(c.rows, day) = M!On(mcall[r].rows, day) + (IF mcall[r].at = "sent" THEN 1 ELSE 0)
    <3>1. mcall[r].rows \in M!Counts /\ MailGrows(mcall[r].rows) /\ M!On(mcall[r].rows, day) \in Nat
      BY <1>0, MailNumbers DEF MailInv, M!TypeOK, M!Call
    <3> QED
      BY <1>0, <2>2, <3>1, MailMoreOn
  <2>5. c # M!Idle
    BY <2>2, MailCounts
  <2>6. M!On(accepted, day) <= M!On(log', day) + M!On(c.rows, day)
                                    + (IF c.at = "sent" THEN 1 ELSE 0)
    BY <2>1, <2>2, <2>3, <2>4, <1>0, MailNumbers
  <2> HIDE DEF c
  <2> QED
    BY <1>2, <2>1, <2>2, <2>3, <2>5, <2>6
<1>6. ASSUME NEW r \in Requests, M!Send(r) PROVE MailCalm'
  <2> DEFINE c == mcall'[r]
  <2>1. /\ mcall[r] \in M!Call /\ mcall[r].at = "rules" /\ mcall[r].left > 0 /\ r \in MailBusy
        /\ mcall[r].sent < Cap /\ accepted' = M!OneMore(accepted) /\ UNCHANGED <<day, log>>
    BY <1>6, MailCounts DEF M!Send, MailBusy, MailInv, M!TypeOK
  <2>2. c \in M!Call /\ c.at = "sent" /\ c.sent = mcall[r].sent + 1 /\ c.rows = mcall[r].rows
    <3> DEFINE n == M!NextRule(mcall[r])
               e == [n EXCEPT !.at = "sent"]
               f == [e EXCEPT !.sent = n.sent + 1]
    <3>1. n \in M!Call /\ n.sent = mcall[r].sent /\ n.rows = mcall[r].rows
      BY <2>1, MailNext
    <3>2. c = f
      BY <1>6 DEF M!Send, M!Becomes, MailInv, M!TypeOK
    <3> HIDE DEF n, c
    <3>3. e \in M!Call /\ e.at = "sent" /\ e.rows = n.rows /\ e.sent = n.sent
      BY <3>1, MailAt
    <3> HIDE DEF e
    <3>4. n.sent + 1 \in Nat
      BY <3>1 DEF M!Call
    <3>5. LET g == [e EXCEPT !.sent = n.sent + 1] IN
            g \in M!Call /\ g.at = e.at /\ g.sent = n.sent + 1 /\ g.rows = e.rows
      <4> DEFINE k == n.sent + 1
      <4>1. k \in Nat
        BY <3>4
      <4> HIDE DEF k
      <4>2. LET g == [e EXCEPT !.sent = k] IN
              g \in M!Call /\ g.at = e.at /\ g.sent = k /\ g.rows = e.rows
        BY <3>3, <4>1, MailSent
      <4> QED
        BY <4>2 DEF k
    <3> QED
      BY <3>1, <3>2, <3>3, <3>5
  <2>3. c # M!Idle /\ r \in MailBusy'
    BY <2>2, MailCounts DEF MailBusy
  <2>4. MailBusy' = {r}
    BY <1>0, <2>3 DEF MailOne
  <2>5. \A d \in M!Days : M!On(accepted', d) = IF d = day THEN M!On(accepted, d) + 1
                                                          ELSE M!On(accepted, d)
    BY <1>0, <2>1, MailMoreOn
  <2>6. /\ M!On(accepted, day) <= mcall[r].sent
        /\ M!On(accepted, day) <= M!On(log, day) + M!On(mcall[r].rows, day)
    BY <2>1, <1>0, MailNumbers DEF MailCalm
  <2>7. \A d \in 0..MaxDay : d >= day' => accepted'[d] = accepted'[day']
    <3> SUFFICES ASSUME NEW d \in 0..MaxDay, d >= day PROVE accepted'[d] = accepted'[day]
      BY <2>1
    <3>1. accepted[d] = accepted[day] /\ day >= day
      BY <1>0 DEF MailCalm
    <3> QED
      BY <1>0, <2>1, <3>1, MailMore
  <2>8. /\ M!On(accepted, day) \in Nat /\ mcall[r].sent \in Nat /\ M!On(log, day) \in Nat
        /\ M!On(mcall[r].rows, day) \in Nat
    BY <1>0, MailNumbers
  <2>9. \A d \in M!Days : M!On(accepted', d) <= Cap
    BY <2>1, <2>5, <2>6, <2>8, MailsAssumption DEF MailCalm
  <2>10. /\ M!On(accepted', day') <= c.sent
         /\ M!On(accepted', day') <= M!On(log', day') + M!On(c.rows, day')
                                     + (IF c.at = "sent" THEN 1 ELSE 0)
    <3>1. M!On(accepted', day) = M!On(accepted, day) + 1
      BY <1>0, <2>5
    <3> QED
      BY <2>1, <2>2, <2>6, <2>8, <3>1
  <2> QED
    BY <1>0, <2>4, <2>7, <2>9, <2>10 DEF MailCalm
<1>7. ASSUME NEW r \in Requests, M!Commit(r) PROVE MailCalm'
  <2>1. /\ mcall[r] \in M!Call /\ mcall[r].at = "rules" /\ r \in MailBusy
        /\ UNCHANGED <<day, accepted>> /\ M!Becomes(r, M!Idle)
    BY <1>7, MailCounts DEF M!Commit, MailBusy, MailInv, M!TypeOK
  <2>2. MailBusy' = {}
    BY <1>0, <2>1 DEF MailBusy, MailOne, M!Becomes, MailInv, M!TypeOK
  <2>3. \A e \in 0..MaxDay : log'[e] = log[e] + mcall[r].rows[e]
    BY <1>7, MailCommits
  <2>4. M!On(log', day) = M!On(log, day) + M!On(mcall[r].rows, day)
    BY <1>0, <2>1, <2>3, MailSumOn DEF M!Call
  <2>5. M!On(accepted, day) <= M!On(log, day) + M!On(mcall[r].rows, day)
    BY <2>1, <1>0, MailNumbers DEF MailCalm
  <2>6. M!On(accepted', day') <= M!On(log', day')
    BY <2>1, <2>4, <2>5
  <2>7. /\ \A d \in M!Days : M!On(accepted', d) <= Cap
        /\ \A d \in 0..MaxDay : d >= day' => accepted'[d] = accepted'[day']
    BY <2>1 DEF MailCalm
  <2> QED
    BY <1>0, <2>2, <2>6, <2>7 DEF MailCalm
<1> QED
  BY <1>1, <1>3, <1>4, <1>5, <1>6, <1>7 DEF MailCalmNext, M!Work

MailRun == part = "mails" => MailInv /\ (calm => MailCalm)

LEMMA MailRunStep == MailRun /\ [OutsideNext]_outsideVars => MailRun'
<1> SUFFICES ASSUME MailRun, [OutsideNext]_outsideVars, part = "mails", part' = part PROVE MailRun'
  BY PartSteps DEF MailRun
<1>0. MailInv /\ (calm => MailCalm) /\ calm' = calm
  BY PartSteps DEF MailRun
<1>1. CASE MailsNext
  <2>1. MailInv'
    BY <1>0, <1>1, MailStep DEF MailsNext, M!Next
  <2>2. calm => MailCalmNext
    BY <1>1 DEF MailsNext, MailCalmNext, MailBusy
  <2> QED
    BY <1>0, <2>1, <2>2, MailCalmStep DEF MailRun
<1>2. CASE UNCHANGED mailVars
  <2>1. UNCHANGED M!vars
    BY <1>2 DEF mailVars, M!vars
  <2>2. MailInv'
    BY <1>0, <2>1, MailStep
  <2>3. MailCalm => MailCalm'
    BY <2>1 DEF M!vars, MailCalm, MailOne, MailBusy, M!On
  <2> QED
    BY <1>0, <2>2, <2>3 DEF MailRun
<1> QED
  BY <1>1, <1>2, PartSteps

\* What has left on a day: the mails known of, and those whose reply was lost.
LEMMA MailCap ==
    ASSUME MailInv, MailCalm
    PROVE  M!CapHolds
<1> SUFFICES ASSUME NEW d \in M!Days PROVE M!On(M!Gone, d) <= Cap + M!On(unsure, d)
  BY DEF M!CapHolds
<1>1. accepted \in M!Counts /\ unsure \in M!Counts
  BY DEF MailInv, M!TypeOK
<1>2. M!On(M!Gone, d) = M!On(accepted, d) + M!On(unsure, d)
  BY <1>1, MailSumOn DEF M!Gone
<1>3. M!On(unsure, d) \in Int
  BY <1>1, MailsAssumption DEF M!On, M!Counts, M!Days
<1>4. M!On(accepted, d) <= Cap /\ M!On(accepted, d) \in Nat /\ Cap \in Int
  BY MailNumbers, MailsAssumption DEF MailCalm
<1> QED
  BY <1>2, <1>3, <1>4

\* The log counts no mail that has not left; one request at a time, no more than Cap
\* mails and those whose reply was lost leave in a day, also when a request goes on
\* after midnight (_sent_today and _log of send_project_reminders).
THEOREM MailsOfOutside == OutsideSpec => []MailsAreCapped
<1>1. OutsideInit => MailRun
  BY MailInit, MailCalmInit DEF OutsideInit, MailRun
<1>2. MailRun => MailsAreCapped
  BY MailLogTrue, MailCap DEF MailRun, MailsAreCapped
<1> QED
  BY <1>1, <1>2, MailRunStep, PTL DEF OutsideSpec, outsideVars
-----------------------------------------------------------------------------
\* The events of the calendar

\* What a synchronisation has pushed is newer than the token and known to no row.
CalendarGiven(c) ==
    \A x \in C!Rows : c.given[x].uid # 0 =>
        /\ local[x].state # "none" /\ local[x].uid = 0
        /\ remote[c.given[x].uid].state # "none" /\ remote[c.given[x].uid].etag > token
        /\ \A y \in C!Rows : /\ local[y].uid # c.given[x].uid
                             /\ c.given[y].uid = c.given[x].uid => y = x

\* An event of the provider that has changed since the token, and not since the
\* answer: the answer told it, or it is in a row as it was.
CalendarTold(c, u) ==
    \/ [uid |-> u, etag |-> remote[u].etag, gone |-> FALSE] \in c.got
    \/ c.at = "saving" /\ u \in dropped
    \/ c.at = "saving" /\ \E x \in C!Here : C!Seen(c)[x] = u /\ C!Pushed(c, x).etag = remote[u].etag

CalendarAnswer(c) ==
    /\ c.next <= clock
    /\ \A g \in c.got :
          /\ token < g.etag /\ g.etag <= remote[g.uid].etag
          /\ remote[g.uid].etag <= c.next =>
                g.etag = remote[g.uid].etag /\ g.gone = (remote[g.uid].state = "gone")
    /\ \A g, h \in c.got : g.uid = h.uid => g = h
    /\ \A u \in C!Uids : token < remote[u].etag /\ remote[u].etag <= c.next =>
          /\ remote[u].state = "live" => CalendarTold(c, u)
          /\ remote[u].state = "gone" =>
                u \in unlisted \/ [uid |-> u, etag |-> remote[u].etag, gone |-> TRUE] \in c.got

CalendarFound(c) ==
    /\ \A u \in C!Uids : /\ \A x \in C!Here : C!Seen(c)[x] = u <=> c.found[u] = x
                         /\ c.found[u] # 0 => local[c.found[u]].state # "none"
    /\ c.writes => C!Storable(c)

CalendarCall(c) ==
    /\ c.at # "idle" /\ c.base = token
    /\ c.at = "pushing" => c.got = {} /\ c.next = 0
    /\ \A x \in c.todo : local[x].state # "none" /\ local[x].uid = 0 /\ c.given[x].uid = 0
    /\ CalendarGiven(c)
    /\ c.writes = (c.at = "saving" /\ C!Writes(c))
    /\ c.at \in {"applying", "saving"} => CalendarAnswer(c)
    /\ c.at = "saving" => CalendarFound(c)

CalendarRows ==
    /\ token <= clock
    /\ \A u \in C!Uids :
          /\ remote[u].etag <= clock
          /\ remote[u].state = "none" => remote[u].etag = 0 /\ remote[u].from = 0
          /\ remote[u].state # "none" => remote[u].etag > 0
    /\ \A x \in C!Rows :
          /\ local[x].state = "none" => local[x] = C!NoRow
          /\ local[x].state # "here" => local[x].uid = 0
          /\ local[x].uid # 0 => remote[local[x].uid].state # "none"
    /\ \A x, y \in C!Rows : local[x].uid = local[y].uid /\ local[x].uid # 0 => x = y

CalendarBusy == {r \in Requests : ccall[r] # C!Idle}
CalendarOne == \A r, q \in CalendarBusy : r = q
CalendarInv ==
    /\ C!TypeOK /\ CalendarOne /\ CalendarRows /\ C!TokenTellsTruth
    /\ \A r \in CalendarBusy : CalendarCall(ccall[r])

\* The row an event was pushed from has its uid, or will have it.
CalendarFrom ==
    \A u \in C!Uids, x \in C!Rows : remote[u].from = x =>
        \/ local[x].uid = u \/ local[x].state = "gone"
        \/ \E r \in Requests : ccall[r].given[x].uid = u
CalendarCalm ==
    /\ CalendarFrom
    /\ \A u, v \in C!Uids : remote[u].from = remote[v].from /\ remote[u].from # 0 => u = v
    /\ \A r \in Requests, x \in C!Rows :
          x \in ccall[r].todo \/ ccall[r].given[x].uid # 0 => local[x].state = "here"

CalendarStep ==
    /\ \/ C!ProviderChanges \/ C!CreateEvent
       \/ \E x \in C!Rows : C!DeleteEvent(x)
       \/ \E r \in Requests : C!Work(r) \/ C!Abort(r)
    /\ Cardinality(CalendarBusy') <= 1
CalendarCalmStep ==
    /\ \/ C!ProviderChanges \/ C!CreateEvent
       \/ (\A r \in Requests : ccall[r] = C!Idle) /\ \E x \in C!Rows : C!DeleteEvent(x)
       \/ \E r \in Requests : C!Work(r)
    /\ Cardinality(CalendarBusy') <= 1

LEMMA CalendarFirst ==
    ASSUME NEW S \in SUBSET Nat, S # {}
    PROVE  C!First(S) \in S
BY LeastIs DEF C!First

LEMMA CalendarIdle ==
    /\ C!Idle \in C!Call /\ C!Idle.at = "idle" /\ C!Idle.todo = {} /\ C!Idle.writes = FALSE
    /\ C!Idle.got = {} /\ C!Idle.next = 0
    /\ \A x \in C!Rows : C!Idle.given[x].uid = 0
BY CalendarAssumption DEF C!Idle, C!Call, C!Nothing, C!Given, C!Clocks

LEMMA CalendarTypes ==
    ASSUME C!TypeOK
    PROVE  /\ clock \in Nat /\ token \in Nat /\ 0 \notin C!Rows /\ 0 \notin C!Uids
           /\ \A u \in C!Uids : remote[u] \in C!Remote /\ remote[u].etag \in Nat /\ u \in Nat
           /\ \A x \in C!Rows : local[x] \in C!Row /\ local[x].uid \in C!Uids \cup {0} /\ x \in Nat
           /\ \A r \in Requests : ccall[r] \in C!Call
           /\ C!NoRow \in C!Row /\ C!NoRow.state = "none" /\ C!NoRow.uid = 0 /\ C!NoRow.etag = 0
           /\ 0 \in C!Clocks
BY CalendarAssumption DEF C!TypeOK, C!Clocks, C!Rows, C!Uids, C!Remote, C!Row, C!NoRow

LEMMA CalendarCallTypes ==
    ASSUME NEW c \in C!Call
    PROVE  /\ c.todo \subseteq C!Rows /\ c.base \in Nat /\ c.next \in Nat /\ c.writes \in BOOLEAN
           /\ c.next \in C!Clocks /\ c.base \in C!Clocks
           /\ \A x \in C!Rows : c.given[x] \in C!Given /\ c.given[x].uid \in C!Uids \cup {0}
                                /\ c.given[x].etag \in C!Clocks
           /\ \A g \in c.got : /\ g.uid \in C!Uids /\ g.etag \in Nat /\ g.etag \in C!Clocks
                               /\ g.gone \in BOOLEAN
                               /\ g = [uid |-> g.uid, etag |-> g.etag, gone |-> g.gone]
           /\ \A u \in C!Uids : c.found[u] \in C!Rows \cup {0}
BY CalendarAssumption DEF C!Call, C!Given, C!Clocks

LEMMA CalendarOneAfter ==
    ASSUME Cardinality(CalendarBusy') <= 1
    PROVE  CalendarOne'
<1>1. IsFiniteSet(CalendarBusy') /\ Cardinality(CalendarBusy') \in Nat
  BY RequestsAreFinite, FS_Subset, FS_CardinalityType DEF CalendarBusy
<1>2. Cardinality(CalendarBusy') = 0 \/ Cardinality(CalendarBusy') = 1
  BY <1>1
<1>3. CASE Cardinality(CalendarBusy') = 0
  BY <1>1, <1>3, FS_EmptySet DEF CalendarOne
<1>4. CASE Cardinality(CalendarBusy') = 1
  BY <1>1, <1>4, FS_Singleton DEF CalendarOne
<1> QED
  BY <1>2, <1>3, <1>4

LEMMA CalendarInit == C!Init => CalendarInv /\ CalendarCalm
<1> SUFFICES ASSUME C!Init PROVE CalendarInv /\ CalendarCalm
  OBVIOUS
<1>1. C!TypeOK
  <2>1. /\ C!NoRow \in C!Row /\ 0 \in C!Clocks
        /\ [state |-> "none", etag |-> 0, from |-> 0] \in C!Remote
    BY CalendarAssumption DEF C!NoRow, C!Row, C!Clocks, C!Remote
  <2> QED
    BY <2>1, CalendarIdle DEF C!Init, C!TypeOK
<1>2. /\ \A u \in C!Uids : /\ remote[u].state = "none" /\ remote[u].etag = 0
                           /\ remote[u].from = 0
      /\ \A x \in C!Rows : local[x] = C!NoRow
      /\ clock = 0 /\ token = 0
      /\ \A r \in Requests : ccall[r] = C!Idle
  BY DEF C!Init
<1>3. CalendarRows /\ C!TokenTellsTruth
  BY <1>1, <1>2, CalendarTypes DEF CalendarRows, C!TokenTellsTruth
<1>4. CalendarCalm
  BY <1>1, <1>2, CalendarTypes, CalendarIdle DEF CalendarCalm, CalendarFrom
<1> QED
  BY <1>1, <1>2, <1>3, <1>4 DEF CalendarInv, CalendarOne, CalendarBusy

\* A request that becomes c, the others being idle.
LEMMA CalendarMoves ==
    ASSUME CalendarInv, CalendarOne', NEW r \in Requests, NEW c \in C!Call,
           C!Becomes(r, c), ccall[r] # C!Idle \/ c # C!Idle,
           remote' \in [C!Uids -> C!Remote], clock' \in C!Clocks, local' \in [C!Rows -> C!Row],
           token' \in C!Clocks, dropped' \subseteq C!Uids, unlisted' \subseteq C!Uids,
           CalendarRows', C!TokenTellsTruth', c # C!Idle => CalendarCall(c)'
    PROVE  CalendarInv'
<1>1. ccall'[r] = c /\ \A s \in Requests \ {r} : ccall'[s] = ccall[s]
  BY DEF CalendarInv, C!TypeOK, C!Becomes
<1>2. \A s \in Requests \ {r} : ccall'[s] = C!Idle
  BY <1>1 DEF CalendarInv, CalendarOne, CalendarBusy
<1>3. ASSUME NEW s \in CalendarBusy' PROVE CalendarCall(ccall[s])'
  <2>1. s = r
    BY <1>2, <1>3 DEF CalendarBusy
  <2> QED
    BY <1>1, <1>3, <2>1
       DEF CalendarBusy, CalendarCall, CalendarGiven, CalendarAnswer, CalendarFound
<1>4. C!TypeOK'
  BY DEF CalendarInv, C!TypeOK, C!Becomes
<1> QED
  BY <1>3, <1>4 DEF CalendarInv

\* People change events at the provider.
LEMMA CalendarProvider ==
    ASSUME CalendarInv, CalendarOne', C!ProviderChanges
    PROVE  CalendarInv'
<1>0. /\ C!TypeOK /\ CalendarRows /\ C!TokenTellsTruth /\ clock \in Nat /\ token \in Nat
      /\ UNCHANGED <<local, token, ccall, dropped, unlisted>>
  BY CalendarTypes DEF CalendarInv, C!ProviderChanges
<1>1. PICK u \in C!Uids, state \in {"live", "gone"} : C!Changed(u, state)
  <2>1. C!Free # {} => C!First(C!Free) \in C!Uids
    BY CalendarFirst DEF C!Free, C!Uids
  <2> QED
    BY <2>1 DEF C!ProviderChanges
<1>2. /\ clock' = clock + 1 /\ clock' \in C!Clocks
      /\ remote'[u].etag = clock' /\ remote'[u].state = state /\ remote' \in [C!Uids -> C!Remote]
      /\ \A v \in C!Uids \ {u} : remote'[v] = remote[v]
  <2>1. clock + 1 \in C!Clocks
    BY <1>0, <1>1, CalendarAssumption DEF C!Changed, C!Clocks
  <2>2. remote[u] \in C!Remote
    BY <1>0, CalendarTypes
  <2> DEFINE e == [remote[u] EXCEPT !.state = state]
             f == [e EXCEPT !.etag = clock + 1]
  <2>3. e \in C!Remote /\ e.state = state
    BY <2>2 DEF C!Remote
  <2>4. f \in C!Remote /\ f.state = state /\ f.etag = clock + 1
    <3> HIDE DEF e
    <3> QED
      BY <2>1, <2>3 DEF C!Remote
  <2>5. remote' = [remote EXCEPT ![u] = f] /\ clock' = clock + 1
    BY <1>0, <1>1 DEF C!Changed, C!TypeOK
  <2> HIDE DEF f
  <2> QED
    BY <1>0, <2>1, <2>4, <2>5 DEF C!TypeOK
<1>3. CalendarRows'
  BY <1>0, <1>2, CalendarTypes DEF CalendarRows
<1>4. C!TokenTellsTruth'
  BY <1>0, <1>2, CalendarTypes DEF C!TokenTellsTruth, CalendarRows, C!Here
<1>5. ASSUME NEW c \in C!Call, CalendarCall(c) PROVE CalendarCall(c)'
  <2>1. CalendarGiven(c)'
    BY <1>0, <1>2, <1>5, CalendarTypes, CalendarCallTypes
       DEF CalendarCall, CalendarGiven, CalendarRows
  <2>2. ASSUME CalendarAnswer(c) PROVE CalendarAnswer(c)'
    <3>1. c.next <= clock /\ c.next < clock' /\ c.next <= clock' /\ c.next \in Nat
      BY <1>0, <1>2, <2>2, CalendarCallTypes DEF CalendarAnswer
    <3>2. \A g \in c.got :
             /\ token < g.etag /\ g.etag <= remote'[g.uid].etag
             /\ remote'[g.uid].etag <= c.next =>
                   g.etag = remote'[g.uid].etag /\ g.gone = (remote'[g.uid].state = "gone")
      BY <1>0, <1>2, <2>2, <3>1, CalendarTypes, CalendarCallTypes DEF CalendarAnswer, CalendarRows
    <3>3. ASSUME NEW v \in C!Uids, remote'[v].etag <= c.next
          PROVE  remote'[v] = remote[v] /\ (CalendarTold(c, v) => CalendarTold(c, v)')
      <4>1. v # u
        BY <1>0, <1>2, <3>1, <3>3
      <4>2. remote'[v] = remote[v]
        BY <1>2, <4>1
      <4> QED
        BY <1>0, <4>2 DEF CalendarTold, C!Here, C!Seen, C!Pushed
    <3> QED
      BY <1>0, <2>2, <3>1, <3>2, <3>3 DEF CalendarAnswer
  <2>3. CalendarFound(c) => CalendarFound(c)'
    BY <1>0 DEF CalendarFound, C!Here, C!Seen, C!Storable
  <2> QED
    BY <1>0, <1>5, <2>1, <2>2, <2>3 DEF CalendarCall, C!Writes
<1> QED
  BY <1>0, <1>2, <1>3, <1>4, <1>5, CalendarTypes DEF CalendarInv, CalendarBusy, C!TypeOK

\* A row that was not there is there, a row that was there is gone.
LEMMA CalendarPeople ==
    ASSUME CalendarInv, CalendarOne', C!CreateEvent \/ \E x \in C!Rows : C!DeleteEvent(x)
    PROVE  CalendarInv'
<1>0. /\ C!TypeOK /\ CalendarRows /\ C!TokenTellsTruth /\ clock \in Nat /\ token \in Nat
      /\ UNCHANGED <<remote, clock, token, ccall, unlisted>>
      /\ dropped \subseteq dropped' /\ dropped' \subseteq C!Uids
  BY CalendarTypes DEF CalendarInv, C!CreateEvent, C!DeleteEvent, C!TypeOK
<1>1. CASE C!CreateEvent
  <2>1. PICK x \in C!Rows : local[x].state = "none" /\ local' = [local EXCEPT ![x].state = "here"]
    <3>1. C!Unused \in SUBSET Nat /\ C!Unused # {}
      BY <1>1 DEF C!CreateEvent, C!Unused, C!Rows
    <3>2. C!First(C!Unused) \in C!Unused
      BY <3>1, CalendarFirst
    <3> QED
      BY <1>1, <3>2 DEF C!CreateEvent, C!Unused
  <2>2. local[x] = C!NoRow
    BY <1>0, <2>1 DEF CalendarRows
  <2>3. /\ local' \in [C!Rows -> C!Row] /\ local'[x].state = "here" /\ local'[x].uid = 0
        /\ \A y \in C!Rows \ {x} : local'[y] = local[y]
    <3> DEFINE here == [C!NoRow EXCEPT !.state = "here"]
    <3>1. here \in C!Row /\ here.state = "here" /\ here.uid = 0
      BY <1>0, CalendarTypes DEF C!Row
    <3> HIDE DEF here
    <3>2. local' = [local EXCEPT ![x] = here]
      BY <1>0, <2>1, <2>2 DEF here, C!TypeOK
    <3> QED
      BY <1>0, <3>1, <3>2 DEF C!TypeOK
  <2>4. CalendarRows'
    BY <1>0, <2>1, <2>2, <2>3, CalendarTypes DEF CalendarRows
  <2>5. C!TokenTellsTruth'
    BY <1>0, <1>1, <2>1, <2>3, CalendarTypes DEF C!CreateEvent, C!TokenTellsTruth, C!Here
  <2>6. ASSUME NEW c \in C!Call, CalendarCall(c) PROVE CalendarCall(c)'
    <3>1. c.given[x].uid = 0 /\ x \notin c.todo
      BY <2>1, <2>6 DEF CalendarCall, CalendarGiven
    <3>2. C!Here' = C!Here \cup {x} /\ x \notin C!Here /\ dropped' = dropped
      BY <1>1, <2>1, <2>3 DEF C!Here, C!CreateEvent
    <3>3. C!Seen(c)'[x] = 0 /\ \A y \in C!Rows \ {x} : C!Seen(c)'[y] = C!Seen(c)[y]
      BY <2>3, <3>1 DEF C!Seen
    <3>4. \A y \in C!Rows \ {x} : C!Pushed(c, y)' = C!Pushed(c, y)
      BY <2>3 DEF C!Pushed
    <3>5. CalendarGiven(c)'
      BY <1>0, <2>3, <2>6, <3>1, CalendarTypes, CalendarCallTypes DEF CalendarCall, CalendarGiven
    <3>6. \A u \in C!Uids : CalendarTold(c, u) => CalendarTold(c, u)'
      BY <1>0, <3>2, <3>3, <3>4, CalendarTypes DEF CalendarTold, C!Here
    <3>7. CalendarAnswer(c) => CalendarAnswer(c)'
      BY <1>0, <3>2, <3>6 DEF CalendarAnswer
    <3>8. CalendarFound(c) => CalendarFound(c)'
      BY <2>1, <2>3, <3>1, <3>2, <3>3, CalendarTypes, <1>0 DEF CalendarFound, C!Storable, C!Here
    <3> QED
      BY <1>0, <2>3, <2>6, <3>1, <3>5, <3>7, <3>8, CalendarCallTypes DEF CalendarCall, C!Writes
  <2> QED
    BY <1>0, <2>3, <2>4, <2>5, <2>6, CalendarTypes DEF CalendarInv, CalendarBusy, C!TypeOK
<1>2. ASSUME NEW x \in C!Rows, C!DeleteEvent(x) PROVE CalendarInv'
  <2>1. /\ x \in C!Here /\ local' = [local EXCEPT ![x] = [C!NoRow EXCEPT !.state = "gone"]]
        /\ \A r \in Requests : ~ccall[r].writes
        /\ local[x].uid # 0 => local[x].uid \in dropped'
    BY <1>2 DEF C!DeleteEvent
  <2>2. /\ local' \in [C!Rows -> C!Row] /\ local'[x].state = "gone" /\ local'[x].uid = 0
        /\ \A y \in C!Rows \ {x} : local'[y] = local[y]
        /\ C!Here' = C!Here \ {x}
    <3> DEFINE gone == [C!NoRow EXCEPT !.state = "gone"]
    <3>1. gone \in C!Row /\ gone.state = "gone" /\ gone.uid = 0
      BY <1>0, CalendarTypes DEF C!Row
    <3> HIDE DEF gone
    <3>2. local' = [local EXCEPT ![x] = gone]
      BY <2>1 DEF gone
    <3> QED
      BY <1>0, <3>1, <3>2 DEF C!TypeOK, C!Here
  <2>3. CalendarRows'
    BY <1>0, <2>2, CalendarTypes DEF CalendarRows
  <2>4. C!TokenTellsTruth'
    BY <1>0, <2>1, <2>2, CalendarTypes DEF C!TokenTellsTruth, C!Here
  <2>5. ASSUME NEW c \in C!Call, CalendarCall(c), ~c.writes PROVE CalendarCall(c)'
    <3>1. \A y \in C!Rows \ {x} : C!Seen(c)'[y] = C!Seen(c)[y] /\ C!Pushed(c, y)' = C!Pushed(c, y)
      BY <2>2 DEF C!Seen, C!Pushed
    <3>2. CalendarGiven(c)'
      BY <1>0, <2>2, <2>5, CalendarTypes, CalendarCallTypes DEF CalendarCall, CalendarGiven
    <3>3. ASSUME NEW u \in C!Uids, CalendarTold(c, u) PROVE CalendarTold(c, u)'
      <4>1. CASE [uid |-> u, etag |-> remote[u].etag, gone |-> FALSE] \in c.got
        BY <1>0, <4>1 DEF CalendarTold
      <4>2. CASE c.at = "saving" /\ u \in dropped
        BY <1>0, <4>2 DEF CalendarTold
      <4>3. ASSUME c.at = "saving", NEW y \in C!Here, C!Seen(c)[y] = u,
                   C!Pushed(c, y).etag = remote[u].etag
            PROVE  CalendarTold(c, u)'
        <5>1. CASE y = x
          <6>1. c.given[x].uid = 0
            BY <2>5, <4>3 DEF CalendarCall, C!Writes
          <6>2. local[x].uid = u /\ u # 0
            BY <1>0, <4>3, <5>1, <6>1, CalendarTypes DEF C!Seen, C!Here
          <6> QED
            BY <2>1, <4>3, <6>2 DEF CalendarTold
        <5>2. CASE y # x
          BY <1>0, <2>2, <3>1, <4>3, <5>2 DEF CalendarTold, C!Here
        <5> QED
          BY <5>1, <5>2
      <4> QED
        BY <3>3, <4>1, <4>2, <4>3 DEF CalendarTold
    <3>4. CalendarAnswer(c) => CalendarAnswer(c)'
      BY <1>0, <3>3 DEF CalendarAnswer
    <3>5. CalendarFound(c) => CalendarFound(c)'
      BY <1>0, <2>2, <2>5, <3>1, CalendarCallTypes DEF CalendarFound, C!Here
    <3> QED
      BY <1>0, <2>2, <2>5, <3>2, <3>4, <3>5, CalendarCallTypes DEF CalendarCall, C!Writes
  <2> QED
    BY <1>0, <2>1, <2>2, <2>3, <2>4, <2>5, CalendarTypes DEF CalendarInv, CalendarBusy, C!TypeOK
<1> QED
  BY <1>1, <1>2

\* The synchronisation, and what it leaves of the requirements of CalendarMoves.
LEMMA CalendarBegins ==
    ASSUME CalendarInv, CalendarOne', NEW r \in Requests, C!Begin(r)
    PROVE  CalendarInv'
<1>0. /\ C!TypeOK /\ CalendarRows /\ C!TokenTellsTruth
      /\ ccall[r] = C!Idle /\ UNCHANGED <<remote, clock, local, token, dropped, unlisted>>
  BY DEF CalendarInv, C!Begin
<1>1. PICK c \in C!Call :
         /\ c = [C!Idle EXCEPT !.at = "pushing", !.base = token,
                               !.todo = {x \in C!Here : local[x].uid = 0}]
         /\ c.at = "pushing" /\ c.base = token /\ c.todo = {x \in C!Here : local[x].uid = 0}
         /\ c.given = C!Idle.given /\ c.writes = FALSE /\ c.got = {} /\ c.next = 0
  <2> DEFINE T == {x \in C!Here : local[x].uid = 0}
             a == [C!Idle EXCEPT !.at = "pushing"]
             b == [a EXCEPT !.base = token]
             e == [b EXCEPT !.todo = T]
  <2>1. token \in C!Clocks /\ T \in SUBSET C!Rows
    BY <1>0 DEF C!TypeOK, C!Here
  <2> HIDE DEF T
  <2>2. a \in C!Call /\ a.at = "pushing" /\ a.given = C!Idle.given /\ a.writes = FALSE
        /\ a.got = {} /\ a.next = 0
    BY CalendarIdle DEF C!Call
  <2>3. b \in C!Call /\ b.at = "pushing" /\ b.given = C!Idle.given /\ b.writes = FALSE
        /\ b.base = token /\ b.got = {} /\ b.next = 0
    <3> HIDE DEF a
    <3> QED
      BY <2>1, <2>2 DEF C!Call
  <2>4. e \in C!Call /\ e.at = "pushing" /\ e.given = C!Idle.given /\ e.writes = FALSE
        /\ e.base = token /\ e.todo = T /\ e.got = {} /\ e.next = 0
    <3> HIDE DEF b
    <3> QED
      BY <2>1, <2>3 DEF C!Call
  <2>5. e = [C!Idle EXCEPT !.at = "pushing", !.base = token, !.todo = T]
    OBVIOUS
  <2> QED
    BY <2>4, <2>5 DEF T
<1>2. \A x \in C!Rows : c.given[x].uid = 0
  BY <1>1, CalendarIdle
<1>3. CalendarCall(c)'
  BY <1>0, <1>1, <1>2 DEF CalendarCall, CalendarGiven, C!Here
<1>4. C!Becomes(r, c) /\ c # C!Idle
  BY <1>1, CalendarIdle DEF C!Begin
<1>5. CalendarRows' /\ C!TokenTellsTruth'
  BY <1>0 DEF CalendarRows, C!TokenTellsTruth, C!Here
<1> QED
  BY <1>0, <1>3, <1>4, <1>5, CalendarMoves DEF C!TypeOK

\* What a request has when it is not idle.
LEMMA CalendarBusyCall ==
    ASSUME CalendarInv, NEW r \in Requests, ccall[r] # C!Idle
    PROVE  /\ C!TypeOK /\ CalendarRows /\ C!TokenTellsTruth
           /\ ccall[r] \in C!Call /\ CalendarCall(ccall[r])
           /\ clock \in Nat /\ token \in Nat /\ token \in C!Clocks /\ clock \in C!Clocks
BY CalendarTypes DEF CalendarInv, CalendarBusy, C!TypeOK

CalendarPushed(c, x, u, n) ==
    [c EXCEPT !.todo = @ \ {x}, !.given[x] = [uid |-> u, etag |-> n]]

LEMMA CalendarPushMade ==
    ASSUME NEW c \in C!Call, NEW x \in C!Rows, NEW u \in C!Uids, NEW n \in C!Clocks
    PROVE  \E d \in C!Call :
              /\ d = CalendarPushed(c, x, u, n)
              /\ d.at = c.at /\ d.base = c.base /\ d.writes = c.writes /\ d.todo = c.todo \ {x}
              /\ d.given[x].uid = u /\ \A y \in C!Rows \ {x} : d.given[y] = c.given[y]
              /\ d.got = c.got /\ d.next = c.next
<1> DEFINE new == [uid |-> u, etag |-> n]
           f == [c.given EXCEPT ![x] = new]
           a == [c EXCEPT !.todo = @ \ {x}]
           d == [a EXCEPT !.given = f]
<1>1. new \in C!Given /\ new.uid = u
  BY DEF C!Given
<1>2. f \in [C!Rows -> C!Given] /\ f[x].uid = u /\ \A y \in C!Rows \ {x} : f[y] = c.given[y]
  <2> HIDE DEF new
  <2> QED
    BY <1>1 DEF C!Call
<1>3. a \in C!Call /\ a.at = c.at /\ a.base = c.base /\ a.writes = c.writes
      /\ a.todo = c.todo \ {x} /\ a.given = c.given /\ a.got = c.got /\ a.next = c.next
  BY DEF C!Call
<1>4. d \in C!Call /\ d.at = c.at /\ d.base = c.base /\ d.writes = c.writes
      /\ d.todo = c.todo \ {x} /\ d.given = f /\ d.got = c.got /\ d.next = c.next
  <2> HIDE DEF a, f
  <2> QED
    BY <1>2, <1>3 DEF C!Call
<1>5. d = CalendarPushed(c, x, u, n)
  BY DEF C!Call, CalendarPushed
<1> QED
  BY <1>2, <1>4, <1>5

LEMMA CalendarPushes ==
    ASSUME CalendarInv, CalendarOne', NEW r \in Requests, C!Push(r)
    PROVE  CalendarInv'
<1> DEFINE c == ccall[r]
<1>0. /\ c # C!Idle /\ c.at = "pushing" /\ c.todo # {} /\ C!Free # {}
      /\ UNCHANGED <<local, token, dropped, unlisted>>
  BY CalendarIdle DEF C!Push
<1>1. /\ C!TypeOK /\ CalendarRows /\ C!TokenTellsTruth /\ c \in C!Call /\ CalendarCall(c)
      /\ clock \in Nat /\ token \in Nat /\ token \in C!Clocks
  BY <1>0, CalendarBusyCall
<1>2. PICK x \in c.todo : x = C!First(c.todo) /\ x \in C!Rows
  BY <1>0, <1>1, CalendarFirst, CalendarCallTypes DEF C!Rows
<1>3. PICK u \in C!Uids : u = C!First(C!Free) /\ remote[u].state = "none"
  <2>1. C!Free \in SUBSET Nat
    BY DEF C!Free, C!Uids
  <2>2. C!First(C!Free) \in C!Free
    BY <1>0, <2>1, CalendarFirst
  <2> QED
    BY <2>2 DEF C!Free
<1>4. clock' = clock + 1 /\ clock' \in C!Clocks
  BY <1>1, CalendarAssumption DEF C!Push, C!Clocks
<1>5. PICK d \in C!Call :
         /\ d = CalendarPushed(c, x, u, clock + 1)
         /\ d.at = c.at /\ d.base = c.base /\ d.writes = c.writes /\ d.todo = c.todo \ {x}
         /\ d.given[x].uid = u /\ \A y \in C!Rows \ {x} : d.given[y] = c.given[y]
         /\ d.got = c.got /\ d.next = c.next
  BY <1>1, <1>2, <1>4, CalendarPushMade
<1>6. C!Becomes(r, d)
  BY <1>2, <1>3, <1>5 DEF C!Push, CalendarPushed
<1>7. /\ remote' \in [C!Uids -> C!Remote] /\ remote'[u].etag = clock' /\ remote'[u].state = "live"
      /\ \A v \in C!Uids \ {u} : remote'[v] = remote[v]
  <2> DEFINE new == [state |-> "live", etag |-> clock + 1, from |-> x]
  <2>1. new \in C!Remote /\ new.etag = clock' /\ new.state = "live"
    BY <1>2, <1>4 DEF C!Remote
  <2>2. remote' = [remote EXCEPT ![u] = new]
    BY <1>2, <1>3 DEF C!Push
  <2> HIDE DEF new
  <2> QED
    BY <1>1, <2>1, <2>2 DEF C!TypeOK
<1>8. CalendarRows'
  BY <1>0, <1>1, <1>3, <1>4, <1>7, CalendarTypes DEF CalendarRows
<1>9. C!TokenTellsTruth'
  BY <1>0, <1>1, <1>4, <1>7, CalendarTypes DEF C!TokenTellsTruth, CalendarRows, C!Here
<1>10. CalendarCall(d)'
  <2>1. CalendarGiven(d)'
    <3>1. \A y \in C!Rows : local[y].uid # u /\ c.given[y].uid # u
      BY <1>1, <1>3, CalendarTypes DEF CalendarRows, CalendarCall, CalendarGiven
    <3>2. ASSUME NEW y \in C!Rows \ {x}, d.given[y].uid # 0
          PROVE  /\ local[y].state # "none" /\ local[y].uid = 0
                 /\ remote'[d.given[y].uid].state # "none" /\ remote'[d.given[y].uid].etag > token
                 /\ \A z \in C!Rows : /\ local[z].uid # d.given[y].uid
                                      /\ d.given[z].uid = d.given[y].uid => z = y
      <4>1. d.given[y] = c.given[y] /\ c.given[y].uid \in C!Uids \ {u}
        BY <1>1, <1>5, <3>1, <3>2, CalendarCallTypes
      <4>2. /\ local[y].state # "none" /\ local[y].uid = 0
            /\ remote[c.given[y].uid].state # "none" /\ remote[c.given[y].uid].etag > token
            /\ \A z \in C!Rows : /\ local[z].uid # c.given[y].uid
                                 /\ c.given[z].uid = c.given[y].uid => z = y
        BY <1>1, <3>2, <4>1, CalendarTypes DEF CalendarCall, CalendarGiven
      <4>3. remote'[d.given[y].uid] = remote[c.given[y].uid]
        BY <1>7, <4>1
      <4>4. ASSUME NEW z \in C!Rows, d.given[z].uid = d.given[y].uid PROVE z = y
        BY <1>5, <4>1, <4>2, <4>4
      <4> QED
        BY <4>1, <4>2, <4>3, <4>4
    <3>3. /\ local[x].state # "none" /\ local[x].uid = 0
          /\ remote'[u].state # "none" /\ remote'[u].etag > token
          /\ \A z \in C!Rows : /\ local[z].uid # u
                               /\ d.given[z].uid = u => z = x
      BY <1>1, <1>2, <1>4, <1>5, <1>7, <3>1, CalendarTypes DEF CalendarCall, CalendarRows
    <3>4. token' = token /\ local' = local
      BY <1>0
    <3>5. d.given[x].uid = u
      BY <1>5
    <3>6. ASSUME NEW y \in C!Rows, d.given[y].uid # 0
          PROVE  /\ local[y].state # "none" /\ local[y].uid = 0
                 /\ remote'[d.given[y].uid].state # "none" /\ remote'[d.given[y].uid].etag > token
                 /\ \A z \in C!Rows : /\ local[z].uid # d.given[y].uid
                                      /\ d.given[z].uid = d.given[y].uid => z = y
      <4>1. CASE y = x
        BY <3>3, <3>5, <4>1
      <4>2. CASE y # x
        BY <3>2, <3>6, <4>2
      <4> QED
        BY <4>1, <4>2
    <3> QED
      BY <3>4, <3>6 DEF CalendarGiven
  <2> QED
    BY <1>0, <1>1, <1>2, <1>5, <2>1, CalendarCallTypes DEF CalendarCall
<1> QED
  BY <1>0, <1>1, <1>4, <1>6, <1>7, <1>8, <1>9, <1>10, CalendarMoves DEF C!TypeOK

CalendarListed(c, A, n) == [c EXCEPT !.at = "applying", !.got = A, !.next = n]

LEMMA CalendarListMade ==
    ASSUME NEW c \in C!Call, NEW n \in C!Clocks,
           NEW A \in SUBSET [uid : C!Uids, etag : C!Clocks, gone : BOOLEAN]
    PROVE  /\ \E d \in C!Call :
                 /\ d = CalendarListed(c, A, n)
                 /\ d.at = "applying" /\ d.base = c.base /\ d.writes = c.writes
                 /\ d.todo = c.todo /\ d.given = c.given /\ d.got = A /\ d.next = n
           /\ \E d \in C!Call :
                 /\ d = [c EXCEPT !.at = "applying"]
                 /\ d.at = "applying" /\ d.base = c.base /\ d.writes = c.writes
                 /\ d.todo = c.todo /\ d.given = c.given /\ d.got = c.got /\ d.next = c.next
<1> DEFINE a == [c EXCEPT !.at = "applying"]
           b == [a EXCEPT !.got = A]
           d == [b EXCEPT !.next = n]
<1>1. a \in C!Call /\ a.at = "applying" /\ a.base = c.base /\ a.writes = c.writes
      /\ a.todo = c.todo /\ a.given = c.given /\ a.got = c.got /\ a.next = c.next
  BY DEF C!Call
<1>2. b \in C!Call /\ b.at = "applying" /\ b.base = c.base /\ b.writes = c.writes
      /\ b.todo = c.todo /\ b.given = c.given /\ b.got = A /\ b.next = c.next
  <2> HIDE DEF a
  <2> QED
    BY <1>1 DEF C!Call
<1>3. d \in C!Call /\ d.at = "applying" /\ d.base = c.base /\ d.writes = c.writes
      /\ d.todo = c.todo /\ d.given = c.given /\ d.got = A /\ d.next = n
  <2> HIDE DEF b
  <2> QED
    BY <1>2 DEF C!Call
<1>4. d = CalendarListed(c, A, n)
  BY DEF CalendarListed
<1> QED
  BY <1>1, <1>3, <1>4

LEMMA CalendarLists ==
    ASSUME CalendarInv, CalendarOne', NEW r \in Requests, C!List(r)
    PROVE  CalendarInv'
<1> DEFINE c == ccall[r]
           A == C!Answer(c.base)
<1>0. /\ c # C!Idle /\ c.at = "pushing" /\ c.todo = {}
      /\ UNCHANGED <<remote, clock, local, token, dropped>>
  BY CalendarIdle DEF C!List
<1>1. /\ C!TypeOK /\ CalendarRows /\ C!TokenTellsTruth /\ c \in C!Call /\ CalendarCall(c)
      /\ clock \in Nat /\ token \in Nat /\ token \in C!Clocks /\ clock \in C!Clocks
      /\ c.base = token /\ c.got = {} /\ c.next = 0
  BY <1>0, CalendarBusyCall DEF CalendarCall
<1>2. unlisted \subseteq unlisted' /\ unlisted' \subseteq C!Uids
  BY <1>1 DEF C!List, C!TypeOK
<1>3. CalendarRows' /\ C!TokenTellsTruth'
  BY <1>0, <1>1, <1>2 DEF CalendarRows, C!TokenTellsTruth, C!Here
<1>4. ASSUME NEW d \in C!Call, C!Becomes(r, d), d.at = "applying", d.base = c.base,
             d.writes = c.writes, d.todo = c.todo, d.given = c.given, CalendarAnswer(d)'
      PROVE  CalendarInv'
  <2>1. CalendarCall(d)'
    BY <1>0, <1>1, <1>4 DEF CalendarCall, CalendarGiven
  <2> QED
    BY <1>0, <1>1, <1>2, <1>3, <1>4, <2>1, CalendarMoves DEF C!TypeOK
<1>5. CASE /\ C!Becomes(r, [c EXCEPT !.at = "applying", !.got = A, !.next = clock])
           /\ unlisted' = IF c.base # 0 THEN unlisted
                          ELSE unlisted \cup {u \in C!Uids : remote[u].state = "gone"}
  <2>1. A \in SUBSET [uid : C!Uids, etag : C!Clocks, gone : BOOLEAN]
    <3>1. \A u \in C!Uids : remote[u].etag \in C!Clocks
      BY <1>1 DEF C!TypeOK, C!Remote
    <3>2. ASSUME NEW g \in A PROVE g \in [uid : C!Uids, etag : C!Clocks, gone : BOOLEAN]
      <4>1. PICK u \in C!Uids :
               g = [uid |-> u, etag |-> remote[u].etag, gone |-> remote[u].state = "gone"]
        BY <3>2 DEF C!Answer
      <4>2. (remote[u].state = "gone") \in BOOLEAN
        OBVIOUS
      <4> QED
        BY <3>1, <4>1, <4>2
    <3> QED
      BY <3>2
  <2> HIDE DEF A
  <2>2. PICK d \in C!Call :
           /\ d = CalendarListed(c, A, clock)
           /\ d.at = "applying" /\ d.base = c.base /\ d.writes = c.writes
           /\ d.todo = c.todo /\ d.given = c.given /\ d.got = A /\ d.next = clock
    BY <1>1, <2>1, CalendarListMade
  <2>3. ASSUME NEW g \in A
        PROVE  /\ g.uid \in C!Uids /\ token < g.etag /\ g.etag = remote[g.uid].etag
               /\ g.gone = (remote[g.uid].state = "gone")
    <3>1. PICK u \in C!Uids :
             /\ IF token = 0 THEN remote[u].state = "live" ELSE remote[u].etag > token
             /\ g = [uid |-> u, etag |-> remote[u].etag, gone |-> remote[u].state = "gone"]
      BY <1>1, <2>3 DEF A, C!Answer
    <3>2. token < remote[u].etag
      BY <1>1, <3>1, CalendarTypes DEF CalendarRows
    <3> QED
      BY <3>1, <3>2
  <2>4. \A g, h \in A : g.uid = h.uid => g = h
    BY DEF A, C!Answer
  <2>5. ASSUME NEW u \in C!Uids, token < remote[u].etag
        PROVE  /\ remote[u].state = "live" =>
                     [uid |-> u, etag |-> remote[u].etag, gone |-> FALSE] \in A
               /\ remote[u].state = "gone" => u \in unlisted' \/
                     [uid |-> u, etag |-> remote[u].etag, gone |-> TRUE] \in A
    <3>1. (IF token = 0 THEN remote[u].state = "live" ELSE remote[u].etag > token)
          => [uid |-> u, etag |-> remote[u].etag, gone |-> remote[u].state = "gone"] \in A
      BY <1>1 DEF A, C!Answer
    <3>2. CASE remote[u].state = "live"
      <4>1. (remote[u].state = "gone") = FALSE
        BY <3>2
      <4> QED
        BY <1>1, <2>5, <3>1, <3>2, <4>1, CalendarTypes
    <3>3. CASE remote[u].state = "gone"
      <4>1. (remote[u].state = "gone") = TRUE
        BY <3>3
      <4>2. token = 0 => u \in unlisted'
        BY <1>1, <1>5, <3>3
      <4> QED
        BY <1>1, <2>5, <3>1, <3>3, <4>1, <4>2, CalendarTypes
    <3> QED
      BY <3>2, <3>3
  <2>6. CalendarAnswer(d)'
    BY <1>0, <1>1, <2>2, <2>3, <2>4, <2>5, CalendarTypes DEF CalendarAnswer, CalendarTold
  <2> QED
    BY <1>4, <1>5, <2>2, <2>6 DEF CalendarListed
<1>6. CASE C!Becomes(r, [c EXCEPT !.at = "applying"])
  <2>1. PICK d \in C!Call :
           /\ d = [c EXCEPT !.at = "applying"]
           /\ d.at = "applying" /\ d.base = c.base /\ d.writes = c.writes
           /\ d.todo = c.todo /\ d.given = c.given /\ d.got = c.got /\ d.next = c.next
    BY <1>1, CalendarListMade
  <2>2. CalendarAnswer(d)'
    BY <1>0, <1>1, <2>1, CalendarTypes DEF CalendarAnswer
  <2> QED
    BY <1>4, <1>6, <2>1, <2>2
<1> QED
  BY <1>5, <1>6 DEF C!List

\* The rows with what a request has pushed.
LEMMA CalendarPushedIs ==
    ASSUME C!TypeOK, CalendarRows, NEW c \in C!Call, CalendarCall(c)
    PROVE  /\ \A x \in C!Rows :
                 /\ C!Pushed(c, x) \in C!Row /\ C!Pushed(c, x).state = local[x].state
                 /\ C!Pushed(c, x).uid = C!Seen(c)[x]
                 /\ c.given[x].uid = 0 => C!Pushed(c, x) = local[x] /\ C!Seen(c)[x] = local[x].uid
                 /\ c.given[x].uid # 0 => C!Seen(c)[x] = c.given[x].uid
                 /\ C!Seen(c)[x] \in C!Uids \cup {0}
                 /\ C!Seen(c)[x] # 0 => remote[C!Seen(c)[x]].state # "none"
                 /\ C!Storable(c) /\ C!Seen(c)[x] # 0 => x \in C!Here
                 /\ local[x].uid # 0 => c.given[x].uid = 0 /\ x \in C!Here
           /\ \A x, y \in C!Rows : C!Seen(c)[x] = C!Seen(c)[y] /\ C!Seen(c)[x] # 0 => x = y
<1>1. ASSUME NEW x \in C!Rows
      PROVE  /\ C!Pushed(c, x) \in C!Row /\ C!Pushed(c, x).state = local[x].state
             /\ C!Pushed(c, x).uid = C!Seen(c)[x]
             /\ c.given[x].uid = 0 => C!Pushed(c, x) = local[x] /\ C!Seen(c)[x] = local[x].uid
             /\ c.given[x].uid # 0 => C!Seen(c)[x] = c.given[x].uid
  <2>1. local[x] \in C!Row /\ c.given[x].uid \in C!Uids \cup {0} /\ c.given[x].etag \in C!Clocks
    BY CalendarTypes, CalendarCallTypes
  <2> DEFINE a == [local[x] EXCEPT !.uid = c.given[x].uid]
             b == [a EXCEPT !.etag = c.given[x].etag]
  <2>2. a \in C!Row /\ a.state = local[x].state /\ a.uid = c.given[x].uid
    BY <2>1 DEF C!Row
  <2>3. b \in C!Row /\ b.state = local[x].state /\ b.uid = c.given[x].uid
    <3> HIDE DEF a
    <3> QED
      BY <2>1, <2>2 DEF C!Row
  <2>4. c.given[x].uid # 0 => C!Pushed(c, x) = b
    BY DEF C!Pushed
  <2>5. c.given[x].uid = 0 => C!Pushed(c, x) = local[x]
    BY DEF C!Pushed
  <2> HIDE DEF b
  <2> QED
    BY <2>1, <2>3, <2>4, <2>5 DEF C!Seen
<1>2. ASSUME NEW x \in C!Rows
      PROVE  /\ C!Seen(c)[x] \in C!Uids \cup {0}
             /\ C!Seen(c)[x] # 0 => remote[C!Seen(c)[x]].state # "none"
             /\ C!Storable(c) /\ C!Seen(c)[x] # 0 => x \in C!Here
             /\ local[x].uid # 0 => c.given[x].uid = 0 /\ x \in C!Here
  BY <1>1, CalendarTypes, CalendarCallTypes
     DEF CalendarRows, CalendarCall, CalendarGiven, C!Storable, C!Here
<1>3. ASSUME NEW x \in C!Rows, NEW y \in C!Rows, C!Seen(c)[x] = C!Seen(c)[y], C!Seen(c)[x] # 0
      PROVE  x = y
  BY <1>1, <1>3 DEF CalendarRows, CalendarCall, CalendarGiven
<1> QED
  BY <1>1, <1>2, <1>3

LEMMA CalendarFails ==
    ASSUME CalendarInv, CalendarOne', NEW r \in Requests, C!Fail(r) \/ C!Abort(r)
    PROVE  CalendarInv'
<1> DEFINE c == ccall[r]
<1>0. /\ c # C!Idle /\ C!Becomes(r, C!Idle)
      /\ UNCHANGED <<remote, clock, token, dropped, unlisted>>
  BY CalendarIdle DEF C!Fail, C!Abort
<1>1. /\ C!TypeOK /\ CalendarRows /\ C!TokenTellsTruth /\ c \in C!Call /\ CalendarCall(c)
      /\ clock \in Nat /\ token \in Nat /\ token \in C!Clocks
  BY <1>0, CalendarBusyCall
<1>2. CASE C!Abort(r)
  <2>1. UNCHANGED local /\ CalendarRows' /\ C!TokenTellsTruth'
    BY <1>0, <1>1, <1>2 DEF C!Abort, CalendarRows, C!TokenTellsTruth, C!Here
  <2> QED
    BY <1>0, <1>1, <2>1, CalendarIdle, CalendarMoves DEF C!TypeOK
<1>3. CASE C!Fail(r)
  <2>1. C!Storable(c) /\ local' = [x \in C!Rows |-> C!Pushed(c, x)]
    BY <1>3 DEF C!Fail, C!Writes, C!Storable
  <2>2. /\ local' \in [C!Rows -> C!Row]
        /\ \A x \in C!Rows : local'[x].state = local[x].state /\ local'[x].uid = C!Seen(c)[x]
    BY <1>1, <2>1, CalendarPushedIs
  <2>3. CalendarRows'
    <3>1. \A x \in C!Rows : local[x].state = "none" => local'[x] = C!NoRow
      BY <1>1, <2>1, CalendarPushedIs DEF CalendarRows, C!Storable, C!Here
    <3> QED
      BY <1>0, <1>1, <2>1, <2>2, <3>1, CalendarPushedIs DEF CalendarRows, C!Here
  <2>4. C!TokenTellsTruth'
    <3> SUFFICES ASSUME NEW u \in C!Uids, remote[u].etag <= token
                 PROVE  /\ remote[u].state = "live" => u \in dropped \/
                              \E x \in C!Here' :
                                 local'[x].uid = u /\ local'[x].etag = remote[u].etag
                        /\ remote[u].state = "gone" =>
                              u \in unlisted \/ \A x \in C!Here' : local'[x].uid # u
      BY <1>0 DEF C!TokenTellsTruth
    <3>1. C!Here' = C!Here
      BY <2>2 DEF C!Here
    <3>2. \A x \in C!Here : local[x].uid = u => local'[x] = local[x]
      BY <1>1, <2>1, CalendarTypes, CalendarPushedIs DEF C!Here
    <3>3. \A x \in C!Here : local'[x].uid = u => local[x].uid = u
      BY <1>1, <2>2, CalendarTypes, CalendarPushedIs DEF C!Here, CalendarCall, CalendarGiven
    <3> QED
      BY <1>1, <3>1, <3>2, <3>3 DEF C!TokenTellsTruth
  <2> QED
    BY <1>0, <1>1, <2>2, <2>3, <2>4, CalendarIdle, CalendarMoves DEF C!TypeOK
<1> QED
  BY <1>2, <1>3

\* The row of a uid, 0 if there is none.
LEMMA CalendarFoundIs ==
    ASSUME NEW c \in C!Call, NEW u \in C!Uids
    PROVE  /\ C!Found(c, u) \in C!Rows \cup {0}
           /\ C!Found(c, u) # 0 => C!Found(c, u) \in C!Here /\ C!Seen(c)[C!Found(c, u)] = u
           /\ \A x \in C!Here : C!Seen(c)[x] = u => C!Found(c, u) # 0
<1> DEFINE S == {x \in C!Here : C!Seen(c)[x] = u}
<1>1. S \in SUBSET Nat /\ S \subseteq C!Rows /\ 0 \notin S
  BY CalendarAssumption DEF C!Here, C!Rows
<1>2. C!Found(c, u) = IF S = {} THEN 0 ELSE C!First(S)
  BY DEF C!Found
<1>3. S # {} => C!First(S) \in S
  BY <1>1, CalendarFirst
<1> QED
  BY <1>1, <1>2, <1>3

CalendarApplied(c, w, F, A) == [c EXCEPT !.at = "saving", !.writes = w, !.found = F, !.got = A]

LEMMA CalendarApplyMade ==
    ASSUME NEW c \in C!Call, NEW w \in BOOLEAN, NEW F \in [C!Uids -> C!Rows \cup {0}],
           NEW A \in SUBSET c.got
    PROVE  \E d \in C!Call :
              /\ d = CalendarApplied(c, w, F, A)
              /\ d.at = "saving" /\ d.base = c.base /\ d.writes = w /\ d.todo = c.todo
              /\ d.given = c.given /\ d.got = A /\ d.next = c.next /\ d.found = F
<1> DEFINE a == [c EXCEPT !.at = "saving"]
           b == [a EXCEPT !.writes = w]
           e == [b EXCEPT !.found = F]
           d == [e EXCEPT !.got = A]
<1>1. a \in C!Call /\ a.at = "saving" /\ a.base = c.base /\ a.got = c.got
      /\ a.todo = c.todo /\ a.given = c.given /\ a.next = c.next
  BY DEF C!Call
<1>2. b \in C!Call /\ b.at = "saving" /\ b.base = c.base /\ b.writes = w /\ b.got = c.got
      /\ b.todo = c.todo /\ b.given = c.given /\ b.next = c.next
  <2> HIDE DEF a
  <2> QED
    BY <1>1 DEF C!Call
<1>3. e \in C!Call /\ e.at = "saving" /\ e.base = c.base /\ e.writes = w /\ e.got = c.got
      /\ e.todo = c.todo /\ e.given = c.given /\ e.next = c.next /\ e.found = F
  <2> HIDE DEF b
  <2> QED
    BY <1>2 DEF C!Call
<1>4. d \in C!Call /\ d.at = "saving" /\ d.base = c.base /\ d.writes = w /\ d.got = A
      /\ d.todo = c.todo /\ d.given = c.given /\ d.next = c.next /\ d.found = F
  <2>1. A \in SUBSET [uid : C!Uids, etag : C!Clocks, gone : BOOLEAN]
    BY DEF C!Call
  <2> HIDE DEF e
  <2> QED
    BY <1>3, <2>1 DEF C!Call
<1>5. d = CalendarApplied(c, w, F, A)
  BY DEF CalendarApplied
<1> QED
  BY <1>4, <1>5

LEMMA CalendarApplies ==
    ASSUME CalendarInv, CalendarOne', NEW r \in Requests, C!Apply(r)
    PROVE  CalendarInv'
<1> DEFINE c == ccall[r]
           A == {g \in c.got : ~C!Unchanged(c, g)}
           F == [u \in C!Uids |-> C!Found(c, u)]
<1>0. /\ c # C!Idle /\ c.at = "applying" /\ C!Storable(c)
      /\ UNCHANGED <<remote, clock, local, token, dropped, unlisted>>
  BY CalendarIdle DEF C!Apply, C!Writes, C!Storable
<1>1. /\ C!TypeOK /\ CalendarRows /\ C!TokenTellsTruth /\ c \in C!Call /\ CalendarCall(c)
      /\ clock \in Nat /\ token \in Nat /\ token \in C!Clocks /\ c.base = token
      /\ CalendarAnswer(c)
  BY <1>0, CalendarBusyCall DEF CalendarCall
<1>2. CalendarRows' /\ C!TokenTellsTruth'
  BY <1>0, <1>1 DEF CalendarRows, C!TokenTellsTruth, C!Here
<1>3. PICK d \in C!Call :
         /\ d = CalendarApplied(c, C!Writes(c), F, A)
         /\ d.at = "saving" /\ d.base = c.base /\ d.writes = C!Writes(c) /\ d.todo = c.todo
         /\ d.given = c.given /\ d.got = A /\ d.next = c.next /\ d.found = F
  <2>1. C!Writes(c) \in BOOLEAN
    BY DEF C!Writes
  <2>2. F \in [C!Uids -> C!Rows \cup {0}] /\ A \in SUBSET c.got
    BY <1>1, CalendarFoundIs
  <2> HIDE DEF A, F
  <2> QED
    BY <1>1, <2>1, <2>2, CalendarApplyMade
<1>4. C!Becomes(r, d)
  BY <1>3 DEF C!Apply, CalendarApplied
<1>5. \A x \in C!Rows : C!Seen(d)[x] = C!Seen(c)[x] /\ C!Pushed(d, x) = C!Pushed(c, x)
  BY <1>3 DEF C!Seen, C!Pushed
<1>6. CalendarFound(d)'
  <2>1. \A u \in C!Uids, x \in C!Here : C!Seen(c)[x] = u <=> C!Found(c, u) = x
    BY <1>1, CalendarTypes, CalendarFoundIs, CalendarPushedIs DEF C!Here
  <2>2. \A u \in C!Uids : C!Found(c, u) # 0 => local[C!Found(c, u)].state # "none"
    BY <1>1, CalendarFoundIs DEF C!Here
  <2>3. C!Storable(d)
    BY <1>0, <1>3 DEF C!Storable
  <2>4. \A u \in C!Uids : d.found[u] = C!Found(c, u)
    BY <1>3
  <2>5. CalendarFound(d)
    BY <1>5, <2>1, <2>2, <2>3, <2>4 DEF CalendarFound, C!Here
  <2> QED
    BY <1>0, <2>5 DEF CalendarFound, C!Here, C!Seen, C!Storable
<1>7. CalendarAnswer(d)'
  <2>1. \A g, h \in d.got : g \in c.got /\ h \in c.got
    BY <1>3
  <2>2. ASSUME NEW u \in C!Uids, CalendarTold(c, u) PROVE CalendarTold(d, u)'
    <3> DEFINE g == [uid |-> u, etag |-> remote[u].etag, gone |-> FALSE]
    <3>1. g \in c.got
      BY <1>0, <2>2 DEF CalendarTold
    <3>2. CASE C!Unchanged(c, g)
      <4>1. C!Found(c, u) # 0 /\ C!Pushed(c, C!Found(c, u)).etag = remote[u].etag
        BY <3>2 DEF C!Unchanged
      <4>2. C!Found(c, u) \in C!Here /\ C!Seen(c)[C!Found(c, u)] = u /\ C!Found(c, u) \in C!Rows
        BY <1>1, <4>1, CalendarFoundIs
      <4>3. \E x \in C!Here : C!Seen(d)[x] = u /\ C!Pushed(d, x).etag = remote[u].etag
        BY <1>5, <4>1, <4>2
      <4>4. /\ C!Here' = C!Here /\ C!Here \subseteq C!Rows /\ remote' = remote
            /\ \A x \in C!Rows : (C!Seen(d)[x])' = C!Seen(d)[x] /\ C!Pushed(d, x)' = C!Pushed(d, x)
        BY <1>0 DEF C!Here, C!Seen, C!Pushed
      <4> QED
        BY <1>3, <4>3, <4>4 DEF CalendarTold
    <3>3. CASE ~C!Unchanged(c, g)
      BY <1>0, <1>3, <3>1, <3>3 DEF CalendarTold
    <3> QED
      BY <3>2, <3>3
  <2>3. ASSUME NEW u \in C!Uids, [uid |-> u, etag |-> remote[u].etag, gone |-> TRUE] \in c.got
        PROVE  [uid |-> u, etag |-> remote[u].etag, gone |-> TRUE] \in d.got
    <3>1. ~C!Unchanged(c, [uid |-> u, etag |-> remote[u].etag, gone |-> TRUE])
      BY DEF C!Unchanged
    <3> QED
      BY <1>3, <2>3, <3>1
  <2>4. \A u \in C!Uids : token < remote[u].etag /\ remote[u].etag <= d.next =>
           /\ remote[u].state = "live" => CalendarTold(d, u)'
           /\ remote[u].state = "gone" => u \in unlisted \/
                  [uid |-> u, etag |-> remote[u].etag, gone |-> TRUE] \in d.got
    BY <1>1, <1>3, <2>2, <2>3 DEF CalendarAnswer
  <2>5. /\ d.next <= clock
        /\ \A g \in d.got :
              /\ token < g.etag /\ g.etag <= remote[g.uid].etag
              /\ remote[g.uid].etag <= d.next =>
                    g.etag = remote[g.uid].etag /\ g.gone = (remote[g.uid].state = "gone")
        /\ \A g, h \in d.got : g.uid = h.uid => g = h
    BY <1>1, <1>3, <2>1 DEF CalendarAnswer
  <2> QED
    BY <1>0, <2>4, <2>5 DEF CalendarAnswer
<1>8. CalendarCall(d)'
  <2>1. d.given = c.given
    BY <1>3
  <2>2. C!Writes(d) = C!Writes(c) /\ C!Writes(d)' = C!Writes(d)
    BY <2>1 DEF C!Writes
  <2>3. CalendarGiven(d)'
    BY <1>0, <1>1, <2>1 DEF CalendarCall, CalendarGiven
  <2>4. d.at = "saving" /\ d.base = token /\ d.todo = c.todo /\ d.writes = C!Writes(d)'
    BY <1>1, <1>3, <2>2
  <2>6. d.writes = (d.at = "saving" /\ C!Writes(d)')
    BY <2>4 DEF C!Writes
  <2>5. \A x \in d.todo : local[x].state # "none" /\ local[x].uid = 0 /\ d.given[x].uid = 0
    BY <1>1, <2>1, <2>4 DEF CalendarCall
  <2> QED
    BY <1>0, <1>6, <1>7, <2>3, <2>4, <2>5, <2>6 DEF CalendarCall
<1> QED
  BY <1>0, <1>1, <1>2, <1>4, <1>8, CalendarMoves DEF C!TypeOK

\* What the answer says of a row, and what becomes of it.
CalendarSaid(c, x) == {g \in c.got : c.found[g.uid] = x}

LEMMA CalendarTakenIs ==
    ASSUME C!TypeOK, CalendarRows, NEW c \in C!Call, CalendarCall(c),
           c.at = "saving", C!Storable(c),
           \A g \in c.got : ~g.gone /\ c.found[g.uid] # 0 => c.found[g.uid] \in C!Here,
           NEW x \in C!Rows
    PROVE  /\ C!Taken(c, x) \in C!Row
           /\ \/ CalendarSaid(c, x) = {} /\ C!Taken(c, x) = C!Pushed(c, x)
              \/ /\ \E g \in CalendarSaid(c, x) : g.gone
                 /\ local[x].state # "none"
                 /\ C!Taken(c, x).state = "gone" /\ C!Taken(c, x).uid = 0
              \/ \E g \in CalendarSaid(c, x) :
                    /\ ~g.gone /\ x \in C!Here /\ CalendarSaid(c, x) = {g}
                    /\ C!Seen(c)[x] = g.uid /\ C!Taken(c, x).state = "here"
                    /\ C!Taken(c, x).uid = g.uid /\ C!Taken(c, x).etag = g.etag
<1> DEFINE said == CalendarSaid(c, x)
<1>1. C!Taken(c, x) = CASE said = {} -> C!Pushed(c, x)
                      [] \E g \in said : g.gone -> [C!NoRow EXCEPT !.state = "gone"]
                      [] OTHER -> [C!Pushed(c, x) EXCEPT !.etag = (CHOOSE g \in said : TRUE).etag]
  BY DEF C!Taken, CalendarSaid
<1>2. /\ C!Pushed(c, x) \in C!Row /\ C!Pushed(c, x).state = local[x].state
      /\ C!Pushed(c, x).uid = C!Seen(c)[x]
  BY CalendarPushedIs
<1>3. \A g \in said : /\ g \in c.got /\ c.found[g.uid] = x
                   /\ g.uid \in C!Uids /\ g.etag \in C!Clocks /\ g.gone \in BOOLEAN
  BY CalendarCallTypes DEF CalendarSaid
<1>4. CASE said = {}
  BY <1>1, <1>2, <1>4
<1>5. CASE \E g \in said : g.gone
  <2>1. said # {} /\ C!Taken(c, x) = [C!NoRow EXCEPT !.state = "gone"]
    BY <1>1, <1>5
  <2>2. C!Taken(c, x) \in C!Row /\ C!Taken(c, x).state = "gone" /\ C!Taken(c, x).uid = 0
    BY <2>1, CalendarAssumption DEF C!NoRow, C!Row, C!Clocks
  <2>3. local[x].state # "none"
    BY <1>3, <1>5, CalendarTypes DEF CalendarCall, CalendarFound
  <2> QED
    BY <1>5, <2>2, <2>3
<1>6. CASE said # {} /\ \A g \in said : ~g.gone
  <2>1. PICK g \in said : g = CHOOSE h \in said : TRUE
    BY <1>6
  <2>2. C!Taken(c, x) = [C!Pushed(c, x) EXCEPT !.etag = g.etag]
    BY <1>1, <1>6, <2>1
  <2>3. x \in C!Here
    BY <1>3, <1>6, <2>1, CalendarTypes
  <2>4. \A h \in said : C!Seen(c)[x] = h.uid
    BY <1>3, <2>3 DEF CalendarCall, CalendarFound
  <2>5. said = {g}
    BY <1>3, <2>1, <2>4 DEF CalendarCall, CalendarAnswer
  <2>6. /\ C!Taken(c, x) \in C!Row /\ C!Taken(c, x).state = local[x].state
        /\ C!Taken(c, x).uid = C!Seen(c)[x] /\ C!Taken(c, x).etag = g.etag
    BY <1>2, <1>3, <2>1, <2>2 DEF C!Row
  <2>7. ~g.gone /\ C!Seen(c)[x] = g.uid /\ C!Taken(c, x).state = "here"
    BY <1>6, <2>1, <2>3, <2>4, <2>6 DEF C!Here
  <2> QED
    BY <2>1, <2>3, <2>5, <2>6, <2>7
<1> QED
  BY <1>4, <1>5, <1>6

\* The rows after a synchronisation.  f gives the new events their rows.
LEMMA CalendarSaved ==
    ASSUME C!TypeOK, CalendarRows, NEW c \in C!Call, CalendarCall(c),
           c.at = "saving", C!Storable(c),
           \A g \in c.got : ~g.gone /\ c.found[g.uid] # 0 => c.found[g.uid] \in C!Here,
           NEW f \in [C!New(c) -> C!Unused], \A g, h \in C!New(c) : f[g] = f[h] => g = h,
           local' = [x \in C!Rows |->
                IF \E g \in C!New(c) : f[g] = x
                  THEN LET g == CHOOSE g \in C!New(c) : f[g] = x
                       IN  [state |-> "here", uid |-> g.uid, etag |-> g.etag]
                  ELSE C!Taken(c, x)]
    PROVE  /\ local' \in [C!Rows -> C!Row]
           /\ \A g \in C!New(c) : f[g] \in C!Unused /\ local'[f[g]].state = "here"
                                  /\ local'[f[g]].uid = g.uid /\ local'[f[g]].etag = g.etag
           /\ \A x \in C!Rows : (\A g \in C!New(c) : f[g] # x) => local'[x] = C!Taken(c, x)
<1>1. ASSUME NEW g \in C!New(c)
      PROVE  /\ f[g] \in C!Rows /\ f[g] \in C!Unused
             /\ local'[f[g]] = [state |-> "here", uid |-> g.uid, etag |-> g.etag]
  <2>1. f[g] \in C!Rows /\ f[g] \in C!Unused
    BY DEF C!Unused
  <2>2. PICK h \in C!New(c) : f[h] = f[g] /\ h = CHOOSE k \in C!New(c) : f[k] = f[g]
    OBVIOUS
  <2>3. h = g
    BY <2>2
  <2> QED
    BY <2>1, <2>2, <2>3
<1>2. \A x \in C!Rows : (\A g \in C!New(c) : f[g] # x) => local'[x] = C!Taken(c, x)
  OBVIOUS
<1>3. ASSUME NEW x \in C!Rows PROVE local'[x] \in C!Row
  <2>1. CASE \E g \in C!New(c) : f[g] = x
    <3>1. \A g \in C!New(c) : g.uid \in C!Uids /\ g.etag \in C!Clocks
      BY CalendarCallTypes DEF C!New
    <3> QED
      BY <1>1, <2>1, <3>1 DEF C!Row
  <2>2. CASE \A g \in C!New(c) : f[g] # x
    BY <1>2, <2>2, CalendarTakenIs
  <2> QED
    BY <2>1, <2>2
<1>4. local' \in [C!Rows -> C!Row]
  BY <1>3
<1> QED
  BY <1>1, <1>2, <1>4
LEMMA CalendarSaves ==
    ASSUME CalendarInv, CalendarOne', NEW r \in Requests, C!Save(r)
    PROVE  CalendarInv'
<1> DEFINE c == ccall[r]
<1>0. /\ c # C!Idle /\ c.at = "saving" /\ C!Storable(c) /\ C!Becomes(r, C!Idle)
      /\ \A g \in c.got : ~g.gone /\ c.found[g.uid] # 0 => c.found[g.uid] \in C!Here
      /\ token' = IF c.next = c.base THEN token ELSE c.next
      /\ UNCHANGED <<remote, clock, dropped, unlisted>>
  BY CalendarIdle DEF C!Save
<1>1. /\ C!TypeOK /\ CalendarRows /\ C!TokenTellsTruth /\ c \in C!Call /\ CalendarCall(c)
      /\ clock \in Nat /\ token \in Nat /\ CalendarAnswer(c) /\ CalendarFound(c)
      /\ CalendarGiven(c)
  BY <1>0, CalendarBusyCall DEF CalendarCall
<1>2. token' = c.next /\ token' \in C!Clocks /\ token' <= clock /\ token' \in Nat
  BY <1>0, <1>1, CalendarCallTypes DEF CalendarCall, CalendarAnswer
<1>3. PICK f \in [C!New(c) -> C!Unused] :
         /\ \A g, h \in C!New(c) : f[g] = f[h] => g = h
         /\ local' = [x \in C!Rows |->
               IF \E g \in C!New(c) : f[g] = x
                 THEN LET g == CHOOSE g \in C!New(c) : f[g] = x
                      IN  [state |-> "here", uid |-> g.uid, etag |-> g.etag]
                 ELSE C!Taken(c, x)]
  BY DEF C!Save
<1>4. /\ local' \in [C!Rows -> C!Row]
      /\ \A g \in C!New(c) : f[g] \in C!Unused /\ local'[f[g]].state = "here"
                             /\ local'[f[g]].uid = g.uid /\ local'[f[g]].etag = g.etag
      /\ \A x \in C!Rows : (\A g \in C!New(c) : f[g] # x) => local'[x] = C!Taken(c, x)
  BY <1>0, <1>1, <1>3, CalendarSaved
<1>5. \A g \in c.got : /\ g.uid \in C!Uids /\ g.etag \in Nat /\ token < g.etag
                       /\ g.etag <= remote[g.uid].etag /\ remote[g.uid].state # "none"
  BY <1>1, CalendarTypes, CalendarCallTypes DEF CalendarAnswer, CalendarRows
\* A row is new, as it was pushed, gone, or as the answer has it.
<1>6. ASSUME NEW x \in C!Rows
      PROVE  \/ \E g \in C!New(c) : /\ f[g] = x /\ local[x].state = "none"
                                    /\ local'[x].state = "here" /\ local'[x].uid = g.uid
                                    /\ local'[x].etag = g.etag
             \/ CalendarSaid(c, x) = {} /\ local'[x] = C!Pushed(c, x)
             \/ /\ \E g \in CalendarSaid(c, x) : g.gone
                /\ local[x].state # "none" /\ local'[x].state = "gone" /\ local'[x].uid = 0
             \/ \E g \in CalendarSaid(c, x) :
                   /\ ~g.gone /\ x \in C!Here /\ CalendarSaid(c, x) = {g}
                   /\ C!Seen(c)[x] = g.uid /\ local'[x].state = "here"
                   /\ local'[x].uid = g.uid /\ local'[x].etag = g.etag
  <2>1. CASE \E g \in C!New(c) : f[g] = x
    BY <1>4, <2>1 DEF C!Unused
  <2>2. CASE \A g \in C!New(c) : f[g] # x
    BY <1>0, <1>1, <1>4, <2>2, CalendarTakenIs
  <2> QED
    BY <2>1, <2>2
<1>7. ASSUME NEW x \in C!Rows, local'[x].uid # 0
      PROVE  /\ local'[x].uid \in C!Uids /\ remote[local'[x].uid].state # "none"
             /\ local'[x].state = "here"
             /\ \/ \E g \in C!New(c) : f[g] = x /\ local'[x].uid = g.uid
                \/ x \in C!Here /\ C!Seen(c)[x] = local'[x].uid
  <2>1. CASE \E g \in C!New(c) : f[g] = x
    BY <1>4, <1>5, <2>1 DEF C!New
  <2>2. CASE local'[x] = C!Pushed(c, x)
    BY <1>0, <1>1, <1>7, <2>2, CalendarTypes, CalendarPushedIs DEF C!Here
  <2>3. ASSUME NEW g \in CalendarSaid(c, x), x \in C!Here, C!Seen(c)[x] = g.uid,
               local'[x].state = "here", local'[x].uid = g.uid
        PROVE  /\ local'[x].uid \in C!Uids /\ remote[local'[x].uid].state # "none"
               /\ local'[x].state = "here" /\ x \in C!Here /\ C!Seen(c)[x] = local'[x].uid
    BY <1>5, <2>3 DEF CalendarSaid
  <2> QED
    BY <1>6, <1>7, <2>1, <2>2, <2>3
<1>8. ASSUME NEW g \in C!New(c), NEW x \in C!Rows, x \in C!Here, C!Seen(c)[x] = g.uid PROVE FALSE
  BY <1>1, <1>5, <1>8, CalendarTypes DEF C!New, CalendarFound
<1>9. CalendarRows'
  <2>1. ASSUME NEW x \in C!Rows
        PROVE  /\ local'[x].state = "none" => local'[x] = C!NoRow
               /\ local'[x].state # "here" => local'[x].uid = 0
               /\ local'[x].uid # 0 => remote[local'[x].uid].state # "none"
    <3>1. CASE local'[x] = C!Pushed(c, x)
      BY <1>0, <1>1, <1>7, <3>1, CalendarPushedIs DEF CalendarRows, C!Storable, C!Here
    <3>2. local'[x] # C!Pushed(c, x) => local'[x].state # "none"
      BY <1>6
    <3> QED
      BY <1>7, <3>1, <3>2
  <2>2. ASSUME NEW x \in C!Rows, NEW y \in C!Rows,
               local'[x].uid = local'[y].uid, local'[x].uid # 0
        PROVE  x = y
    <3>1. CASE /\ x \in C!Here /\ y \in C!Here
               /\ C!Seen(c)[x] = local'[x].uid /\ C!Seen(c)[y] = local'[x].uid
      BY <1>1, <2>2, <3>1, CalendarPushedIs
    <3>2. ASSUME NEW g \in C!New(c), NEW h \in C!New(c), f[g] = x, f[h] = y,
                 local'[x].uid = g.uid, local'[y].uid = h.uid
          PROVE  x = y
      BY <1>1, <2>2, <3>2 DEF C!New, CalendarAnswer
    <3> QED
      BY <1>7, <1>8, <2>2, <3>1, <3>2
  <2> QED
    BY <1>0, <1>1, <1>2, <2>1, <2>2 DEF CalendarRows
<1>10. C!TokenTellsTruth'
  <2> SUFFICES ASSUME NEW u \in C!Uids, remote[u].etag <= c.next
               PROVE  /\ remote[u].state = "live" => u \in dropped \/
                            \E x \in C!Here' :
                               local'[x].uid = u /\ local'[x].etag = remote[u].etag
                      /\ remote[u].state = "gone" =>
                            u \in unlisted \/ \A x \in C!Here' : local'[x].uid # u
    BY <1>0, <1>2 DEF C!TokenTellsTruth
  <2>0. u # 0 /\ remote[u].etag \in Nat
    BY <1>1, CalendarTypes
  <2>1. CASE remote[u].etag <= token
    <3>1. \A g \in c.got : g.uid # u
      BY <1>1, <1>5, <2>0, <2>1
    <3>2. \A x \in C!Rows : c.given[x].uid # u
      BY <1>1, <2>0, <2>1 DEF CalendarGiven
    <3>3. ASSUME NEW x \in C!Here, local[x].uid = u
          PROVE  x \in C!Here' /\ local'[x] = local[x]
      <4>1. c.given[x].uid = 0 /\ C!Pushed(c, x) = local[x] /\ C!Seen(c)[x] = u /\ x \in C!Rows
        BY <1>1, <2>0, <3>3, CalendarPushedIs DEF C!Here
      <4>2. CalendarSaid(c, x) = {}
        BY <1>1, <1>5, <3>1, <4>1 DEF CalendarSaid, CalendarFound
      <4>3. local[x].state # "none"
        BY DEF C!Here
      <4>4. local'[x] = C!Pushed(c, x)
        BY <1>6, <4>1, <4>2, <4>3
      <4> QED
        BY <4>1, <4>4 DEF C!Here
    <3>4. ASSUME NEW x \in C!Here', local'[x].uid = u PROVE x \in C!Here /\ local[x].uid = u
      <4>1. x \in C!Rows
        BY DEF C!Here
      <4>2. x \in C!Here /\ C!Seen(c)[x] = u
        BY <1>7, <2>0, <3>1, <3>4, <4>1 DEF C!New
      <4>3. c.given[x].uid = 0
        BY <1>1, <2>0, <3>2, <4>1, <4>2, CalendarPushedIs
      <4> QED
        BY <1>1, <4>1, <4>2, <4>3, CalendarPushedIs
    <3>5. /\ remote[u].state = "live" => u \in dropped \/
                \E x \in C!Here : local[x].uid = u /\ local[x].etag = remote[u].etag
          /\ remote[u].state = "gone" => u \in unlisted \/ \A x \in C!Here : local[x].uid # u
      BY <1>1, <2>1 DEF C!TokenTellsTruth
    <3> QED
      BY <3>3, <3>4, <3>5
  <2>2. CASE token < remote[u].etag
    <3> DEFINE live == [uid |-> u, etag |-> remote[u].etag, gone |-> FALSE]
               gone == [uid |-> u, etag |-> remote[u].etag, gone |-> TRUE]
    <3>1. ASSUME remote[u].state = "live", live \in c.got
          PROVE  \E x \in C!Here' : local'[x].uid = u /\ local'[x].etag = remote[u].etag
      <4>1. CASE c.found[u] = 0
        <5>1. live \in C!New(c)
          BY <3>1, <4>1 DEF C!New
        <5> QED
          BY <1>4, <5>1 DEF C!Here, C!Unused
      <4>2. CASE c.found[u] # 0
        <5> DEFINE x == c.found[u]
        <5>1. x \in C!Here /\ x \in C!Rows /\ C!Seen(c)[x] = u /\ local[x].state = "here"
          BY <1>0, <1>1, <3>1, <4>2 DEF CalendarFound, C!Here
        <5>2. live \in CalendarSaid(c, x)
          BY <3>1 DEF CalendarSaid
        <5>3. \A g \in CalendarSaid(c, x) : g = live
          BY <1>1, <1>5, <3>1, <5>1 DEF CalendarSaid, CalendarFound, CalendarAnswer
        <5>4. local'[x].state = "here" /\ local'[x].uid = u /\ local'[x].etag = remote[u].etag
          BY <1>6, <5>1, <5>2, <5>3
        <5> QED
          BY <5>1, <5>4 DEF C!Here
      <4> QED
        BY <4>1, <4>2
    <3>2. ASSUME remote[u].state = "live", NEW x \in C!Here, C!Seen(c)[x] = u,
                 C!Pushed(c, x).etag = remote[u].etag
          PROVE  \E y \in C!Here' : local'[y].uid = u /\ local'[y].etag = remote[u].etag
      <4>1. x \in C!Rows /\ local[x].state = "here"
        BY DEF C!Here
      <4>2. ASSUME NEW g \in CalendarSaid(c, x)
            PROVE  g.uid = u /\ g.etag = remote[u].etag /\ ~g.gone
        <5>1. g \in c.got /\ g.uid = u
          BY <1>1, <1>5, <3>2, <4>1 DEF CalendarSaid, CalendarFound
        <5>2. g.etag = remote[u].etag /\ g.gone = (remote[u].state = "gone")
          BY <1>1, <5>1 DEF CalendarAnswer
        <5>3. (remote[u].state = "gone") = FALSE
          BY <3>2
        <5> QED
          BY <5>1, <5>2, <5>3
      <4>3. C!Pushed(c, x).state = "here" /\ C!Pushed(c, x).uid = u
        BY <1>1, <3>2, <4>1, CalendarPushedIs
      <4>4. local'[x].state = "here" /\ local'[x].uid = u /\ local'[x].etag = remote[u].etag
        BY <1>6, <3>2, <4>1, <4>2, <4>3
      <4> QED
        BY <4>1, <4>4 DEF C!Here
    <3>3. ASSUME gone \in c.got, NEW x \in C!Here', local'[x].uid = u PROVE FALSE
      <4>1. x \in C!Rows /\ local'[x].state = "here"
        BY DEF C!Here
      <4>2. \A g \in c.got : g.uid = u => g = gone
        BY <1>1, <3>3 DEF CalendarAnswer
      <4>3. x \in C!Here /\ C!Seen(c)[x] = u
        BY <1>7, <2>0, <3>3, <4>1, <4>2 DEF C!New
      <4>4. gone \in CalendarSaid(c, x)
        BY <1>1, <3>3, <4>1, <4>3 DEF CalendarSaid, CalendarFound
      <4>5. \A g \in C!New(c) : f[g] # x
        BY <1>4, <4>3 DEF C!Unused, C!Here
      <4> QED
        BY <1>6, <4>1, <4>4, <4>5
    <3>4. remote[u].state = "live" => CalendarTold(c, u)
      BY <1>1, <2>2 DEF CalendarAnswer
    <3>5. remote[u].state = "gone" => u \in unlisted \/ gone \in c.got
      BY <1>1, <2>2 DEF CalendarAnswer
    <3> QED
      BY <3>1, <3>2, <3>3, <3>4, <3>5 DEF CalendarTold
  <2> QED
    BY <1>1, <2>0, <2>1, <2>2
<1> QED
  BY <1>0, <1>1, <1>2, <1>4, <1>9, <1>10, CalendarIdle, CalendarMoves DEF C!TypeOK

LEMMA CalendarInvKept ==
    ASSUME CalendarInv, CalendarStep
    PROVE  CalendarInv'
<1>1. CalendarOne'
  BY CalendarOneAfter DEF CalendarStep
<1> QED
  BY <1>1, CalendarProvider, CalendarPeople, CalendarBegins, CalendarPushes, CalendarLists,
     CalendarApplies, CalendarSaves, CalendarFails DEF CalendarStep, C!Work
LEMMA CalendarStill ==
    ASSUME CalendarInv, UNCHANGED C!vars
    PROVE  CalendarInv'
<1>1. \A r \in Requests : ccall'[r] = ccall[r]
  BY DEF C!vars
<1>2. C!TypeOK' /\ CalendarOne' /\ CalendarRows' /\ C!TokenTellsTruth'
  BY DEF C!vars, CalendarInv, C!TypeOK, CalendarOne, CalendarBusy, CalendarRows, C!TokenTellsTruth,
         C!Here
<1>3. ASSUME NEW r \in CalendarBusy' PROVE CalendarCall(ccall[r])'
  <2>1. r \in CalendarBusy /\ CalendarCall(ccall[r])
    BY <1>1, <1>3 DEF CalendarBusy, CalendarInv
  <2>2. CalendarGiven(ccall[r])'
    BY <2>1 DEF C!vars, CalendarCall, CalendarGiven
  <2>3. CalendarAnswer(ccall[r]) => CalendarAnswer(ccall[r])'
    BY DEF C!vars, CalendarAnswer, CalendarTold, C!Here, C!Seen, C!Pushed
  <2>4. CalendarFound(ccall[r]) => CalendarFound(ccall[r])'
    BY DEF C!vars, CalendarFound, C!Here, C!Seen, C!Storable
  <2> QED
    BY <2>1, <2>2, <2>3, <2>4 DEF C!vars, CalendarCall, C!Writes
<1> QED
  BY <1>2, <1>3 DEF CalendarInv

-----------------------------------------------------------------------------
\* A calm server

\* What a synchronisation that ends makes of a row.
LEMMA CalendarKept ==
    ASSUME CalendarInv, NEW r \in Requests, C!Save(r) \/ C!Fail(r),
           NEW x \in C!Rows, local[x].state # "none"
    PROVE  \/ local'[x].state = "gone"
           \/ local[x].state # "gone" /\ local'[x].uid = C!Seen(ccall[r])[x]
<1> DEFINE c == ccall[r]
<1>0. c # C!Idle /\ C!Storable(c)
  BY CalendarIdle DEF C!Save, C!Fail, C!Writes, C!Storable
<1>1. C!TypeOK /\ CalendarRows /\ c \in C!Call /\ CalendarCall(c)
  BY <1>0, CalendarBusyCall
<1>2. C!Pushed(c, x).state = local[x].state /\ C!Pushed(c, x).uid = C!Seen(c)[x]
  BY <1>1, CalendarPushedIs
<1>3. CASE C!Fail(r)
  BY <1>2, <1>3 DEF C!Fail
<1>4. CASE C!Save(r)
  <2>1. /\ c.at = "saving"
        /\ \A g \in c.got : ~g.gone /\ c.found[g.uid] # 0 => c.found[g.uid] \in C!Here
    BY <1>4 DEF C!Save
  <2>2. PICK f \in [C!New(c) -> C!Unused] :
           /\ \A g, h \in C!New(c) : f[g] = f[h] => g = h
           /\ local' = [y \in C!Rows |->
                 IF \E g \in C!New(c) : f[g] = y
                   THEN LET g == CHOOSE g \in C!New(c) : f[g] = y
                        IN  [state |-> "here", uid |-> g.uid, etag |-> g.etag]
                   ELSE C!Taken(c, y)]
    BY <1>4 DEF C!Save
  <2>3. local'[x] = C!Taken(c, x)
    BY <2>2 DEF C!Unused
  <2>4. \/ C!Taken(c, x) = C!Pushed(c, x)
        \/ C!Taken(c, x).state = "gone"
        \/ x \in C!Here /\ C!Taken(c, x).uid = C!Seen(c)[x]
    BY <1>0, <1>1, <2>1, CalendarTakenIs
  <2> QED
    BY <1>2, <2>3, <2>4 DEF C!Here
<1> QED
  BY <1>3, <1>4

\* No row of a calm server that has not been there has been pushed.
LEMMA CalendarCalmRows ==
    ASSUME CalendarInv, CalendarCalm, NEW u \in C!Uids, NEW x \in C!Rows, remote[u].from = x
    PROVE  /\ local[x].state # "none"
           /\ \A r \in Requests : x \notin ccall[r].todo
           /\ \/ local[x].uid = u \/ local[x].state = "gone"
              \/ \E r \in CalendarBusy : ccall[r].given[x].uid = u
<1>1. u # 0 /\ C!TypeOK /\ CalendarRows
  BY CalendarTypes DEF CalendarInv
<1>2. \/ local[x].uid = u \/ local[x].state = "gone"
      \/ \E r \in CalendarBusy : ccall[r].given[x].uid = u
  BY <1>1, CalendarIdle DEF CalendarCalm, CalendarFrom, CalendarBusy
<1>3. local[x].state # "none"
  BY <1>1, <1>2, CalendarTypes DEF CalendarRows, CalendarCalm, CalendarBusy
<1>4. ASSUME NEW r \in Requests, x \in ccall[r].todo PROVE FALSE
  <2>1. ccall[r] # C!Idle
    BY <1>4, CalendarIdle
  <2>2. local[x].uid = 0 /\ ccall[r].given[x].uid = 0 /\ local[x].state = "here"
    BY <1>4, <2>1, CalendarBusyCall DEF CalendarCall, CalendarCalm
  <2>3. \A q \in CalendarBusy : q = r
    BY <2>1 DEF CalendarInv, CalendarOne, CalendarBusy
  <2> QED
    BY <1>1, <1>2, <2>2, <2>3
<1> QED
  BY <1>2, <1>3, <1>4

LEMMA CalendarCalmKept ==
    ASSUME CalendarInv, CalendarCalm, CalendarCalmStep
    PROVE  CalendarCalm'
<1>0. /\ C!TypeOK /\ CalendarRows
      /\ \A r \in Requests : ccall[r] \in C!Call
      /\ \A u, v \in C!Uids : remote[u].from = remote[v].from /\ remote[u].from # 0 => u = v
  BY CalendarTypes DEF CalendarInv, CalendarCalm
<1>1. CASE C!ProviderChanges
  <2>1. PICK u \in C!Uids, state \in {"live", "gone"} : C!Changed(u, state)
    <3>1. C!Free # {} => C!First(C!Free) \in C!Uids
      BY CalendarFirst DEF C!Free, C!Uids
    <3> QED
      BY <1>1, <3>1 DEF C!ProviderChanges
  <2> DEFINE e == [remote[u] EXCEPT !.state = state]
             f == [e EXCEPT !.etag = clock + 1]
  <2>2. f.from = remote[u].from
    BY <1>0, CalendarTypes DEF C!Remote
  <2>3. remote' = [remote EXCEPT ![u] = f]
    BY <1>0, <2>1 DEF C!Changed, C!TypeOK
  <2> HIDE DEF f
  <2>4. \A v \in C!Uids : remote'[v].from = remote[v].from
    BY <1>0, <2>2, <2>3 DEF C!TypeOK
  <2>5. UNCHANGED <<local, ccall>>
    BY <1>1 DEF C!ProviderChanges
  <2> QED
    BY <2>4, <2>5 DEF CalendarCalm, CalendarFrom
<1>2. CASE C!CreateEvent
  <2>1. PICK x \in C!Rows : local[x].state = "none" /\ local' = [local EXCEPT ![x].state = "here"]
    <3>1. C!Unused \in SUBSET Nat /\ C!Unused # {}
      BY <1>2 DEF C!CreateEvent, C!Unused, C!Rows
    <3>2. C!First(C!Unused) \in C!Unused
      BY <3>1, CalendarFirst
    <3> QED
      BY <1>2, <3>2 DEF C!CreateEvent, C!Unused
  <2>2. \A u \in C!Uids : remote[u].from # x
    BY <2>1, CalendarCalmRows
  <2>3. \A y \in C!Rows \ {x} : local'[y] = local[y]
    BY <1>0, <2>1 DEF C!TypeOK
  <2>4. local'[x].state = "here"
    BY <1>0, <2>1, CalendarTypes DEF C!TypeOK, C!Row
  <2>5. UNCHANGED <<remote, ccall>>
    BY <1>2 DEF C!CreateEvent
  <2> QED
    BY <2>2, <2>3, <2>4, <2>5 DEF CalendarCalm, CalendarFrom
<1>3. ASSUME \A r \in Requests : ccall[r] = C!Idle, NEW x \in C!Rows, C!DeleteEvent(x)
      PROVE  CalendarCalm'
  <2>1. local'[x].state = "gone" /\ \A y \in C!Rows \ {x} : local'[y] = local[y]
    BY <1>0, <1>3 DEF C!DeleteEvent, C!TypeOK, C!NoRow
  <2>2. UNCHANGED <<remote, ccall>>
    BY <1>3 DEF C!DeleteEvent
  <2> QED
    BY <1>3, <2>1, <2>2, CalendarIdle DEF CalendarCalm, CalendarFrom
<1>4. ASSUME NEW r \in Requests, C!Begin(r) PROVE CalendarCalm'
  <2> DEFINE T == {x \in C!Here : local[x].uid = 0}
             d == [C!Idle EXCEPT !.at = "pushing", !.base = token, !.todo = T]
  <2>1. ccall[r] = C!Idle /\ ccall' = [ccall EXCEPT ![r] = d] /\ UNCHANGED <<remote, local>>
    BY <1>4 DEF C!Begin, C!Becomes
  <2>2. d.given = C!Idle.given /\ d.todo = T
    BY DEF C!Idle
  <2> HIDE DEF d
  <2>3. ccall'[r] = d /\ \A q \in Requests \ {r} : ccall'[q] = ccall[q]
    BY <1>0, <2>1 DEF C!TypeOK
  <2>4. \A x \in C!Rows : ccall'[r].given[x].uid = 0 /\ ccall[r].given[x].uid = 0
    BY <2>1, <2>2, <2>3, CalendarIdle
  <2>5. \A x \in ccall'[r].todo : local[x].state = "here"
    BY <2>2, <2>3 DEF C!Here
  <2>6. \A q \in Requests, x \in C!Rows : ccall'[q].given[x].uid = ccall[q].given[x].uid
    BY <2>3, <2>4
  <2>7. \A q \in Requests, x \in C!Rows : x \in ccall'[q].todo => local[x].state = "here"
    BY <2>3, <2>5 DEF CalendarCalm
  <2> QED
    BY <2>1, <2>6, <2>7 DEF CalendarCalm, CalendarFrom
<1>5. ASSUME NEW r \in Requests, C!Push(r) PROVE CalendarCalm'
  <2> DEFINE c == ccall[r]
  <2>1. c # C!Idle /\ CalendarCall(c) /\ c.todo # {} /\ c.todo \subseteq C!Rows
    BY <1>0, <1>5, CalendarIdle, CalendarBusyCall, CalendarCallTypes DEF C!Push
  <2>2. PICK x \in c.todo : x = C!First(c.todo) /\ x \in C!Rows
    BY <2>1, CalendarFirst DEF C!Rows
  <2>3. PICK u \in C!Uids : u = C!First(C!Free) /\ remote[u].state = "none"
    <3>1. C!Free \in SUBSET Nat /\ C!Free # {}
      BY <1>5 DEF C!Free, C!Uids, C!Push
    <3>2. C!First(C!Free) \in C!Free
      BY <3>1, CalendarFirst
    <3> QED
      BY <3>2 DEF C!Free
  <2>4. clock + 1 \in C!Clocks
    BY <1>0, <1>5, CalendarTypes, CalendarAssumption DEF C!Push, C!Clocks
  <2>5. PICK d \in C!Call :
           /\ d = CalendarPushed(c, x, u, clock + 1)
           /\ d.todo = c.todo \ {x}
           /\ d.given[x].uid = u /\ \A y \in C!Rows \ {x} : d.given[y] = c.given[y]
    BY <1>0, <2>2, <2>4, CalendarPushMade
  <2>6. /\ ccall'[r] = d /\ UNCHANGED local
        /\ \A q \in Requests \ {r} : ccall'[q] = ccall[q]
    <3>1. C!Becomes(r, d)
      BY <1>5, <2>2, <2>3, <2>5 DEF C!Push, CalendarPushed
    <3> QED
      BY <1>0, <1>5, <3>1 DEF C!Push, C!Becomes, C!TypeOK
  <2>7. remote'[u].from = x /\ \A v \in C!Uids \ {u} : remote'[v] = remote[v]
    BY <1>0, <1>5, <2>2, <2>3 DEF C!Push, C!TypeOK
  <2>8. \A v \in C!Uids : remote[v].from # x
    BY <2>2, CalendarCalmRows
  <2>9. CalendarFrom'
    <3> SUFFICES ASSUME NEW v \in C!Uids, NEW y \in C!Rows, remote'[v].from = y
                 PROVE  \/ local[y].uid = v \/ local[y].state = "gone"
                        \/ \E q \in Requests : ccall'[q].given[y].uid = v
      BY <2>6 DEF CalendarFrom
    <3>1. CASE v = u
      BY <2>5, <2>6, <2>7, <3>1
    <3>2. CASE v # u
      <4>1. y # x /\ remote[v].from = y
        BY <2>7, <2>8, <3>2
      <4>2. \A q \in Requests : ccall'[q].given[y].uid = ccall[q].given[y].uid
        BY <2>5, <2>6, <4>1
      <4> QED
        BY <4>1, <4>2 DEF CalendarCalm, CalendarFrom
    <3> QED
      BY <3>1, <3>2
  <2>10. \A v, w \in C!Uids : remote'[v].from = remote'[w].from /\ remote'[v].from # 0 => v = w
    BY <1>0, <2>7, <2>8
  <2>11. ASSUME NEW q \in Requests, NEW y \in C!Rows,
                y \in ccall'[q].todo \/ ccall'[q].given[y].uid # 0
         PROVE  local[y].state = "here"
    BY <2>2, <2>5, <2>6, <2>11 DEF CalendarCalm
  <2> QED
    BY <2>6, <2>9, <2>10, <2>11 DEF CalendarCalm
<1>6. ASSUME NEW r \in Requests, C!List(r) \/ C!Apply(r) PROVE CalendarCalm'
  <2>1. UNCHANGED <<remote, local>>
    BY <1>6 DEF C!List, C!Apply
  <2>2. PICK d : /\ ccall' = [ccall EXCEPT ![r] = d]
                 /\ d.todo = ccall[r].todo /\ d.given = ccall[r].given
    <3> DEFINE c == ccall[r]
               A == C!Answer(c.base)
               d1 == [c EXCEPT !.at = "applying", !.got = A, !.next = clock]
               d2 == [c EXCEPT !.at = "applying"]
               F == [v \in C!Uids |-> C!Found(c, v)]
               D == {g \in c.got : ~C!Unchanged(c, g)}
               w == C!Writes(c)
               d3 == [c EXCEPT !.at = "saving", !.writes = w, !.found = F, !.got = D]
    <3>1. \/ ccall' = [ccall EXCEPT ![r] = d1]
          \/ ccall' = [ccall EXCEPT ![r] = d2]
          \/ ccall' = [ccall EXCEPT ![r] = d3]
      BY <1>6 DEF C!List, C!Apply, C!Becomes
    <3>2. c \in C!Call
      BY <1>0
    <3> HIDE DEF A, F, D, w, c
    <3>3. d1.todo = c.todo /\ d1.given = c.given
      BY <3>2 DEF C!Call
    <3>4. d2.todo = c.todo /\ d2.given = c.given
      BY <3>2 DEF C!Call
    <3>5. d3.todo = c.todo /\ d3.given = c.given
      BY <3>2 DEF C!Call
    <3> HIDE DEF d1, d2, d3
    <3> QED
      BY <3>1, <3>3, <3>4, <3>5 DEF c
  <2>3. \A q \in Requests : ccall'[q].todo = ccall[q].todo /\ ccall'[q].given = ccall[q].given
    BY <1>0, <2>2 DEF C!TypeOK
  <2> QED
    BY <2>1, <2>3 DEF CalendarCalm, CalendarFrom
<1>7. ASSUME NEW r \in Requests, C!Save(r) \/ C!Fail(r) PROVE CalendarCalm'
  <2>1. UNCHANGED remote /\ ccall[r] # C!Idle
    BY <1>7, CalendarIdle DEF C!Save, C!Fail
  <2>2. \A q \in Requests : ccall'[q] = C!Idle
    BY <1>0, <1>7, <2>1
       DEF C!Save, C!Fail, C!Becomes, C!TypeOK, CalendarInv, CalendarOne, CalendarBusy
  <2>3. ASSUME NEW u \in C!Uids, NEW x \in C!Rows, remote[u].from = x
        PROVE  local'[x].uid = u \/ local'[x].state = "gone"
    <3>1. /\ local[x].state # "none"
          /\ \/ local[x].uid = u \/ local[x].state = "gone" \/ ccall[r].given[x].uid = u
      BY <2>1, <2>3, CalendarCalmRows DEF CalendarInv, CalendarOne, CalendarBusy
    <3>2. CalendarCall(ccall[r]) /\ u # 0
      BY <1>0, <2>1, CalendarBusyCall, CalendarTypes
    <3>3. local[x].state # "gone" => C!Seen(ccall[r])[x] = u
      BY <1>0, <3>1, <3>2, CalendarPushedIs
    <3> QED
      BY <1>7, <3>1, <3>3, CalendarKept
  <2> QED
    BY <1>0, <2>1, <2>2, <2>3, CalendarIdle DEF CalendarCalm, CalendarFrom
<1> QED
  BY <1>1, <1>2, <1>3, <1>4, <1>5, <1>6, <1>7 DEF CalendarCalmStep, C!Work

LEMMA CalendarCalmHolds ==
    ASSUME CalendarInv, CalendarCalm
    PROVE  C!NoDuplicates
<1>1. C!TypeOK /\ CalendarRows
  BY DEF CalendarInv
<1>2. ASSUME NEW x \in C!Here, local[x].uid # 0
      PROVE  remote[local[x].uid].from \in {0, x} \cup (C!Rows \ C!Here)
  <2> DEFINE u == local[x].uid
             y == remote[u].from
  <2>1. x \in C!Rows /\ u \in C!Uids /\ y \in C!Rows \cup {0}
    BY <1>1, <1>2, CalendarTypes DEF C!Here, C!Remote
  <2>2. CASE y \in C!Rows
    <3>1. \A r \in CalendarBusy : ccall[r].given[y].uid # u
      BY <1>2, <2>1, <2>2, CalendarBusyCall DEF CalendarBusy, CalendarCall, CalendarGiven
    <3>2. local[y].uid = u \/ local[y].state = "gone"
      BY <2>1, <2>2, <3>1, CalendarCalmRows
    <3> QED
      BY <1>1, <1>2, <2>1, <2>2, <3>2 DEF CalendarRows, C!Here
  <2> QED
    BY <2>1, <2>2
<1> QED
  BY <1>1, <1>2 DEF C!NoDuplicates, CalendarRows, CalendarCalm, C!Here

CalendarRun == part = "calendar" => CalendarInv /\ (calm => CalendarCalm)

LEMMA CalendarRunStep == CalendarRun /\ [OutsideNext]_outsideVars => CalendarRun'
<1> SUFFICES ASSUME CalendarRun, [OutsideNext]_outsideVars, part = "calendar", part' = part
             PROVE  CalendarRun'
  BY PartSteps DEF CalendarRun
<1>0. calm' = calm /\ CalendarInv
  BY PartSteps DEF CalendarRun
<1>1. CASE CalendarNext
  <2>1. CalendarStep
    BY <1>1 DEF CalendarNext, CalendarStep, CalendarBusy
  <2>2. calm => CalendarCalmStep
    BY <1>1 DEF CalendarNext, CalendarCalmStep, CalendarBusy
  <2>3. CalendarInv'
    BY <1>0, <2>1, CalendarInvKept
  <2>4. calm => CalendarCalm'
    BY <1>0, <2>2, CalendarCalmKept DEF CalendarRun
  <2> QED
    BY <1>0, <2>3, <2>4 DEF CalendarRun
<1>2. CASE UNCHANGED calendarVars
  <2>1. CalendarInv'
    BY <1>0, <1>2, CalendarStill DEF calendarVars, C!vars
  <2>2. CalendarCalm => CalendarCalm'
    BY <1>2 DEF calendarVars, CalendarCalm, CalendarFrom
  <2> QED
    BY <1>0, <2>1, <2>2 DEF CalendarRun
<1> QED
  BY <1>1, <1>2, PartSteps

\* The token tells of no change that is not in the rows, whatever overlaps or fails;
\* one synchronisation at a time, none of which is lost, no event is on either side
\* twice (sync_connection, _push and _apply_remote of calendar_sync_service.py).
THEOREM CalendarsOfOutside == OutsideSpec => []CalendarsAgree
<1>1. OutsideInit => CalendarRun
  BY CalendarInit DEF OutsideInit, CalendarRun
<1>2. CalendarRun => CalendarsAgree
  BY CalendarCalmHolds DEF CalendarRun, CalendarsAgree, CalendarInv
<1> QED
  BY <1>1, <1>2, CalendarRunStep, PTL DEF OutsideSpec, outsideVars

-----------------------------------------------------------------------------
\* The repository in the cockpit

\* What every request may rely on, whatever overlaps and fails.
GitCallInv(c) ==
    /\ c.at \in {"merging", "aborting"} => c.op = "merge"
    /\ c.at = "building" => c.snap.since = c.asked
    /\ c.at = "answered" => c.snap.since + TTL > c.asked
    /\ c.at \in {"dropping", "looking", "building", "answered"} /\ c.ran => c.status \in G!Audited
    /\ c.at = "aborting" => c.status \in {"failed", "conflict"}
    /\ c.status = "ok" => c.due <= acts

GitInv == G!TypeOK /\ \A r \in Requests : GitCallInv(gcall[r])

GitStatuses == {"none", "ok", "no_remote", "rate_limited", "clean", "dirty", "conflict", "failed"}

LEMMA GitTypes ==
    /\ G!Times \subseteq Nat /\ 0 \in G!Times /\ G!Never \in Nat /\ G!Never \notin G!Times
    /\ G!NoSnapshot \notin G!Snapshot
    /\ G!Idle \in G!Call /\ G!Idle.at = "idle" /\ G!Idle.op = "view" /\ G!Idle.status = "none"
    /\ G!Idle.ran = FALSE
    /\ \A c \in G!Call : /\ c.asked \in G!Times /\ c.due \in 0..MaxActs /\ c.due \in Nat
                         /\ c.snap \in G!Snapshot \cup {G!NoSnapshot}
                         /\ c.snap.since \in Nat /\ c.snap.acts \in Nat
<1>1. G!Times \subseteq Nat /\ 0 \in G!Times /\ G!Never \in Nat /\ G!Never \notin G!Times
  BY GitAssumption DEF G!Times, G!Never
<1>2. G!NoSnapshot \notin G!Snapshot /\ G!NoSnapshot.since \in Nat /\ G!NoSnapshot.acts \in Nat
  BY <1>1 DEF G!NoSnapshot, G!Snapshot
<1>3. /\ G!Idle \in G!Call /\ G!Idle.at = "idle" /\ G!Idle.op = "view"
      /\ G!Idle.status = "none" /\ G!Idle.ran = FALSE
  BY <1>1, GitAssumption DEF G!Idle, G!Call
<1>4. \A x \in G!Snapshot : x.since \in Nat /\ x.acts \in Nat
  <2>1. \A n \in 0..MaxActs : n \in Nat
    BY GitAssumption
  <2> QED
    BY <1>1, <2>1 DEF G!Snapshot
<1>5. \A c \in G!Call : /\ c.asked \in G!Times /\ c.due \in 0..MaxActs /\ c.due \in Nat
                        /\ c.snap \in G!Snapshot \cup {G!NoSnapshot}
  BY <1>1, GitAssumption DEF G!Call
<1>6. \A c \in G!Call : c.snap.since \in Nat /\ c.snap.acts \in Nat
  BY <1>2, <1>4, <1>5
<1> QED
  BY <1>1, <1>2, <1>3, <1>5, <1>6

LEMMA GitAnswering ==
    ASSUME NEW c \in G!Call, NEW status \in GitStatuses
    PROVE  LET a == G!Answering(c, status) IN
           /\ a \in G!Call /\ a.status = status
           /\ a.at = IF status = "ok" THEN "dropping" ELSE "looking"
           /\ a.op = c.op /\ a.ran = c.ran /\ a.due = c.due /\ a.asked = c.asked
           /\ a.snap = c.snap
BY DEF G!Answering, G!Call, GitStatuses

LEMMA GitActed ==
    ASSUME NEW c \in G!Call, G!TypeOK, acts < MaxActs
    PROVE  LET a == G!Acted(c) IN
           /\ a \in G!Call /\ a.status = "ok" /\ a.at = "dropping" /\ a.ran = TRUE
           /\ a.due = acts + 1 /\ a.op = c.op
<1> DEFINE b == G!Answering(c, "ok")
           d == [b EXCEPT !.due = acts + 1]
<1>1. b \in G!Call /\ b.status = "ok" /\ b.at = "dropping" /\ b.op = c.op
  BY GitAnswering DEF GitStatuses
<1>2. acts + 1 \in 0..MaxActs
  BY GitAssumption DEF G!TypeOK
<1>3. G!Acted(c) = [d EXCEPT !.ran = TRUE]
  BY DEF G!Acted
<1> HIDE DEF b
<1>4. d \in G!Call /\ d.status = "ok" /\ d.at = "dropping" /\ d.op = c.op /\ d.due = acts + 1
  BY <1>1, <1>2 DEF G!Call
<1> HIDE DEF d
<1> QED
  BY <1>3, <1>4 DEF G!Call

LEMMA GitRan ==
    ASSUME NEW c \in G!Call
    PROVE  LET d == [c EXCEPT !.ran = TRUE] IN
           d \in G!Call /\ d.op = c.op /\ d.status = c.status /\ d.due = c.due
BY DEF G!Call

GitMerging == {G!NoMerge} \cup G!Merge

LEMMA GitMerges ==
    /\ G!NoMerge \in GitMerging
    /\ \A who \in {"cockpit", "person"} :
          G!Conflict(who) \in GitMerging /\ G!Conflict(who).by = who
    /\ \A m \in GitMerging :
          m.stage \in {"conflict", "added"} => [m EXCEPT !.stage = "same"] \in GitMerging
    /\ \A m \in GitMerging :
          /\ m.stage = "none" => m = G!NoMerge
          /\ m.stage = "added" => m.by \in {"cockpit", "person"}
BY DEF G!NoMerge, G!Conflict, G!Merge, GitMerging

\* A request that becomes c.
LEMMA GitBecomes ==
    ASSUME G!TypeOK, NEW r \in Requests, NEW c \in G!Call, G!Becomes(r, c)
    PROVE  /\ gcall' \in [Requests -> G!Call] /\ gcall'[r] = c
           /\ \A s \in Requests \ {r} : gcall'[s] = gcall[s]
BY DEF G!TypeOK, G!Becomes

-----------------------------------------------------------------------------
\* What each step makes of its request

LEMMA GitViews ==
    ASSUME G!TypeOK, NEW r \in Requests, G!View(r)
    PROVE  \E c \in G!Call : /\ G!Becomes(r, c) /\ c.at = "looking" /\ c.status = "none"
                             /\ c.ran = FALSE
<1> DEFINE c == [G!Idle EXCEPT !.at = "looking"]
<1>1. c \in G!Call /\ c.at = "looking" /\ c.status = "none" /\ c.ran = FALSE
  BY GitTypes DEF G!Call
<1> QED
  BY <1>1 DEF G!View

LEMMA GitDrops ==
    ASSUME G!TypeOK, NEW r \in Requests, G!Drop(r)
    PROVE  \E c \in G!Call : /\ G!Becomes(r, c) /\ c.at = "looking" /\ c.status = gcall[r].status
                             /\ c.ran = gcall[r].ran /\ c.due = gcall[r].due
<1> DEFINE c == [gcall[r] EXCEPT !.at = "looking"]
<1>1. gcall[r] \in G!Call
  BY DEF G!TypeOK
<1>2. /\ c \in G!Call /\ c.at = "looking" /\ c.status = gcall[r].status /\ c.ran = gcall[r].ran
      /\ c.due = gcall[r].due
  BY <1>1 DEF G!Call
<1> QED
  BY <1>2 DEF G!Drop

LEMMA GitLooks ==
    ASSUME G!TypeOK, NEW r \in Requests, G!Look(r)
    PROVE  \E c \in G!Call :
              /\ G!Becomes(r, c) /\ c.status = gcall[r].status /\ c.ran = gcall[r].ran
              /\ c.due = gcall[r].due /\ c.asked = time
              /\ \/ G!Current /\ c.at = "answered" /\ c.snap = cache
                 \/ c.at = "building" /\ c.snap.since = time /\ c.snap.acts = acts
<1> DEFINE s == IF G!Current THEN cache ELSE [since |-> time, acts |-> acts]
           a == IF G!Current THEN "answered" ELSE "building"
           b == [gcall[r] EXCEPT !.at = a]
           d == [b EXCEPT !.asked = time]
           c == [d EXCEPT !.snap = s]
<1>1. gcall[r] \in G!Call /\ time \in G!Times /\ s \in G!Snapshot \cup {G!NoSnapshot}
  BY DEF G!TypeOK, G!Snapshot
<1>2. G!Becomes(r, c)
  BY DEF G!Look
<1>3. /\ G!Current => a = "answered" /\ s = cache
      /\ ~G!Current => a = "building" /\ s.since = time /\ s.acts = acts
      /\ a \in {"answered", "building"}
  OBVIOUS
<1> HIDE DEF a, s
<1>4. /\ b \in G!Call /\ b.at = a /\ b.status = gcall[r].status /\ b.ran = gcall[r].ran
      /\ b.due = gcall[r].due
  BY <1>1, <1>3 DEF G!Call
<1> HIDE DEF b
<1>5. /\ d \in G!Call /\ d.at = a /\ d.status = gcall[r].status /\ d.ran = gcall[r].ran
      /\ d.due = gcall[r].due /\ d.asked = time
  BY <1>1, <1>4 DEF G!Call
<1> HIDE DEF d
<1>6. /\ c \in G!Call /\ c.at = a /\ c.status = gcall[r].status /\ c.ran = gcall[r].ran
      /\ c.due = gcall[r].due /\ c.asked = time /\ c.snap = s
  BY <1>1, <1>5 DEF G!Call
<1> HIDE DEF c
<1> QED
  BY <1>2, <1>3, <1>6

LEMMA GitStores ==
    ASSUME G!TypeOK, NEW r \in Requests, G!Store(r)
    PROVE  \E c \in G!Call :
              /\ G!Becomes(r, c) /\ c.at = "answered" /\ c.status = gcall[r].status
              /\ c.ran = gcall[r].ran /\ c.due = gcall[r].due /\ c.asked = gcall[r].asked
              /\ c.snap = gcall[r].snap
<1> DEFINE c == [gcall[r] EXCEPT !.at = "answered"]
<1>1. gcall[r] \in G!Call
  BY DEF G!TypeOK
<1>2. /\ c \in G!Call /\ c.at = "answered" /\ c.status = gcall[r].status
      /\ c.ran = gcall[r].ran /\ c.due = gcall[r].due /\ c.asked = gcall[r].asked
      /\ c.snap = gcall[r].snap
  BY <1>1 DEF G!Call
<1> QED
  BY <1>2 DEF G!Store

\* Requests that begin, and the fresh call of each operation.
LEMMA GitFresh ==
    ASSUME NEW op \in {"fetch", "commit", "merge"}
    PROVE  LET c == [G!Idle EXCEPT !.op = op] IN
           c \in G!Call /\ c.op = op /\ c.status = "none" /\ c.ran = FALSE
BY GitTypes DEF G!Call

LEMMA GitFetchBegins ==
    ASSUME G!TypeOK, NEW r \in Requests, G!FetchBegin(r)
    PROVE  \E c \in G!Call :
              /\ G!Becomes(r, c) /\ c.status # "ok"
              /\ \/ c.at = "looking" /\ c.ran = FALSE /\ UNCHANGED sent
                 \/ /\ c.at = "fetching" /\ c.asked = time /\ ~G!TooSoon
                    /\ sent' = [last |-> time, before |-> sent.last]
<1> DEFINE c == [G!Idle EXCEPT !.op = "fetch"]
           d == [c EXCEPT !.at = "fetching", !.asked = time, !.ran = TRUE]
<1>1. c \in G!Call /\ c.op = "fetch" /\ c.status = "none" /\ c.ran = FALSE /\ time \in G!Times
  BY GitFresh DEF G!TypeOK
<1>2. \/ /\ \E status \in {"failed", "no_remote"} : G!Becomes(r, G!Answering(c, status))
         /\ UNCHANGED sent
      \/ G!Becomes(r, G!Answering(c, "rate_limited")) /\ UNCHANGED sent
      \/ ~G!TooSoon /\ G!Becomes(r, d) /\ sent' = [last |-> time, before |-> sent.last]
  BY DEF G!FetchBegin
<1> HIDE DEF c
<1>3. d \in G!Call /\ d.at = "fetching" /\ d.asked = time /\ d.status = "none"
  BY <1>1 DEF G!Call
<1> HIDE DEF d
<1>4. \A status \in {"failed", "no_remote", "rate_limited"} :
        LET a == G!Answering(c, status) IN
        a \in G!Call /\ a.status = status /\ a.at = "looking" /\ a.ran = FALSE
  BY <1>1, GitAnswering DEF GitStatuses
<1> QED
  BY <1>2, <1>3, <1>4

\* A command that has ended: it failed, or it changed the repository.
GitEnded(c) ==
    \/ c.at = "looking" /\ c.status = "failed" /\ acts' \in {acts, acts + 1}
    \/ c.at = "dropping" /\ c.status = "ok" /\ c.due = acts + 1 /\ acts' = acts + 1

LEMMA GitFetchEnds ==
    ASSUME G!TypeOK, NEW r \in Requests, G!FetchEnd(r)
    PROVE  \E c \in G!Call : G!Becomes(r, c) /\ GitEnded(c) /\ acts' \in 0..MaxActs
<1> DEFINE a == G!Answering(gcall[r], "failed")
           b == G!Acted(gcall[r])
<1>1. gcall[r] \in G!Call /\ acts \in 0..MaxActs
  BY DEF G!TypeOK
<1>2. a \in G!Call /\ a.status = "failed" /\ a.at = "looking"
  BY <1>1, GitAnswering DEF GitStatuses
<1>3. acts < MaxActs => b \in G!Call /\ b.status = "ok" /\ b.at = "dropping" /\ b.due = acts + 1
  BY <1>1, GitActed
<1>4. acts < MaxActs => acts + 1 \in 0..MaxActs
  BY <1>1, GitAssumption
<1>5. \/ acts < MaxActs /\ acts' = acts + 1 /\ (G!Becomes(r, b) \/ G!Becomes(r, a))
      \/ acts' = acts /\ G!Becomes(r, a)
  BY DEF G!FetchEnd
<1> HIDE DEF a, b
<1> QED
  BY <1>1, <1>2, <1>3, <1>4, <1>5 DEF GitEnded

LEMMA GitCommitBegins ==
    ASSUME G!TypeOK, NEW r \in Requests, G!CommitBegin(r)
    PROVE  \E c \in G!Call : /\ G!Becomes(r, c) /\ c.status # "ok" /\ c.ran = FALSE
                             /\ c.at \in {"looking", "adding"}
<1> DEFINE c == [G!Idle EXCEPT !.op = "commit"]
           d == [c EXCEPT !.at = "adding"]
<1>1. c \in G!Call /\ c.op = "commit" /\ c.status = "none" /\ c.ran = FALSE
  BY GitFresh
<1>2. \/ \E status \in {"failed", "clean"} : G!Becomes(r, G!Answering(c, status))
      \/ G!Becomes(r, d)
  BY DEF G!CommitBegin
<1> HIDE DEF c
<1>3. d \in G!Call /\ d.at = "adding" /\ d.status = "none" /\ d.ran = FALSE
  BY <1>1 DEF G!Call
<1> HIDE DEF d
<1>4. \A status \in {"failed", "clean"} :
        LET a == G!Answering(c, status) IN
        a \in G!Call /\ a.status = status /\ a.at = "looking" /\ a.ran = FALSE
  BY <1>1, GitAnswering DEF GitStatuses
<1> QED
  BY <1>2, <1>3, <1>4

LEMMA GitCommitAdds ==
    ASSUME G!TypeOK, NEW r \in Requests, G!CommitAdd(r)
    PROVE  /\ \E c \in G!Call :
                 /\ G!Becomes(r, c)
                 /\ \/ c.at = "looking" /\ c.status = "failed"
                    \/ c.at = "committing" /\ c.status = gcall[r].status /\ c.due = gcall[r].due
           /\ merging'.by = merging.by /\ merging' \in GitMerging
           /\ UNCHANGED <<tree, acts>> /\ index' \in {index, tree}
<1> DEFINE c == [gcall[r] EXCEPT !.ran = TRUE]
           d == [c EXCEPT !.at = "committing"]
           a == G!Answering(c, "failed")
<1>1. c \in G!Call /\ c.status = gcall[r].status /\ c.due = gcall[r].due
  BY GitRan DEF G!TypeOK
<1>2. /\ G!Becomes(r, a) \/ G!Becomes(r, d)
      /\ UNCHANGED <<tree, acts>> /\ index' \in {index, tree}
      /\ \/ merging' = merging
         \/ merging' = [merging EXCEPT !.stage = IF @ = "conflict" THEN "added" ELSE @]
  BY DEF G!CommitAdd, G!repo
<1>3. merging'.by = merging.by /\ merging' \in GitMerging
  BY <1>2 DEF G!TypeOK, GitMerging, G!Merge, G!NoMerge
<1> HIDE DEF c
<1>4. a \in G!Call /\ a.status = "failed" /\ a.at = "looking"
  BY <1>1, GitAnswering DEF GitStatuses
<1>5. d \in G!Call /\ d.at = "committing" /\ d.status = c.status /\ d.due = c.due
  BY <1>1 DEF G!Call
<1> HIDE DEF d, a
<1> QED
  BY <1>1, <1>2, <1>3, <1>4, <1>5

LEMMA GitCommitRuns ==
    ASSUME G!TypeOK, NEW r \in Requests, G!CommitRun(r) \/ G!CommitTimeout(r)
    PROVE  /\ \E c \in G!Call : G!Becomes(r, c) /\ GitEnded(c)
           /\ acts' \in 0..MaxActs
           /\ \/ UNCHANGED <<G!repo, spoilt>>
              \/ /\ tree' \subseteq tree /\ index' = {} /\ merging' = G!NoMerge
                 /\ spoilt' = IF merging.stage = "added" THEN spoilt \cup {merging.by} ELSE spoilt
<1> DEFINE a == G!Answering(gcall[r], "failed")
           b == G!Acted(gcall[r])
<1>1. gcall[r] \in G!Call /\ acts \in 0..MaxActs
  BY DEF G!TypeOK
<1>2. a \in G!Call /\ a.status = "failed" /\ a.at = "looking"
  BY <1>1, GitAnswering DEF GitStatuses
<1>3. acts < MaxActs => b \in G!Call /\ b.status = "ok" /\ b.at = "dropping" /\ b.due = acts + 1
  BY <1>1, GitActed
<1>4. acts < MaxActs => acts + 1 \in 0..MaxActs
  BY <1>1, GitAssumption
<1>5. \/ G!Becomes(r, a) /\ UNCHANGED <<G!repo, spoilt>>
      \/ /\ acts < MaxActs /\ acts' = acts + 1 /\ G!Becomes(r, b)
         /\ tree' = tree \ index /\ index' = {} /\ merging' = G!NoMerge
         /\ spoilt' = IF merging.stage = "added" THEN spoilt \cup {merging.by} ELSE spoilt
      \/ /\ acts < MaxActs /\ acts' = acts + 1 /\ G!Becomes(r, a)
         /\ tree' = tree \ index /\ index' = {} /\ merging' = G!NoMerge
         /\ spoilt' = IF merging.stage = "added" THEN spoilt \cup {merging.by} ELSE spoilt
  BY DEF G!CommitRun, G!CommitTimeout, G!Commits
<1> HIDE DEF a, b
<1> QED
  BY <1>1, <1>2, <1>3, <1>4, <1>5 DEF GitEnded, G!repo

LEMMA GitMergeBegins ==
    ASSUME G!TypeOK, NEW r \in Requests, G!MergeBegin(r)
    PROVE  \E c \in G!Call :
              /\ G!Becomes(r, c) /\ c.status # "ok" /\ c.ran = FALSE /\ c.op = "merge"
              /\ c.at = "looking" \/ (c.at = "merging" /\ G!Clean)
<1> DEFINE c == [G!Idle EXCEPT !.op = "merge"]
           d == [c EXCEPT !.at = "merging"]
<1>1. c \in G!Call /\ c.op = "merge" /\ c.status = "none" /\ c.ran = FALSE
  BY GitFresh
<1>2. \/ \E status \in {"failed", "dirty"} : G!Becomes(r, G!Answering(c, status))
      \/ G!Clean /\ G!Becomes(r, d)
  BY DEF G!MergeBegin
<1> HIDE DEF c
<1>3. d \in G!Call /\ d.at = "merging" /\ d.status = "none" /\ d.ran = FALSE /\ d.op = "merge"
  BY <1>1 DEF G!Call
<1> HIDE DEF d
<1>4. \A status \in {"failed", "dirty"} :
        LET a == G!Answering(c, status) IN
        /\ a \in G!Call /\ a.status = status /\ a.at = "looking" /\ a.ran = FALSE
        /\ a.op = "merge"
  BY <1>1, GitAnswering DEF GitStatuses
<1> QED
  BY <1>2, <1>3, <1>4

\* A merge that goes on to its abort.
GitAborts(c) == c.at = "aborting" /\ c.status \in {"failed", "conflict"}

LEMMA GitMergeRuns ==
    ASSUME G!TypeOK, NEW r \in Requests, G!MergeRun(r)
    PROVE  /\ \E c \in G!Call :
                 /\ G!Becomes(r, c) /\ c.op = gcall[r].op
                 /\ \/ GitAborts(c) /\ UNCHANGED G!repo
                    \/ GitEnded(c) /\ UNCHANGED <<tree, index, merging>>
                    \/ /\ GitAborts(c) /\ merging' = G!Conflict("cockpit")
                       /\ UNCHANGED <<tree, index, acts>>
           /\ acts' \in 0..MaxActs
<1> DEFINE c == [gcall[r] EXCEPT !.ran = TRUE]
           b == [c EXCEPT !.at = "aborting"]
           d(status) == [b EXCEPT !.status = status]
           a == G!Acted(c)
<1>1. c \in G!Call /\ c.op = gcall[r].op /\ acts \in 0..MaxActs
  BY GitRan DEF G!TypeOK
<1>2. \/ G!Becomes(r, d("failed")) /\ UNCHANGED G!repo
      \/ /\ acts < MaxActs /\ acts' = acts + 1 /\ G!Becomes(r, a)
         /\ UNCHANGED <<tree, index, merging>>
      \/ /\ merging' = G!Conflict("cockpit") /\ G!Becomes(r, d("conflict"))
         /\ UNCHANGED <<tree, index, acts>>
  BY DEF G!MergeRun
<1> HIDE DEF c
<1>3. b \in G!Call /\ b.at = "aborting" /\ b.op = c.op
  BY <1>1 DEF G!Call
<1> HIDE DEF b
<1>4. \A status \in {"failed", "conflict"} :
        /\ d(status) \in G!Call /\ d(status).status = status /\ d(status).at = "aborting"
        /\ d(status).op = c.op
  BY <1>3 DEF G!Call
<1>5. acts < MaxActs =>
        /\ a \in G!Call /\ a.status = "ok" /\ a.at = "dropping" /\ a.due = acts + 1
        /\ a.op = c.op
  BY <1>1, GitActed
<1>6. acts < MaxActs => acts + 1 \in 0..MaxActs
  BY <1>1, GitAssumption
<1> HIDE DEF d, a
<1>7. acts' \in 0..MaxActs
  BY <1>1, <1>2, <1>6 DEF G!repo
<1> QED
  BY <1>1, <1>2, <1>4, <1>5, <1>7 DEF GitEnded, GitAborts

LEMMA GitMergeTimesOut ==
    ASSUME G!TypeOK, NEW r \in Requests, G!MergeTimeout(r)
    PROVE  /\ \E c \in G!Call : G!Becomes(r, c) /\ c.op = gcall[r].op /\ GitAborts(c)
           /\ acts' \in {acts, acts + 1} /\ acts' \in 0..MaxActs
           /\ merging' \in {merging, G!Conflict("cockpit")}
<1> DEFINE c == [gcall[r] EXCEPT !.ran = TRUE]
           b == [c EXCEPT !.at = "aborting"]
           d == [b EXCEPT !.status = "failed"]
<1>1. c \in G!Call /\ c.op = gcall[r].op /\ acts \in 0..MaxActs
  BY GitRan DEF G!TypeOK
<1>2. /\ G!Becomes(r, d)
      /\ (acts < MaxActs /\ acts' = acts + 1) \/ acts' = acts
      /\ merging' \in {merging, G!Conflict("cockpit")}
  BY DEF G!MergeTimeout
<1> HIDE DEF c
<1>3. b \in G!Call /\ b.at = "aborting" /\ b.op = c.op
  BY <1>1 DEF G!Call
<1> HIDE DEF b
<1>4. d \in G!Call /\ d.status = "failed" /\ d.at = "aborting" /\ d.op = c.op
  BY <1>3 DEF G!Call
<1> HIDE DEF d
<1>5. acts' \in {acts, acts + 1} /\ acts' \in 0..MaxActs
  BY <1>1, <1>2, GitAssumption
<1> QED
  BY <1>1, <1>2, <1>4, <1>5 DEF GitAborts

\* The abort of a merge, whether it is one or not.
LEMMA GitMergeAborts ==
    ASSUME GitInv, NEW r \in Requests, G!MergeAbort(r) \/ G!AbortFails(r)
    PROVE  \E c \in G!Call : /\ G!Becomes(r, c) /\ c.at = "looking"
                             /\ c.status = gcall[r].status /\ c.status \in {"failed", "conflict"}
<1> DEFINE a == G!Answering(gcall[r], gcall[r].status)
<1>1. gcall[r] \in G!Call /\ gcall[r].status \in {"failed", "conflict"} /\ G!Becomes(r, a)
  BY DEF GitInv, GitCallInv, G!TypeOK, G!MergeAbort, G!AbortFails
<1>2. a \in G!Call /\ a.at = "looking" /\ a.status = gcall[r].status
  BY <1>1, GitAnswering DEF GitStatuses
<1> HIDE DEF a
<1> QED
  BY <1>1, <1>2

-----------------------------------------------------------------------------
\* Every step keeps what requests rely on

\* The types of all but the requests.
GitRest ==
    /\ time \in G!Times
    /\ tree \subseteq Texts /\ index \subseteq tree
    /\ merging \in GitMerging
    /\ acts \in 0..MaxActs
    /\ cache \in G!Snapshot \cup {G!NoSnapshot}
    /\ lastFetch \in G!Times \cup {G!Never}
    /\ sent \in [last : G!Times \cup {G!Never}, before : G!Times \cup {G!Never}]
    /\ lost \subseteq Texts
    /\ spoilt \subseteq {"cockpit", "person", "undone", "forgotten"}
    /\ silent \in BOOLEAN

LEMMA GitCallLater ==
    ASSUME GitInv, NEW c \in G!Call, GitCallInv(c), acts' \in {acts, acts + 1}
    PROVE  GitCallInv(c)'
<1>1. c.due \in Nat /\ acts \in Nat
  BY GitTypes, GitAssumption DEF GitInv, G!TypeOK
<1> QED
  BY <1>1 DEF GitCallInv

LEMMA GitSet ==
    ASSUME GitInv, NEW r \in Requests, NEW c \in G!Call, G!Becomes(r, c), GitRest',
           acts' \in {acts, acts + 1}, GitCallInv(c)'
    PROVE  GitInv'
<1>1. /\ gcall' \in [Requests -> G!Call] /\ gcall'[r] = c
      /\ \A s \in Requests \ {r} : gcall'[s] = gcall[s]
  BY GitBecomes DEF GitInv
<1>2. G!TypeOK'
  BY <1>1 DEF GitRest, GitMerging, G!TypeOK
<1>3. ASSUME NEW s \in Requests PROVE GitCallInv(gcall[s])'
  <2>1. CASE s = r
    BY <1>1, <2>1
  <2>2. CASE s # r
    <3>1. gcall[s] \in G!Call /\ GitCallInv(gcall[s]) /\ gcall'[s] = gcall[s]
      BY <1>1, <2>2 DEF GitInv, G!TypeOK
    <3> DEFINE d == gcall[s]
    <3> HIDE DEF d
    <3> QED
      BY <1>1, <2>2, GitCallLater DEF GitInv, G!TypeOK
  <2> QED
    BY <2>1, <2>2
<1> QED
  BY <1>2, <1>3 DEF GitInv

LEMMA GitInvInit == G!Init => GitInv
<1> SUFFICES ASSUME G!Init PROVE GitInv
  OBVIOUS
<1>1. G!TypeOK
  <2>1. G!NoMerge \in {G!NoMerge} \cup G!Merge
    OBVIOUS
  <2>2. [last |-> G!Never, before |-> G!Never]
            \in [last : G!Times \cup {G!Never}, before : G!Times \cup {G!Never}]
    OBVIOUS
  <2>3. gcall \in [Requests -> G!Call] /\ 0 \in 0..MaxActs
    BY GitTypes, GitAssumption DEF G!Init
  <2> QED
    BY <2>1, <2>2, <2>3, GitTypes DEF G!Init, G!TypeOK
<1>2. \A r \in Requests : GitCallInv(gcall[r])
  BY GitTypes DEF G!Init, GitCallInv
<1> QED
  BY <1>1, <1>2 DEF GitInv

LEMMA GitInvStep == GitInv /\ [G!Next]_(G!vars) => GitInv'
<1> SUFFICES ASSUME GitInv, [G!Next]_(G!vars) PROVE GitInv'
  OBVIOUS
<1>0. /\ GitRest /\ G!TypeOK /\ gcall \in [Requests -> G!Call]
      /\ \A r \in Requests : gcall[r] \in G!Call /\ GitCallInv(gcall[r])
  BY DEF GitInv, G!TypeOK, GitRest, GitMerging
<1>1. ASSUME NEW r \in Requests, G!View(r) PROVE GitInv'
  <2>1. GitRest' /\ acts' = acts
    BY <1>0, <1>1 DEF G!View, G!repo, G!memory, G!history, GitRest
  <2>2. PICK c \in G!Call : /\ G!Becomes(r, c) /\ c.at = "looking" /\ c.status = "none"
                            /\ c.ran = FALSE
    BY <1>0, <1>1, GitViews
  <2>3. GitCallInv(c)'
    BY <2>2 DEF GitCallInv
  <2> QED
    BY <2>1, <2>2, <2>3, GitSet
<1>2. ASSUME NEW r \in Requests, G!Drop(r) PROVE GitInv'
  <2>1. GitRest' /\ acts' = acts
    BY <1>0, <1>2 DEF G!Drop, G!repo, G!history, GitRest
  <2>2. PICK c \in G!Call : /\ G!Becomes(r, c) /\ c.at = "looking" /\ c.status = gcall[r].status
                            /\ c.ran = gcall[r].ran /\ c.due = gcall[r].due
    BY <1>0, <1>2, GitDrops
  <2>3. GitCallInv(c)'
    BY <1>0, <1>2, <2>1, <2>2 DEF GitCallInv, G!Drop
  <2> QED
    BY <2>1, <2>2, <2>3, GitSet
<1>3. ASSUME NEW r \in Requests, G!Look(r) PROVE GitInv'
  <2>1. GitRest' /\ acts' = acts
    BY <1>0, <1>3 DEF G!Look, G!repo, G!memory, G!history, GitRest
  <2>2. PICK c \in G!Call :
              /\ G!Becomes(r, c) /\ c.status = gcall[r].status /\ c.ran = gcall[r].ran
              /\ c.due = gcall[r].due /\ c.asked = time
              /\ \/ G!Current /\ c.at = "answered" /\ c.snap = cache
                 \/ c.at = "building" /\ c.snap.since = time /\ c.snap.acts = acts
    BY <1>0, <1>3, GitLooks
  <2>3. GitCallInv(c)'
    BY <1>0, <1>3, <2>1, <2>2 DEF GitCallInv, G!Look, G!Current
  <2> QED
    BY <2>1, <2>2, <2>3, GitSet
<1>4. ASSUME NEW r \in Requests, G!Store(r) PROVE GitInv'
  <2>1. GitRest' /\ acts' = acts
    BY <1>0, <1>4, GitTypes DEF G!Store, G!repo, G!history, GitRest
  <2>2. PICK c \in G!Call :
              /\ G!Becomes(r, c) /\ c.at = "answered" /\ c.status = gcall[r].status
              /\ c.ran = gcall[r].ran /\ c.due = gcall[r].due /\ c.asked = gcall[r].asked
              /\ c.snap = gcall[r].snap
    BY <1>0, <1>4, GitStores
  <2>3. c.snap.since + TTL > c.asked
    <3>1. c.snap.since = c.asked /\ c.asked \in Nat
      BY <1>0, <1>4, <2>2, GitTypes DEF G!Store, GitCallInv
    <3> QED
      BY <3>1, GitAssumption
  <2>4. GitCallInv(c)'
    BY <1>0, <1>4, <2>1, <2>2, <2>3 DEF GitCallInv, G!Store
  <2> QED
    BY <2>1, <2>2, <2>4, GitSet
<1>5. ASSUME NEW r \in Requests, G!Answer(r) \/ G!AuditFails(r) PROVE GitInv'
  <2>1. GitRest' /\ acts' = acts /\ G!Becomes(r, G!Idle)
    BY <1>0, <1>5 DEF G!Answer, G!AuditFails, G!repo, G!memory, GitRest
  <2>2. GitCallInv(G!Idle)'
    BY GitTypes DEF GitCallInv
  <2> QED
    BY <2>1, <2>2, GitSet, GitTypes
<1>6. ASSUME NEW r \in Requests, G!FetchBegin(r) PROVE GitInv'
  <2>1. acts' = acts /\ UNCHANGED <<time, G!repo, G!memory, lost, spoilt, silent>>
    BY <1>6 DEF G!FetchBegin, G!repo
  <2>2. PICK c \in G!Call :
              /\ G!Becomes(r, c) /\ c.status # "ok"
              /\ \/ c.at = "looking" /\ c.ran = FALSE /\ UNCHANGED sent
                 \/ /\ c.at = "fetching" /\ c.asked = time /\ ~G!TooSoon
                    /\ sent' = [last |-> time, before |-> sent.last]
    BY <1>0, <1>6, GitFetchBegins
  <2>3. sent' \in [last : G!Times \cup {G!Never}, before : G!Times \cup {G!Never}]
    BY <1>0, <2>2 DEF GitRest
  <2>4. GitRest'
    BY <1>0, <2>1, <2>3 DEF G!repo, G!memory, GitRest
  <2>5. GitCallInv(c)'
    BY <2>2 DEF GitCallInv
  <2> QED
    BY <2>1, <2>2, <2>4, <2>5, GitSet
<1>7. ASSUME NEW r \in Requests, NEW c \in G!Call, GitEnded(c), acts \in 0..MaxActs
      PROVE  GitCallInv(c)' /\ acts' \in {acts, acts + 1}
  BY <1>7, GitAssumption DEF GitEnded, GitCallInv, G!Audited
<1>8. ASSUME NEW r \in Requests, G!FetchEnd(r) PROVE GitInv'
  <2>1. PICK c \in G!Call : G!Becomes(r, c) /\ GitEnded(c) /\ acts' \in 0..MaxActs
    BY <1>0, <1>8, GitFetchEnds
  <2>2. GitRest'
    BY <1>0, <1>8, <2>1, GitTypes DEF G!FetchEnd, G!history, GitRest
  <2>3. GitCallInv(c)' /\ acts' \in {acts, acts + 1}
    BY <1>0, <1>7, <2>1 DEF GitRest
  <2> QED
    BY <2>1, <2>2, <2>3, GitSet
<1>9. ASSUME NEW r \in Requests, G!CommitBegin(r) PROVE GitInv'
  <2>1. GitRest' /\ acts' = acts
    BY <1>0, <1>9 DEF G!CommitBegin, G!repo, G!memory, G!history, GitRest
  <2>2. PICK c \in G!Call : /\ G!Becomes(r, c) /\ c.status # "ok" /\ c.ran = FALSE
                            /\ c.at \in {"looking", "adding"}
    BY <1>0, <1>9, GitCommitBegins
  <2>3. GitCallInv(c)'
    BY <2>2 DEF GitCallInv
  <2> QED
    BY <2>1, <2>2, <2>3, GitSet
<1>10. ASSUME NEW r \in Requests, G!CommitAdd(r) PROVE GitInv'
  <2>1. PICK c \in G!Call :
              /\ G!Becomes(r, c)
              /\ \/ c.at = "looking" /\ c.status = "failed"
                 \/ c.at = "committing" /\ c.status = gcall[r].status /\ c.due = gcall[r].due
    BY <1>0, <1>10, GitCommitAdds
  <2>2. /\ merging' \in GitMerging
        /\ UNCHANGED <<tree, acts>> /\ index' \in {index, tree}
    BY <1>0, <1>10, GitCommitAdds
  <2>4. GitRest'
    BY <1>0, <1>10, <2>2 DEF G!CommitAdd, G!memory, G!history, GitRest
  <2>5. GitCallInv(c)'
    BY <1>0, <2>1, <2>2 DEF GitCallInv, G!Audited
  <2> QED
    BY <2>1, <2>2, <2>4, <2>5, GitSet
<1>11. ASSUME NEW r \in Requests, G!CommitRun(r) \/ G!CommitTimeout(r) PROVE GitInv'
  <2>1. PICK c \in G!Call : G!Becomes(r, c) /\ GitEnded(c)
    BY <1>0, <1>11, GitCommitRuns
  <2>2. /\ acts' \in 0..MaxActs
        /\ \/ UNCHANGED <<G!repo, spoilt>>
           \/ /\ tree' \subseteq tree /\ index' = {} /\ merging' = G!NoMerge
              /\ spoilt' = IF merging.stage = "added" THEN spoilt \cup {merging.by} ELSE spoilt
    BY <1>0, <1>11, GitCommitRuns
  <2>3. /\ tree' \subseteq Texts /\ index' \subseteq tree'
        /\ merging' \in GitMerging
        /\ spoilt' \subseteq {"cockpit", "person", "undone", "forgotten"}
    BY <1>0, <2>2, GitMerges DEF GitRest, G!repo
  <2>4. GitRest'
    BY <1>0, <1>11, <2>2, <2>3 DEF G!CommitRun, G!CommitTimeout, G!memory, GitRest
  <2>5. GitCallInv(c)' /\ acts' \in {acts, acts + 1}
    BY <1>0, <1>7, <2>1 DEF GitRest
  <2> QED
    BY <2>1, <2>4, <2>5, GitSet
<1>12. ASSUME NEW r \in Requests, G!MergeBegin(r) PROVE GitInv'
  <2>1. GitRest' /\ acts' = acts
    BY <1>0, <1>12 DEF G!MergeBegin, G!repo, G!memory, G!history, GitRest
  <2>2. PICK c \in G!Call :
              /\ G!Becomes(r, c) /\ c.status # "ok" /\ c.ran = FALSE /\ c.op = "merge"
              /\ c.at = "looking" \/ (c.at = "merging" /\ G!Clean)
    BY <1>0, <1>12, GitMergeBegins
  <2>3. GitCallInv(c)'
    BY <2>2 DEF GitCallInv
  <2> QED
    BY <2>1, <2>2, <2>3, GitSet
<1>13. ASSUME NEW r \in Requests, NEW c \in G!Call, GitAborts(c), c.op = "merge"
       PROVE  GitCallInv(c)'
  BY <1>13 DEF GitCallInv, GitAborts
<1>14. ASSUME NEW r \in Requests, G!MergeRun(r) PROVE GitInv'
  <2>1. PICK c \in G!Call :
              /\ G!Becomes(r, c) /\ c.op = gcall[r].op
              /\ \/ GitAborts(c) /\ UNCHANGED G!repo
                 \/ GitEnded(c) /\ UNCHANGED <<tree, index, merging>>
                 \/ /\ GitAborts(c) /\ merging' = G!Conflict("cockpit")
                    /\ UNCHANGED <<tree, index, acts>>
    BY <1>0, <1>14, GitMergeRuns
  <2>2. acts' \in 0..MaxActs /\ gcall[r].op = "merge"
    BY <1>0, <1>14, GitMergeRuns DEF G!MergeRun, GitCallInv
  <2>3. /\ tree' = tree /\ index' = index
        /\ merging' \in GitMerging
    BY <1>0, <2>1, GitMerges DEF GitRest, G!repo
  <2>4. GitRest'
    BY <1>0, <1>14, <2>2, <2>3 DEF G!MergeRun, G!memory, G!history, GitRest
  <2>5. GitCallInv(c)' /\ acts' \in {acts, acts + 1}
    BY <1>0, <1>7, <1>13, <2>1, <2>2 DEF GitRest, G!repo
  <2> QED
    BY <2>1, <2>4, <2>5, GitSet
<1>15. ASSUME NEW r \in Requests, G!MergeTimeout(r) PROVE GitInv'
  <2>1. PICK c \in G!Call : G!Becomes(r, c) /\ c.op = gcall[r].op /\ GitAborts(c)
    BY <1>0, <1>15, GitMergeTimesOut
  <2>2. /\ acts' \in {acts, acts + 1} /\ acts' \in 0..MaxActs /\ gcall[r].op = "merge"
        /\ merging' \in {merging, G!Conflict("cockpit")}
    BY <1>0, <1>15, GitMergeTimesOut DEF G!MergeTimeout, GitCallInv
  <2>3. merging' \in GitMerging
    BY <1>0, <2>2, GitMerges DEF GitRest
  <2>4. GitRest'
    BY <1>0, <1>15, <2>2, <2>3 DEF G!MergeTimeout, G!memory, G!history, GitRest
  <2> QED
    BY <1>13, <2>1, <2>2, <2>4, GitSet
<1>16. ASSUME NEW r \in Requests, G!MergeAbort(r) \/ G!AbortFails(r) PROVE GitInv'
  <2>1. PICK c \in G!Call : /\ G!Becomes(r, c) /\ c.at = "looking"
                            /\ c.status = gcall[r].status /\ c.status \in {"failed", "conflict"}
    BY <1>16, GitMergeAborts
  <2>2. acts' = acts /\ UNCHANGED <<time, cache, lastFetch, sent, silent>>
    BY <1>16 DEF G!MergeAbort, G!AbortFails, G!memory, G!repo, G!history
  <2>3. /\ tree' \subseteq tree /\ index' \subseteq tree' /\ lost' \subseteq lost \cup tree
        /\ merging' \in {merging, G!NoMerge} 
        /\ spoilt' \subseteq spoilt \cup {"undone", "forgotten"}
    BY <1>0, <1>16 DEF G!MergeAbort, G!AbortFails, G!repo, G!history, GitRest
  <2>4. G!NoMerge \in GitMerging
    BY GitMerges
  <2>5. GitRest'
    BY <1>0, <2>2, <2>3, <2>4 DEF GitRest
  <2>6. GitCallInv(c)'
    BY <2>1 DEF GitCallInv, G!Audited
  <2> QED
    BY <2>1, <2>2, <2>5, <2>6, GitSet
\* Steps that change no request.
<1>17. ASSUME GitRest', gcall' = gcall, acts' = acts PROVE GitInv'
  BY <1>0, <1>17 DEF GitInv, G!TypeOK, GitRest, GitMerging, GitCallInv
<1>18. CASE G!Tick
  <2>1. time' \in G!Times
    BY <1>0, <1>18, GitAssumption DEF G!Tick, G!Times, GitRest
  <2>2. GitRest'
    BY <1>0, <1>18, <2>1 DEF G!Tick, G!repo, G!memory, G!history, GitRest
  <2> QED
    BY <1>17, <1>18, <2>2 DEF G!Tick, G!repo
<1>19. CASE G!People
  <2>1. /\ tree' \subseteq Texts /\ index' \subseteq tree'
        /\ merging' \in GitMerging
        /\ UNCHANGED <<time, acts, G!memory, gcall, G!history>>
    <3>1. ASSUME NEW e \in Texts, G!Edit(e)
          PROVE  /\ tree' \subseteq Texts /\ index' \subseteq tree' /\ merging' \in GitMerging
                 /\ UNCHANGED <<time, acts, G!memory, gcall, G!history>>
      BY <1>0, <3>1 DEF G!Edit, GitRest
    <3>2. CASE G!PersonMerges
      BY <1>0, <3>2, GitMerges DEF G!PersonMerges, GitRest
    <3>3. CASE G!PersonCommits
      BY <1>0, <3>3, GitMerges DEF G!PersonCommits, GitRest
    <3>4. CASE G!PersonResolves
      BY <1>0, <3>4, GitMerges DEF G!PersonResolves, GitRest
    <3> QED
      BY <1>19, <3>1, <3>2, <3>3, <3>4 DEF G!People
  <2>2. GitRest'
    BY <1>0, <2>1 DEF G!memory, G!history, GitRest
  <2> QED
    BY <1>17, <2>1, <2>2
<1>20. CASE G!Restart
  <2>1. GitRest' /\ acts' = acts
    <3>1. silent' \in BOOLEAN /\ cache' = G!NoSnapshot /\ lastFetch' = G!Never
      BY <1>20 DEF G!Restart
    <3> QED
      BY <1>0, <1>20, <3>1 DEF G!Restart, G!repo, GitRest
  <2>2. gcall' \in [Requests -> G!Call] /\ \A s \in Requests : gcall'[s] = G!Idle
    BY <1>20, GitTypes DEF G!Restart
  <2>3. GitCallInv(G!Idle)'
    BY GitTypes DEF GitCallInv
  <2>4. G!TypeOK'
    BY <2>1, <2>2 DEF GitRest, GitMerging, G!TypeOK
  <2> QED
    BY <2>2, <2>3, <2>4 DEF GitInv
<1>21. CASE UNCHANGED G!vars
  BY <1>0, <1>17, <1>21 DEF G!vars, G!repo, G!memory, G!history, GitRest
<1> QED
  BY <1>1, <1>2, <1>3, <1>4, <1>5, <1>6, <1>8, <1>9, <1>10, <1>11, <1>12, <1>14, <1>15, <1>16,
     <1>18, <1>19, <1>20, <1>21 DEF G!Next, G!Work, G!Fault

LEMMA GitRecent == GitInv => G!TypeOK /\ G!AnswersAreRecent
BY DEF GitInv, GitCallInv, G!AnswersAreRecent

-----------------------------------------------------------------------------
\* Without failures no merge stays half done

GitSound == G!Tick \/ G!People \/ \E r \in Requests : G!Work(r)

LEMMA GitWholeStep ==
    ASSUME GitInv, G!NothingIsHalfDone, GitSound
    PROVE  G!NothingIsHalfDone'
<1> SUFFICES ASSUME \A s \in Requests : gcall'[s].at # "aborting", merging'.by = "cockpit"
             PROVE  FALSE
  BY DEF G!NothingIsHalfDone
<1>0. G!TypeOK /\ G!NoMerge.by = "nobody"
  BY DEF GitInv, G!NoMerge
\* The merge was in progress before, and its request has just ended.
<1>1. ASSUME NEW r \in Requests, gcall[r].at # "aborting", merging'.by = merging.by,
             NEW c \in G!Call, G!Becomes(r, c)
      PROVE  FALSE
  BY <1>0, <1>1, GitBecomes DEF G!NothingIsHalfDone
<1>2. ASSUME NEW r \in Requests, G!View(r) PROVE FALSE
  BY <1>0, <1>1, <1>2, GitViews, GitTypes DEF G!View, G!repo
<1>3. ASSUME NEW r \in Requests, G!Drop(r) PROVE FALSE
  BY <1>0, <1>1, <1>3, GitDrops DEF G!Drop, G!repo
<1>4. ASSUME NEW r \in Requests, G!Look(r) PROVE FALSE
  BY <1>0, <1>1, <1>4, GitLooks DEF G!Look, G!repo
<1>5. ASSUME NEW r \in Requests, G!Store(r) PROVE FALSE
  BY <1>0, <1>1, <1>5, GitStores DEF G!Store, G!repo
<1>6. ASSUME NEW r \in Requests, G!Answer(r) PROVE FALSE
  BY <1>0, <1>1, <1>6, GitTypes DEF G!Answer, G!repo
<1>7. ASSUME NEW r \in Requests, G!FetchBegin(r) PROVE FALSE
  BY <1>0, <1>1, <1>7, GitFetchBegins, GitTypes DEF G!FetchBegin, G!repo
<1>8. ASSUME NEW r \in Requests, G!FetchEnd(r) PROVE FALSE
  BY <1>0, <1>1, <1>8, GitFetchEnds DEF G!FetchEnd
<1>9. ASSUME NEW r \in Requests, G!CommitBegin(r) PROVE FALSE
  BY <1>0, <1>1, <1>9, GitCommitBegins, GitTypes DEF G!CommitBegin, G!repo
<1>10. ASSUME NEW r \in Requests, G!CommitAdd(r) PROVE FALSE
  <2>1. merging'.by = merging.by
    BY <1>0, <1>10, GitCommitAdds
  <2> QED
    BY <1>0, <1>1, <1>10, <2>1, GitCommitAdds DEF G!CommitAdd
<1>11. ASSUME NEW r \in Requests, G!CommitRun(r) PROVE FALSE
  <2>1. merging' = merging \/ merging' = G!NoMerge
    BY <1>0, <1>11, GitCommitRuns DEF G!repo
  <2> QED
    BY <1>0, <1>1, <1>11, <2>1, GitCommitRuns DEF G!CommitRun
<1>12. ASSUME NEW r \in Requests, G!MergeBegin(r) PROVE FALSE
  BY <1>0, <1>1, <1>12, GitMergeBegins, GitTypes DEF G!MergeBegin, G!repo
<1>13. ASSUME NEW r \in Requests, G!MergeRun(r) PROVE FALSE
  <2>1. PICK c \in G!Call :
              /\ G!Becomes(r, c) /\ c.op = gcall[r].op
              /\ \/ GitAborts(c) /\ UNCHANGED G!repo
                 \/ GitEnded(c) /\ UNCHANGED <<tree, index, merging>>
                 \/ /\ GitAborts(c) /\ merging' = G!Conflict("cockpit")
                    /\ UNCHANGED <<tree, index, acts>>
    BY <1>0, <1>13, GitMergeRuns
  <2>2. ~GitAborts(c)
    BY <1>0, <2>1, GitBecomes DEF GitAborts
  <2> QED
    BY <1>1, <1>13, <2>1, <2>2 DEF G!MergeRun
<1>14. ASSUME NEW r \in Requests, G!MergeAbort(r) PROVE FALSE
  BY <1>0, <1>14 DEF G!MergeAbort
<1>15. CASE G!Tick
  BY <1>15 DEF G!Tick, G!repo, G!NothingIsHalfDone
<1>16. CASE G!People
  <2>1. merging'.by = "cockpit" => merging.by = "cockpit"
    <3>1. CASE G!PersonResolves
      <4>1. merging.by \in {"nobody", "cockpit", "person"} /\ merging'.by = merging.by
        BY <1>0, <3>1 DEF G!PersonResolves, G!TypeOK, G!NoMerge, G!Merge
      <4> QED
        BY <4>1
    <3>2. CASE G!PersonMerges
      <4>1. merging'.by = "person"
        BY <3>2, GitMerges DEF G!PersonMerges
      <4> QED
        BY <4>1
    <3>3. CASE G!PersonCommits
      BY <1>0, <3>3 DEF G!PersonCommits
    <3>4. CASE \E e \in Texts : G!Edit(e)
      BY <3>4 DEF G!Edit
    <3> QED
      BY <1>16, <3>1, <3>2, <3>3, <3>4 DEF G!People
  <2>2. gcall' = gcall
    BY <1>16 DEF G!People, G!Edit, G!PersonMerges, G!PersonResolves, G!PersonCommits
  <2> QED
    BY <2>1, <2>2 DEF G!NothingIsHalfDone
<1> QED
  BY <1>2, <1>3, <1>4, <1>5, <1>6, <1>7, <1>8, <1>9, <1>10, <1>11, <1>12, <1>13, <1>14,
     <1>15, <1>16 DEF GitSound, G!Work

-----------------------------------------------------------------------------
\* One request at a time

GitBusy == {r \in Requests : gcall[r] # G!Idle}
GitOne == \A r, q \in GitBusy : r = q
GitCalmNext ==
    /\ \/ G!Tick
       \/ (\A r \in Requests : gcall[r].op # "merge") /\ G!People
       \/ \E r \in Requests : G!Work(r)
       \/ G!Fault
    /\ Cardinality(GitBusy') <= 1

\* What a request may rely on while it is alone, also if steps of it fail.
GitCalmCall(c) ==
    /\ c.at = "looking" /\ c.status = "ok" => cache = G!NoSnapshot
    /\ c.at \in {"building", "answered"} /\ c.status = "ok" => c.snap.acts >= c.due
    /\ c.at = "merging" => G!Clean
    /\ c.at = "aborting" =>
          tree = {} /\ (merging = G!NoMerge \/ merging.by = "cockpit" \/ merging.stage = "same")

GitCalm == GitOne /\ G!WorkIsKept /\ \A r \in Requests : GitCalmCall(gcall[r])

LEMMA GitOneAfter ==
    ASSUME Cardinality(GitBusy') <= 1
    PROVE  GitOne'
<1>1. IsFiniteSet(GitBusy') /\ Cardinality(GitBusy') \in Nat
  BY RequestsAreFinite, FS_Subset, FS_CardinalityType DEF GitBusy
<1>2. Cardinality(GitBusy') = 0 \/ Cardinality(GitBusy') = 1
  BY <1>1
<1>3. CASE Cardinality(GitBusy') = 0
  BY <1>1, <1>3, FS_EmptySet DEF GitOne
<1>4. CASE Cardinality(GitBusy') = 1
  BY <1>1, <1>4, FS_Singleton DEF GitOne
<1> QED
  BY <1>2, <1>3, <1>4

LEMMA GitOthersIdle ==
    ASSUME GitInv, GitOne, GitOne', NEW r \in Requests, NEW c \in G!Call, G!Becomes(r, c),
           gcall[r] # G!Idle \/ c # G!Idle
    PROVE  /\ gcall' \in [Requests -> G!Call] /\ gcall'[r] = c
           /\ \A s \in Requests \ {r} : gcall'[s] = G!Idle /\ gcall[s] = G!Idle
<1>1. /\ gcall' \in [Requests -> G!Call] /\ gcall'[r] = c
      /\ \A s \in Requests \ {r} : gcall'[s] = gcall[s]
  BY GitBecomes DEF GitInv
<1> QED
  BY <1>1 DEF GitOne, GitBusy

LEMMA GitCalmSet ==
    ASSUME GitInv, GitCalm, GitOne', NEW r \in Requests, NEW c \in G!Call, G!Becomes(r, c),
           gcall[r] # G!Idle \/ c # G!Idle, GitCalmCall(c)', G!WorkIsKept'
    PROVE  GitCalm'
<1>1. /\ gcall'[r] = c /\ \A s \in Requests \ {r} : gcall'[s] = G!Idle
  BY GitOthersIdle DEF GitCalm
<1>2. GitCalmCall(G!Idle)'
  BY GitTypes DEF GitCalmCall
<1>3. ASSUME NEW s \in Requests PROVE GitCalmCall(gcall[s])'
  <2>1. CASE s = r
    BY <1>1, <2>1 DEF GitCalmCall
  <2>2. CASE s # r
    BY <1>1, <1>2, <2>2 DEF GitCalmCall
  <2> QED
    BY <2>1, <2>2
<1> QED
  BY <1>3 DEF GitCalm

LEMMA GitCalmInit == G!Init => GitCalm
BY GitTypes DEF G!Init, GitCalm, GitOne, GitBusy, GitCalmCall, G!WorkIsKept

LEMMA GitCalmStep ==
    ASSUME GitInv, GitInv', GitCalm, GitCalmNext
    PROVE  GitCalm'
<1>0. /\ GitOne' /\ GitOne /\ G!TypeOK
      /\ \A r \in Requests : gcall[r] \in G!Call /\ GitCallInv(gcall[r]) /\ GitCalmCall(gcall[r])
  BY GitOneAfter DEF GitCalmNext, GitCalm, GitInv, G!TypeOK
<1>1. ASSUME NEW r \in Requests, G!View(r) PROVE GitCalm'
  <2>1. PICK c \in G!Call : /\ G!Becomes(r, c) /\ c.at = "looking" /\ c.status = "none"
                            /\ c.ran = FALSE
    BY <1>0, <1>1, GitViews
  <2>2. G!WorkIsKept' /\ GitCalmCall(c)'
    BY <1>1, <2>1 DEF G!View, G!history, GitCalm, G!WorkIsKept, GitCalmCall
  <2> QED
    BY <1>0, <2>1, <2>2, GitCalmSet, GitTypes
<1>2. ASSUME NEW r \in Requests, G!Drop(r) PROVE GitCalm'
  <2>1. PICK c \in G!Call : /\ G!Becomes(r, c) /\ c.at = "looking" /\ c.status = gcall[r].status
                            /\ c.ran = gcall[r].ran /\ c.due = gcall[r].due
    BY <1>0, <1>2, GitDrops
  <2>2. G!WorkIsKept' /\ GitCalmCall(c)'
    BY <1>2, <2>1 DEF G!Drop, G!history, GitCalm, G!WorkIsKept, GitCalmCall
  <2> QED
    BY <1>0, <2>1, <2>2, GitCalmSet, GitTypes
<1>3. ASSUME NEW r \in Requests, G!Look(r) PROVE GitCalm'
  <2>1. PICK c \in G!Call :
              /\ G!Becomes(r, c) /\ c.status = gcall[r].status /\ c.ran = gcall[r].ran
              /\ c.due = gcall[r].due /\ c.asked = time
              /\ \/ G!Current /\ c.at = "answered" /\ c.snap = cache
                 \/ c.at = "building" /\ c.snap.since = time /\ c.snap.acts = acts
    BY <1>0, <1>3, GitLooks
  <2>2. G!WorkIsKept' /\ UNCHANGED <<cache, acts>> /\ gcall[r].at = "looking"
    BY <1>3 DEF G!Look, G!repo, G!memory, G!history, GitCalm, G!WorkIsKept
  <2>3. gcall[r].status = "ok" => cache = G!NoSnapshot /\ gcall[r].due <= acts
    BY <1>0, <2>2 DEF GitCalmCall, GitCallInv
  <2>4. c.status = "ok" => c.snap.acts >= c.due
    <3>1. c.due \in Nat /\ acts \in Nat
      BY <1>0, GitTypes, GitAssumption DEF G!TypeOK
    <3> QED
      BY <2>1, <2>3, <3>1 DEF G!Current
  <2>5. GitCalmCall(c)'
    BY <2>1, <2>4 DEF GitCalmCall
  <2> QED
    BY <1>0, <2>1, <2>2, <2>5, GitCalmSet, GitTypes
<1>4. ASSUME NEW r \in Requests, G!Store(r) PROVE GitCalm'
  <2>1. PICK c \in G!Call :
              /\ G!Becomes(r, c) /\ c.at = "answered" /\ c.status = gcall[r].status
              /\ c.ran = gcall[r].ran /\ c.due = gcall[r].due /\ c.asked = gcall[r].asked
              /\ c.snap = gcall[r].snap
    BY <1>0, <1>4, GitStores
  <2>2. G!WorkIsKept' /\ gcall[r].at = "building"
    BY <1>4 DEF G!Store, G!history, GitCalm, G!WorkIsKept
  <2>3. GitCalmCall(c)'
    BY <1>0, <2>1, <2>2 DEF GitCalmCall
  <2> QED
    BY <1>0, <2>1, <2>2, <2>3, GitCalmSet, GitTypes
<1>5. ASSUME NEW r \in Requests, G!Answer(r) \/ G!AuditFails(r) PROVE GitCalm'
  <2>1. G!Becomes(r, G!Idle) /\ gcall[r].at = "answered" /\ G!WorkIsKept'
    BY <1>5 DEF G!Answer, G!AuditFails, GitCalm, G!WorkIsKept
  <2>2. GitCalmCall(G!Idle)'
    BY GitTypes DEF GitCalmCall
  <2> QED
    BY <1>0, <2>1, <2>2, GitCalmSet, GitTypes
\* A command that has ended, or is about to begin its next part.
<1>6. ASSUME NEW r \in Requests, NEW c \in G!Call, G!Becomes(r, c), gcall[r] # G!Idle \/ c # G!Idle,
             c.at \in {"looking", "dropping", "fetching", "adding", "committing"},
             c.at = "looking" => c.status # "ok", G!WorkIsKept'
      PROVE  GitCalm'
  <2>1. GitCalmCall(c)'
    BY <1>6 DEF GitCalmCall
  <2> QED
    BY <1>0, <1>6, <2>1, GitCalmSet
<1>7. ASSUME NEW r \in Requests, G!FetchBegin(r) PROVE GitCalm'
  <2>1. G!WorkIsKept'
    BY <1>7 DEF G!FetchBegin, GitCalm, G!WorkIsKept
  <2> QED
    BY <1>0, <1>6, <1>7, <2>1, GitFetchBegins, GitTypes
<1>8. ASSUME NEW r \in Requests, G!FetchEnd(r) PROVE GitCalm'
  <2>1. G!WorkIsKept'
    BY <1>8 DEF G!FetchEnd, G!history, GitCalm, G!WorkIsKept
  <2> QED
    BY <1>0, <1>6, <1>8, <2>1, GitFetchEnds, GitTypes DEF GitEnded
<1>9. ASSUME NEW r \in Requests, G!CommitBegin(r) PROVE GitCalm'
  <2>1. G!WorkIsKept'
    BY <1>9 DEF G!CommitBegin, G!history, GitCalm, G!WorkIsKept
  <2> QED
    BY <1>0, <1>6, <1>9, <2>1, GitCommitBegins, GitTypes
<1>10. ASSUME NEW r \in Requests, G!CommitAdd(r) PROVE GitCalm'
  <2>1. G!WorkIsKept'
    BY <1>10 DEF G!CommitAdd, G!history, GitCalm, G!WorkIsKept
  <2> QED
    BY <1>0, <1>6, <1>10, <2>1, GitCommitAdds, GitTypes
<1>11. ASSUME NEW r \in Requests, G!CommitRun(r) \/ G!CommitTimeout(r) PROVE GitCalm'
  <2>1. merging.stage = "added" => merging.by # "undone"
    BY <1>0, GitMerges DEF G!TypeOK, GitMerging
  <2>2. G!WorkIsKept'
    BY <1>11, <2>1 DEF G!CommitRun, G!CommitTimeout, G!Commits, GitCalm, G!WorkIsKept
  <2> QED
    BY <1>0, <1>6, <1>11, <2>2, GitCommitRuns, GitTypes DEF GitEnded
<1>12. ASSUME NEW r \in Requests, G!MergeBegin(r) PROVE GitCalm'
  <2>1. PICK c \in G!Call :
              /\ G!Becomes(r, c) /\ c.status # "ok" /\ c.ran = FALSE /\ c.op = "merge"
              /\ c.at = "looking" \/ (c.at = "merging" /\ G!Clean)
    BY <1>0, <1>12, GitMergeBegins
  <2>2. G!WorkIsKept' /\ G!Clean' = G!Clean
    BY <1>12 DEF G!MergeBegin, G!repo, G!history, GitCalm, G!WorkIsKept, G!Clean
  <2>3. GitCalmCall(c)'
    BY <2>1, <2>2 DEF GitCalmCall
  <2> QED
    BY <1>0, <2>1, <2>2, <2>3, GitCalmSet, GitTypes
<1>13. ASSUME NEW r \in Requests, G!MergeRun(r) PROVE GitCalm'
  <2>1. PICK c \in G!Call :
              /\ G!Becomes(r, c) /\ c.op = gcall[r].op
              /\ \/ GitAborts(c) /\ UNCHANGED G!repo
                 \/ GitEnded(c) /\ UNCHANGED <<tree, index, merging>>
                 \/ /\ GitAborts(c) /\ merging' = G!Conflict("cockpit")
                    /\ UNCHANGED <<tree, index, acts>>
    BY <1>0, <1>13, GitMergeRuns
  <2>2. G!WorkIsKept' /\ gcall[r].at = "merging" /\ G!Clean /\ tree = {}
    BY <1>0, <1>13 DEF G!MergeRun, G!history, GitCalm, G!WorkIsKept, GitCalmCall, G!Clean
  <2>3. merging = G!NoMerge \/ merging.stage = "same"
    BY <1>0, <2>2, GitMerges DEF G!Clean, G!TypeOK, GitMerging
  <2>4. GitCalmCall(c)'
    <3>1. CASE GitEnded(c)
      BY <3>1 DEF GitCalmCall, GitEnded
    <3>2. CASE GitAborts(c) /\ UNCHANGED G!repo
      BY <2>2, <2>3, <3>2 DEF GitCalmCall, GitAborts, G!repo
    <3>3. CASE GitAborts(c) /\ merging' = G!Conflict("cockpit") /\ tree' = tree
      BY <2>2, <3>3, GitMerges DEF GitCalmCall, GitAborts
    <3> QED
      BY <2>1, <3>1, <3>2, <3>3
  <2> QED
    BY <1>0, <2>1, <2>2, <2>4, GitCalmSet, GitTypes
<1>14. ASSUME NEW r \in Requests, G!MergeTimeout(r) PROVE GitCalm'
  <2>1. PICK c \in G!Call : G!Becomes(r, c) /\ c.op = gcall[r].op /\ GitAborts(c)
    BY <1>0, <1>14, GitMergeTimesOut
  <2>2. /\ G!WorkIsKept' /\ gcall[r].at = "merging" /\ tree' = {}
        /\ merging' = G!NoMerge \/ merging' = G!Conflict("cockpit")
    BY <1>0, <1>14 DEF G!MergeTimeout, G!history, GitCalm, G!WorkIsKept, GitCalmCall, G!Clean
  <2>3. merging' = G!NoMerge \/ merging'.by = "cockpit"
    BY <2>2, GitMerges
  <2>4. GitCalmCall(c)'
    BY <2>1, <2>2, <2>3 DEF GitCalmCall, GitAborts
  <2> QED
    BY <1>0, <2>1, <2>2, <2>4, GitCalmSet, GitTypes
<1>15. ASSUME NEW r \in Requests, G!MergeAbort(r) \/ G!AbortFails(r) PROVE GitCalm'
  <2>1. PICK c \in G!Call : /\ G!Becomes(r, c) /\ c.at = "looking"
                            /\ c.status = gcall[r].status /\ c.status \in {"failed", "conflict"}
    BY <1>15, GitMergeAborts
  <2>2. /\ gcall[r].at = "aborting" /\ tree = {}
        /\ merging = G!NoMerge \/ merging.by = "cockpit" \/ merging.stage = "same"
    BY <1>0, <1>15 DEF G!MergeAbort, G!AbortFails, GitCalmCall
  <2>3. G!WorkIsKept'
    <3>1. CASE G!AbortFails(r)
      BY <3>1 DEF G!AbortFails, G!history, GitCalm, G!WorkIsKept
    <3>2. CASE G!MergeAbort(r)
      <4>1. "undone" \notin spoilt'
        BY <2>2, <3>2 DEF G!MergeAbort, GitCalm, G!WorkIsKept
      <4>2. lost' = {}
        BY <2>2, <3>2 DEF G!MergeAbort, GitCalm, G!WorkIsKept
      <4> QED
        BY <4>1, <4>2 DEF G!WorkIsKept
    <3> QED
      BY <1>15, <3>1, <3>2
  <2> QED
    BY <1>0, <1>6, <2>1, <2>2, <2>3, GitTypes
\* Steps that change no request.
<1>16. CASE G!Tick
  <2>1. G!WorkIsKept' /\ GitOne' /\ \A r \in Requests : GitCalmCall(gcall[r])'
    BY <1>0, <1>16 DEF G!Tick, G!repo, G!memory, G!history, G!Clean, GitCalm, G!WorkIsKept,
                       GitCalmCall
  <2> QED
    BY <2>1 DEF GitCalm
<1>17. CASE (\A r \in Requests : gcall[r].op # "merge") /\ G!People
  <2>1. /\ UNCHANGED <<acts, G!memory, gcall, G!history>>
        /\ \A r \in Requests : gcall[r].at \notin {"merging", "aborting"}
    BY <1>0, <1>17 DEF G!People, G!Edit, G!PersonMerges, G!PersonResolves,
                        G!PersonCommits, GitCallInv
  <2>2. G!WorkIsKept' /\ GitOne' /\ \A r \in Requests : GitCalmCall(gcall[r])'
    BY <1>0, <2>1 DEF G!memory, G!history, GitCalm, G!WorkIsKept, GitCalmCall
  <2> QED
    BY <2>2 DEF GitCalm
<1>18. CASE G!Restart
  <2>1. \A r \in Requests : gcall'[r] = G!Idle
    BY <1>18 DEF G!Restart
  <2>2. G!WorkIsKept' /\ GitOne' /\ \A r \in Requests : GitCalmCall(gcall[r])'
    BY <1>0, <1>18, <2>1, GitTypes DEF G!Restart, GitCalm, G!WorkIsKept, GitCalmCall
  <2> QED
    BY <2>2 DEF GitCalm
<1> QED
  BY <1>1, <1>2, <1>3, <1>4, <1>5, <1>7, <1>8, <1>9, <1>10, <1>11, <1>12, <1>13, <1>14, <1>15,
     <1>16, <1>17, <1>18 DEF GitCalmNext, G!Work, G!Fault

LEMMA GitShown == GitCalm => G!SuccessIsShown /\ G!WorkIsKept
BY DEF GitCalm, GitCalmCall, G!SuccessIsShown

\* One request at a time, of which none fails.
GitCalmSound == GitCalmNext /\ GitSound

GitHonest ==
    /\ G!NothingIsHalfDone
    /\ \A r \in Requests : gcall[r].at = "fetching" => gcall[r].asked = sent.last
    /\ (\A r \in Requests : gcall[r].at # "fetching") => lastFetch = sent.last
    /\ G!OwnConflictsStayOut /\ G!FetchesKeepDistance /\ G!NothingIsSilent

LEMMA GitHonestInit == G!Init => GitHonest
BY GitTypes DEF G!Init, GitHonest, G!NothingIsHalfDone, G!NoMerge, G!OwnConflictsStayOut,
                G!FetchesKeepDistance, G!NothingIsSilent

LEMMA GitHonestStep ==
    ASSUME GitInv, GitInv', GitCalm, GitHonest, GitCalmSound
    PROVE  GitHonest'
<1>0. /\ GitOne' /\ GitOne /\ G!TypeOK /\ G!NothingIsHalfDone'
      /\ \A r \in Requests : gcall[r] \in G!Call /\ GitCallInv(gcall[r])
  BY GitOneAfter, GitWholeStep DEF GitCalmSound, GitCalmNext, GitCalm, GitInv, G!TypeOK, GitHonest
<1>1. G!OwnConflictsStayOut /\ G!FetchesKeepDistance /\ G!NothingIsSilent
  BY DEF GitHonest
\* A step that is no fetch.
<1>2. ASSUME NEW r \in Requests, NEW c \in G!Call, G!Becomes(r, c), gcall[r] # G!Idle \/ c # G!Idle,
             gcall[r].at # "fetching", c.at # "fetching", UNCHANGED sent, lastFetch' = lastFetch,
             G!OwnConflictsStayOut', G!NothingIsSilent'
      PROVE  GitHonest'
  <2>1. gcall'[r] = c /\ \A s \in Requests \ {r} : gcall'[s] = G!Idle /\ gcall[s] = G!Idle
    BY <1>0, <1>2, GitOthersIdle
  <2>2. \A s \in Requests : gcall[s].at # "fetching" /\ gcall'[s].at # "fetching"
    BY <1>2, <2>1, GitTypes
  <2>3. G!FetchesKeepDistance'
    BY <1>1, <1>2 DEF G!FetchesKeepDistance
  <2> QED
    BY <1>0, <1>2, <2>2, <2>3 DEF GitHonest
<1>3. ASSUME NEW r \in Requests, G!View(r) PROVE GitHonest'
  <2>1. UNCHANGED <<sent, lastFetch, spoilt, silent>> /\ gcall[r].at # "fetching"
    BY <1>3, GitTypes DEF G!View, G!memory, G!history
  <2> QED
    BY <1>0, <1>1, <1>2, <1>3, <2>1, GitViews, GitTypes DEF G!OwnConflictsStayOut, G!NothingIsSilent
<1>4. ASSUME NEW r \in Requests, G!Drop(r) PROVE GitHonest'
  <2>1. UNCHANGED <<sent, lastFetch, spoilt, silent>> /\ gcall[r].at = "dropping"
    BY <1>4 DEF G!Drop, G!history
  <2> QED
    BY <1>0, <1>1, <1>2, <1>4, <2>1, GitDrops, GitTypes DEF G!OwnConflictsStayOut, G!NothingIsSilent
<1>5. ASSUME NEW r \in Requests, G!Look(r) PROVE GitHonest'
  <2>1. UNCHANGED <<sent, lastFetch, spoilt, silent>> /\ gcall[r].at = "looking"
    BY <1>5 DEF G!Look, G!memory, G!history
  <2>2. G!OwnConflictsStayOut' /\ G!NothingIsSilent'
    BY <1>1, <2>1 DEF G!OwnConflictsStayOut, G!NothingIsSilent
  <2>3. PICK c \in G!Call : G!Becomes(r, c) /\ c.at \in {"answered", "building"}
    BY <1>0, <1>5, GitLooks
  <2> QED
    BY <1>2, <2>1, <2>2, <2>3, GitTypes
<1>6. ASSUME NEW r \in Requests, G!Store(r) PROVE GitHonest'
  <2>1. UNCHANGED <<sent, lastFetch, spoilt, silent>> /\ gcall[r].at = "building"
    BY <1>6 DEF G!Store, G!history
  <2>2. G!OwnConflictsStayOut' /\ G!NothingIsSilent'
    BY <1>1, <2>1 DEF G!OwnConflictsStayOut, G!NothingIsSilent
  <2>3. PICK c \in G!Call : G!Becomes(r, c) /\ c.at = "answered"
    BY <1>0, <1>6, GitStores
  <2> QED
    BY <1>2, <2>1, <2>2, <2>3, GitTypes
<1>7. ASSUME NEW r \in Requests, G!Answer(r) PROVE GitHonest'
  <2>1. /\ UNCHANGED <<sent, lastFetch, spoilt>> /\ gcall[r].at = "answered" /\ G!Becomes(r, G!Idle)
        /\ silent' = (silent \/ (gcall[r].ran /\ gcall[r].status \notin G!Audited))
    BY <1>7 DEF G!Answer, G!memory
  <2>2. ~(gcall[r].ran /\ gcall[r].status \notin G!Audited)
    BY <1>0, <2>1 DEF GitCallInv
  <2>3. G!OwnConflictsStayOut' /\ G!NothingIsSilent'
    BY <1>1, <2>1, <2>2 DEF G!OwnConflictsStayOut, G!NothingIsSilent
  <2> QED
    BY <1>2, <2>1, <2>3, GitTypes
<1>8. ASSUME NEW r \in Requests, G!FetchBegin(r) PROVE GitHonest'
  <2>1. PICK c \in G!Call :
              /\ G!Becomes(r, c) /\ c.status # "ok"
              /\ \/ c.at = "looking" /\ c.ran = FALSE /\ UNCHANGED sent
                 \/ /\ c.at = "fetching" /\ c.asked = time /\ ~G!TooSoon
                    /\ sent' = [last |-> time, before |-> sent.last]
    BY <1>0, <1>8, GitFetchBegins
  <2>2. /\ UNCHANGED <<time, lastFetch, spoilt, silent>> /\ gcall[r] = G!Idle
        /\ G!OwnConflictsStayOut' /\ G!NothingIsSilent'
    BY <1>1, <1>8 DEF G!FetchBegin, G!memory, G!OwnConflictsStayOut, G!NothingIsSilent
  <2>3. CASE c.at = "looking"
    BY <1>2, <2>1, <2>2, <2>3, GitTypes
  <2>4. CASE c.at = "fetching"
    <3>1. gcall'[r] = c /\ \A s \in Requests \ {r} : gcall'[s] = G!Idle /\ gcall[s] = G!Idle
      BY <1>0, <2>1, <2>4, GitOthersIdle, GitTypes
    <3>2. lastFetch = sent.last
      BY <2>2, <3>1, GitTypes DEF GitHonest
    <3>3. sent'.last = time /\ sent'.before = lastFetch
      BY <2>1, <2>4, <3>2
    <3>4. G!FetchesKeepDistance'
      <4>1. time \in Nat /\ (lastFetch # G!Never => lastFetch \in Nat)
        BY <1>0, GitTypes DEF G!TypeOK
      <4>2. lastFetch # G!Never => time >= lastFetch + Interval
        BY <2>1, <2>4, <4>1, GitAssumption DEF G!TooSoon
      <4> QED
        BY <3>3, <4>2 DEF G!FetchesKeepDistance, G!Never
    <3> QED
      BY <1>0, <2>1, <2>2, <2>4, <3>1, <3>3, <3>4, GitTypes DEF GitHonest
  <2> QED
    BY <2>1, <2>3, <2>4
<1>9. ASSUME NEW r \in Requests, G!FetchEnd(r) PROVE GitHonest'
  <2>1. PICK c \in G!Call : G!Becomes(r, c) /\ GitEnded(c)
    BY <1>0, <1>9, GitFetchEnds
  <2>2. /\ UNCHANGED <<sent, spoilt, silent>> /\ gcall[r].at = "fetching"
        /\ lastFetch' = gcall[r].asked
    BY <1>9 DEF G!FetchEnd, G!history
  <2>3. gcall'[r] = c /\ \A s \in Requests \ {r} : gcall'[s] = G!Idle
    BY <1>0, <2>1, <2>2, GitOthersIdle, GitTypes
  <2>4. \A s \in Requests : gcall'[s].at # "fetching"
    BY <2>1, <2>3, GitTypes DEF GitEnded
  <2>5. lastFetch' = sent'.last
    BY <2>2 DEF GitHonest
  <2>6. G!OwnConflictsStayOut' /\ G!NothingIsSilent' /\ G!FetchesKeepDistance'
    BY <1>1, <2>2 DEF G!OwnConflictsStayOut, G!NothingIsSilent, G!FetchesKeepDistance
  <2> QED
    BY <1>0, <2>4, <2>5, <2>6 DEF GitHonest
<1>10. ASSUME NEW r \in Requests, G!CommitBegin(r) PROVE GitHonest'
  <2>1. UNCHANGED <<sent, lastFetch, spoilt, silent>> /\ gcall[r].at # "fetching"
    BY <1>10, GitTypes DEF G!CommitBegin, G!memory, G!history
  <2>2. PICK c \in G!Call : G!Becomes(r, c) /\ c.at \in {"looking", "adding"}
    BY <1>0, <1>10, GitCommitBegins
  <2> QED
    BY <1>1, <1>2, <2>1, <2>2, GitTypes DEF G!OwnConflictsStayOut, G!NothingIsSilent
<1>11. ASSUME NEW r \in Requests, G!CommitAdd(r) PROVE GitHonest'
  <2>1. UNCHANGED <<sent, lastFetch, spoilt, silent>> /\ gcall[r].at = "adding"
    BY <1>11 DEF G!CommitAdd, G!memory, G!history
  <2>2. PICK c \in G!Call : G!Becomes(r, c) /\ c.at \in {"looking", "committing"}
    BY <1>0, <1>11, GitCommitAdds
  <2> QED
    BY <1>1, <1>2, <2>1, <2>2, GitTypes DEF G!OwnConflictsStayOut, G!NothingIsSilent
<1>12. ASSUME NEW r \in Requests, G!CommitRun(r) PROVE GitHonest'
  <2>1. UNCHANGED <<sent, lastFetch, silent>> /\ gcall[r].at = "committing"
    BY <1>12 DEF G!CommitRun, G!memory
  <2>2. PICK c \in G!Call : G!Becomes(r, c) /\ c.at \in {"looking", "dropping"}
    BY <1>0, <1>12, GitCommitRuns DEF GitEnded
  <2>3. merging.by # "cockpit"
    <3>1. \A s \in Requests \ {r} : gcall[s] = G!Idle
      BY <1>0, <2>1, <2>2, GitOthersIdle, GitTypes
    <3> QED
      BY <2>1, <3>1, GitTypes DEF GitHonest, G!NothingIsHalfDone
  <2>4. G!OwnConflictsStayOut'
    BY <1>1, <1>12, <2>3 DEF G!CommitRun, G!Commits, G!OwnConflictsStayOut
  <2> QED
    BY <1>1, <1>2, <2>1, <2>2, <2>4, GitTypes DEF G!NothingIsSilent
<1>13. ASSUME NEW r \in Requests, G!MergeBegin(r) PROVE GitHonest'
  <2>1. UNCHANGED <<sent, lastFetch, spoilt, silent>> /\ gcall[r].at # "fetching"
    BY <1>13, GitTypes DEF G!MergeBegin, G!memory, G!history
  <2>2. PICK c \in G!Call : G!Becomes(r, c) /\ c.at \in {"looking", "merging"}
    BY <1>0, <1>13, GitMergeBegins
  <2> QED
    BY <1>1, <1>2, <2>1, <2>2, GitTypes DEF G!OwnConflictsStayOut, G!NothingIsSilent
<1>14. ASSUME NEW r \in Requests, G!MergeRun(r) PROVE GitHonest'
  <2>1. UNCHANGED <<sent, lastFetch, spoilt, silent>> /\ gcall[r].at = "merging"
    BY <1>14 DEF G!MergeRun, G!memory, G!history
  <2>2. PICK c \in G!Call : G!Becomes(r, c) /\ c.at \in {"looking", "dropping", "aborting"}
    BY <1>0, <1>14, GitMergeRuns DEF GitEnded, GitAborts
  <2> QED
    BY <1>1, <1>2, <2>1, <2>2, GitTypes DEF G!OwnConflictsStayOut, G!NothingIsSilent
<1>15. ASSUME NEW r \in Requests, G!MergeAbort(r) PROVE GitHonest'
  <2>1. UNCHANGED <<sent, lastFetch, silent>> /\ gcall[r].at = "aborting"
    BY <1>15 DEF G!MergeAbort, G!memory
  <2>2. PICK c \in G!Call : G!Becomes(r, c) /\ c.at = "looking"
    BY <1>15, GitMergeAborts
  <2>3. G!OwnConflictsStayOut'
    BY <1>1, <1>15 DEF G!MergeAbort, G!OwnConflictsStayOut
  <2> QED
    BY <1>1, <1>2, <2>1, <2>2, <2>3, GitTypes DEF G!NothingIsSilent
<1>16. CASE G!Tick \/ G!People
  <2>1. UNCHANGED <<G!memory, gcall, G!history>>
    BY <1>16 DEF G!Tick, G!People, G!Edit, G!PersonMerges, G!PersonResolves, G!PersonCommits
  <2> QED
    BY <1>0, <2>1 DEF G!memory, G!history, GitHonest, G!OwnConflictsStayOut, G!NothingIsSilent,
                      G!FetchesKeepDistance
<1> QED
  BY <1>3, <1>4, <1>5, <1>6, <1>7, <1>8, <1>9, <1>10, <1>11, <1>12, <1>13, <1>14, <1>15, <1>16
     DEF GitCalmSound, GitSound, G!Work

GitRuns == part \in {"git", "git with faults"}
GitRun ==
    GitRuns =>
        /\ GitInv
        /\ part = "git with faults" => calm
        /\ part = "git" => G!NothingIsHalfDone
        /\ calm => GitCalm
        /\ part = "git" /\ calm => GitHonest

LEMMA GitRunStep == GitRun /\ [OutsideNext]_outsideVars => GitRun'
<1> SUFFICES ASSUME GitRun, [OutsideNext]_outsideVars, GitRuns, part' = part PROVE GitRun'
  BY PartSteps DEF GitRun, GitRuns
<1>0. calm' = calm /\ GitInv
  BY PartSteps DEF GitRun, GitRuns
<1>1. CASE GitNext
  <2>1. GitInv'
    BY <1>0, <1>1, GitInvStep DEF GitNext, G!Next
  <2>2. part = "git" => GitSound
    BY <1>1 DEF GitNext, GitSound
  <2>3. part = "git" => G!NothingIsHalfDone'
    BY <1>0, <2>2, GitWholeStep DEF GitRun
  <2>4. calm => GitCalmNext
    BY <1>1 DEF GitNext, GitCalmNext, GitBusy
  <2>5. calm => GitCalm'
    BY <1>0, <2>1, <2>4, GitCalmStep DEF GitRun
  <2>6. part = "git" /\ calm => GitHonest'
    BY <1>0, <2>1, <2>2, <2>4, GitHonestStep DEF GitRun, GitCalmSound
  <2> QED
    BY <1>0, <2>1, <2>3, <2>5, <2>6 DEF GitRun
<1>2. CASE UNCHANGED gitVars
  <2>1. UNCHANGED G!vars
    BY <1>2 DEF gitVars, G!vars, G!repo, G!memory, G!history
  <2>2. GitInv'
    BY <1>0, <2>1, GitInvStep
  <2>3. GitCalm => GitCalm'
    BY <1>2 DEF gitVars, GitCalm, GitOne, GitBusy, GitCalmCall, G!Clean, G!WorkIsKept
  <2>4. GitHonest => GitHonest'
    BY <1>2 DEF gitVars, GitHonest, G!NothingIsHalfDone, G!OwnConflictsStayOut,
                G!FetchesKeepDistance, G!NothingIsSilent
  <2>5. G!NothingIsHalfDone => G!NothingIsHalfDone'
    BY <1>2 DEF gitVars, G!NothingIsHalfDone
  <2> QED
    BY <1>0, <2>2, <2>3, <2>4, <2>5 DEF GitRun
<1> QED
  BY <1>1, <1>2, PartSteps DEF GitRuns

\* No answer shows the repository as it was a TTL before the request looked, and no
\* merge of the cockpit stays half done unless git itself failed; one request at a
\* time a success is shown and nobody's work is hit, also if git fails, and without
\* failures fetches keep their distance and nothing goes unaudited (snapshot,
\* fetch, commit and merge of git_service.py with their endpoints).
THEOREM CockpitOfOutside == OutsideSpec => []CockpitIsSafe
<1>1. OutsideInit => GitRun
  <2> SUFFICES ASSUME OutsideInit, GitRuns PROVE GitRun
    BY DEF GitRun
  <2>1. G!Init /\ (part = "git with faults" => calm)
    BY DEF OutsideInit, GitRuns
  <2> QED
    BY <2>1, GitInvInit, GitCalmInit, GitHonestInit DEF GitRun, GitHonest
<1>2. GitRun => CockpitIsSafe
  <2> SUFFICES ASSUME GitRun PROVE CockpitIsSafe
    OBVIOUS
  <2>1. GitRuns => G!TypeOK /\ G!AnswersAreRecent
    BY GitRecent DEF GitRun
  <2>2. GitRuns /\ calm => G!SuccessIsShown /\ G!WorkIsKept
    BY GitShown DEF GitRun
  <2> QED
    BY <2>1, <2>2 DEF GitRun, GitRuns, CockpitIsSafe, G!CockpitIsHonest, GitHonest
<1> QED
  BY <1>1, <1>2, GitRunStep, PTL DEF OutsideSpec, outsideVars

-----------------------------------------------------------------------------
(***************************************************************************)
(* The context packs                                                       *)
(***************************************************************************)

\* What documents weigh, counted in units: the sum that Total folds up does not
\* depend on the order of the documents.
PackMax == MaxSize + Long + 1
PackUnits(T) == {p \in T \X (1..PackMax) : p[2] <= K!SizeOf(p[1])}
PackWeight(T) == Cardinality(PackUnits(T))

LEMMA PackSizes == K!TypeOK => PackMax \in Nat /\ \A d \in Docs : K!SizeOf(d) \in 1..PackMax
<1> SUFFICES ASSUME K!TypeOK, NEW d \in Docs PROVE K!SizeOf(d) \in 1..PackMax
  BY PacksAssumption DEF PackMax
<1>1. doc[d].size \in 1..MaxSize /\ doc[d].short \in 1..(Long + 1)
  BY DEF K!TypeOK, K!Doc
<1> QED
  BY <1>1, PacksAssumption DEF PackMax, K!SizeOf

LEMMA PackFinite ==
    ASSUME K!TypeOK, NEW T \in SUBSET Docs
    PROVE  IsFiniteSet(PackUnits(T)) /\ PackWeight(T) \in Nat
<1>1. IsFiniteSet(T)
  BY PacksAssumption, FS_Subset
<1>0. PackMax \in Int
  BY PackSizes
<1>3. IsFiniteSet(1..PackMax)
  BY <1>0, FS_Interval
<1>2. IsFiniteSet(T \X (1..PackMax))
  BY <1>1, <1>3, FS_Product
<1> QED
  BY <1>2, FS_Subset, FS_CardinalityType DEF PackUnits, PackWeight

LEMMA PackWithout ==
    ASSUME K!TypeOK, NEW T \in SUBSET Docs, NEW x \in T
    PROVE  PackWeight(T) = K!SizeOf(x) + PackWeight(T \ {x})
<1> DEFINE n == K!SizeOf(x)
           U == {x} \X (1..n)
           V == PackUnits(T \ {x})
<1>1. n \in 1..PackMax /\ n \in Nat
  BY PackSizes
<1>2. IsFiniteSet(1..n) /\ Cardinality(1..n) = n
  BY <1>1, FS_Interval
<1>3. IsFiniteSet({x}) /\ Cardinality({x}) = 1
  BY FS_Singleton
<1>4. IsFiniteSet(U) /\ Cardinality(U) = n
  BY <1>1, <1>2, <1>3, FS_Product
<1>5. IsFiniteSet(V) /\ PackWeight(T \ {x}) = Cardinality(V) /\ Cardinality(V) \in Nat
  BY PackFinite DEF PackWeight
<1>6. U \cap V = {}
  BY DEF PackUnits
<1>7. PackUnits(T) = U \cup V
  <2>1. ASSUME NEW p \in PackUnits(T) PROVE p \in U \cup V
    <3>1. p = <<p[1], p[2]>> /\ p[1] \in T /\ p[2] \in 1..PackMax /\ p[2] <= K!SizeOf(p[1])
      BY <2>1 DEF PackUnits
    <3>2. CASE p[1] = x
      <4>1. p[2] \in 1..n
        BY <1>1, <3>1, <3>2
      <4> QED
        BY <3>1, <3>2, <4>1
    <3>3. CASE p[1] # x
      BY <3>1, <3>3 DEF PackUnits
    <3> QED
      BY <3>2, <3>3
  <2>2. ASSUME NEW p \in U PROVE p \in PackUnits(T)
    <3>1. p = <<p[1], p[2]>> /\ p[1] = x /\ p[2] \in 1..n
      BY <2>2
    <3>2. PackMax \in Nat /\ p[2] \in 1..PackMax /\ p[2] <= K!SizeOf(x)
      BY <1>1, <3>1, PackSizes
    <3>3. <<x, p[2]>> \in PackUnits(T)
      BY <3>2 DEF PackUnits
    <3> QED
      BY <3>1, <3>3
  <2>3. V \subseteq PackUnits(T)
    BY DEF PackUnits
  <2> QED
    BY <2>1, <2>2, <2>3
<1> HIDE DEF U, V, n
<1>8. Cardinality(U \cup V) = Cardinality(U) + Cardinality(V) - Cardinality(U \cap V)
  BY <1>4, <1>5, FS_Union
<1>9. Cardinality(U \cap V) = 0
  BY <1>6, FS_EmptySet
<1>10. PackWeight(T) = Cardinality(U \cup V)
  BY <1>7 DEF PackWeight
<1>11. PackWeight(T) = n + PackWeight(T \ {x})
  BY <1>1, <1>4, <1>5, <1>8, <1>9, <1>10
<1> QED
  BY <1>11 DEF n

LEMMA PackOfNone == PackWeight({}) = 0
BY FS_EmptySet DEF PackWeight, PackUnits

\* What the fold of Total does to a function over the sets of documents.
Folds(iter, T) ==
    iter = [s \in SUBSET T |->
        IF s = {} THEN 0 ELSE LET x == CHOOSE x \in s : TRUE IN K!SizeOf(x) + iter[s \ {x}]]

LEMMA PackFolds ==
    ASSUME K!TypeOK, NEW T \in SUBSET Docs
    PROVE  Folds([s \in SUBSET T |-> PackWeight(s)], T)
<1> DEFINE w == [s \in SUBSET T |-> PackWeight(s)]
           x(s) == CHOOSE x \in s : TRUE
<1>1. ASSUME NEW s \in SUBSET T
      PROVE  w[s] = IF s = {} THEN 0 ELSE K!SizeOf(x(s)) + w[s \ {x(s)}]
  <2>1. CASE s = {}
    BY <2>1, PackOfNone
  <2>2. CASE s # {}
    <3>1. x(s) \in s /\ s \in SUBSET Docs /\ s \ {x(s)} \in SUBSET T
      BY <2>2
    <3>2. PackWeight(s) = K!SizeOf(x(s)) + PackWeight(s \ {x(s)})
      BY <3>1, PackWithout
    <3> QED
      BY <2>2, <3>1, <3>2
  <2> QED
    BY <2>1, <2>2
<1>2. w = [s \in SUBSET T |-> IF s = {} THEN 0 ELSE K!SizeOf(x(s)) + w[s \ {x(s)}]]
  BY <1>1
<1> QED
  BY <1>2 DEF Folds

LEMMA PackFoldIs ==
    ASSUME K!TypeOK, NEW T \in SUBSET Docs, NEW iter, Folds(iter, T)
    PROVE  \A s \in SUBSET T : iter[s] = PackWeight(s)
<1> DEFINE Wrong == {s \in SUBSET T : iter[s] # PackWeight(s)}
           Sizes == {Cardinality(s) : s \in Wrong}
<1>1. \A s \in SUBSET T : IsFiniteSet(s) /\ Cardinality(s) \in Nat
  BY PacksAssumption, FS_Subset, FS_CardinalityType
<1> SUFFICES ASSUME Wrong # {} PROVE FALSE
  OBVIOUS
<1>2. Sizes \in SUBSET Nat /\ Sizes # {}
  BY <1>1
<1>3. PICK n \in Sizes : \A m \in Sizes : n <= m
  <2> HIDE DEF Sizes
  <2> QED
    BY <1>2, LeastIs
<1>4. PICK s \in Wrong : Cardinality(s) = n
  BY <1>3
<1> DEFINE x == CHOOSE x \in s : TRUE
           r == s \ {x}
<1>5. iter[s] = IF s = {} THEN 0 ELSE K!SizeOf(x) + iter[r]
  BY <1>4 DEF Folds
<1>6. s # {}
  BY <1>4, <1>5, PackOfNone
<1>7. x \in s /\ s \in SUBSET T /\ r \in SUBSET T
  BY <1>4, <1>6
<1>8. Cardinality(r) = Cardinality(s) - 1
  BY <1>1, <1>7, FS_RemoveElement
<1>9. r \notin Wrong
  <2> SUFFICES ASSUME r \in Wrong PROVE FALSE
    OBVIOUS
  <2>1. Cardinality(r) \in Sizes
    OBVIOUS
  <2>2. n <= Cardinality(r)
    BY <1>3, <2>1
  <2> QED
    BY <1>1, <1>4, <1>7, <1>8, <2>2
<1>10. PackWeight(s) = K!SizeOf(x) + PackWeight(r)
  BY <1>7, PackWithout
<1> QED
  BY <1>4, <1>5, <1>6, <1>7, <1>9, <1>10

LEMMA PackCounts == \A S : K!Cardinality(S) = Cardinality(S)
BY Zenon DEF K!Cardinality, Cardinality

PackSummed ==
    K!TypeOK => K!Total = core + Cardinality(K!Chosen) + PackWeight(K!Shown)

LEMMA PackTotal == PackSummed
<1> SUFFICES ASSUME K!TypeOK PROVE K!MapThenSumSet(K!SizeOf, K!Shown) = PackWeight(K!Shown)
  BY PackCounts DEF PackSummed, K!Total
<1> DEFINE iter == CHOOSE iter : Folds(iter, K!Shown)
<1>1. K!Shown \in SUBSET Docs
  BY DEF K!Shown
<1>2. K!MapThenSumSet(K!SizeOf, K!Shown) = iter[K!Shown]
  BY Zenon DEF K!MapThenSumSet, K!MapThenFoldSet, Folds
<1>3. Folds(iter, K!Shown)
  BY <1>1, PackFolds, Zenon
<1> HIDE DEF iter
<1>4. iter[K!Shown] = PackWeight(K!Shown)
  BY <1>1, <1>3, PackFoldIs
<1> QED
  BY <1>2, <1>4

LEMMA PackTotalNext == PackSummed'
BY PackTotal, PTL

-----------------------------------------------------------------------------
\* The inductive invariant

PackUntouched == K!Gone = {} /\ K!Dropped = {} /\ K!Cut = {}
PackSound(f) == governance[f] \notin K!Refusable

\* What has been trimmed, at each step of _apply_budget.
PackInv ==
    /\ K!TypeOK
    /\ at \notin {"trimming", "answered"} => step = 1 /\ PackUntouched
    /\ at \in {"sources", "trimming", "answered"} /\ ~confirmed => \A f \in K!Files : PackSound(f)
    /\ \A s \in K!Gone : K!Rank(s) < step /\ ~optional[s].pinned
    /\ \A s \in K!Left : K!Rank(s) >= step
    /\ K!Cut # {} \/ K!Dropped # {} => step >= 6
    /\ step >= 6 => \A d \in K!Victims : K!TooLong(d) => d \in K!Cut
    /\ \A d \in K!Dropped : ~doc[d].pinned /\ \A e \in K!Victims : e < d
    /\ step = 6 /\ K!Dropped # {} => K!Total + K!SizeOf(K!Min(K!Dropped)) > budget
    /\ step = 7 => K!Victims = {}
    /\ (\E d \in K!Cut : doc[d].pinned) => at = "answered" /\ step = 7
    /\ at = "answered" /\ ~K!Fits => step = 7 /\ \A d \in K!Shown : K!TooLong(d) => d \in K!Cut

LEMMA PackGreatest ==
    ASSUME NEW S \in SUBSET Docs, S # {}
    PROVE  K!Max(S) \in S /\ \A y \in S : y <= K!Max(S)
<1> DEFINE Above(x) == {y \in S : y > x}
           N == {Cardinality(Above(x)) : x \in S}
<1>1. IsFiniteSet(S) /\ S \in SUBSET Nat
  BY PacksAssumption, FS_Subset
<1>2. \A x \in S : IsFiniteSet(Above(x)) /\ Cardinality(Above(x)) \in Nat
  BY <1>1, FS_Subset, FS_CardinalityType
<1>3. N \in SUBSET Nat /\ N # {}
  BY <1>2
<1>4. PICK n \in N : \A m \in N : n <= m
  <2> HIDE DEF N
  <2> QED
    BY <1>3, LeastIs
<1>5. PICK x \in S : n = Cardinality(Above(x))
  BY <1>4
<1>6. ASSUME NEW y \in S, y > x PROVE FALSE
  <2>0. x \in Nat /\ y \in Nat /\ y > x /\ \A z \in S : z \in Nat
    BY <1>1, <1>6
  <2>5. y \in Above(x) /\ y \notin Above(y)
    BY <2>0
  <2>7. ASSUME NEW z \in Above(y) PROVE z \in Above(x)
    <3>1. z \in S /\ z \in Nat /\ z > y
      BY <2>0
    <3>2. z > x
      BY <2>0, <3>1
    <3> QED
      BY <3>1, <3>2
  <2>1. Above(y) \in SUBSET Above(x) /\ Above(y) # Above(x)
    <3> HIDE DEF Above
    <3> QED
      BY <2>5, <2>7
  <2>2. /\ Cardinality(Above(y)) <= Cardinality(Above(x))
        /\ Cardinality(Above(y)) # Cardinality(Above(x))
    <3>1. IsFiniteSet(Above(x))
      BY <1>2
    <3>2. \A P, Q : IsFiniteSet(P) /\ Q \in SUBSET P /\ Q # P =>
              Cardinality(Q) <= Cardinality(P) /\ Cardinality(Q) # Cardinality(P)
      BY FS_Subset
    <3> HIDE DEF Above
    <3> QED
      BY <2>1, <3>1, <3>2
  <2>3. Cardinality(Above(y)) \in N
    OBVIOUS
  <2>4. n <= Cardinality(Above(y))
    <3> HIDE DEF N, Above
    <3> QED
      BY <1>4, <2>3
  <2>6. Cardinality(Above(x)) \in Nat /\ Cardinality(Above(y)) \in Nat
    BY <1>2
  <2> HIDE DEF Above
  <2> QED
    BY <1>5, <2>2, <2>4, <2>6
<1>7. \A y \in S : x >= y
  BY <1>1, <1>6
<1>8. K!Max(S) \in S /\ \A y \in S : K!Max(S) >= y
  BY <1>7 DEF K!Max
<1> QED
  BY <1>1, <1>8

LEMMA PackLeast ==
    ASSUME NEW S \in SUBSET Docs, S # {}
    PROVE  K!Min(S) \in S /\ \A y \in S : K!Min(S) <= y
<1>1. S \in SUBSET Nat
  BY PacksAssumption
<1>2. \E x \in S : \A y \in S : x =< y
  BY <1>1, LeastIs
<1> QED
  BY <1>2 DEF K!Min

LEMMA PackRanks ==
    \A s \in K!Optional :
        /\ K!Rank(s) \in 1..4 /\ K!TrimOrder[K!Rank(s)] = K!Class[s]
        /\ \A k \in 1..7 : K!TrimOrder[k] = K!Class[s] => k = K!Rank(s)
<1> SUFFICES ASSUME NEW s \in K!Optional
             PROVE  /\ K!Rank(s) \in 1..4 /\ K!TrimOrder[K!Rank(s)] = K!Class[s]
                    /\ \A k \in 1..7 : K!TrimOrder[k] = K!Class[s] => k = K!Rank(s)
  OBVIOUS
<1>1. DOMAIN K!TrimOrder = 1..7
  BY DEF K!TrimOrder
<1>2. s \in {"audit_recent", "tasks_done", "risks_closed", "blockers_resolved", "decisions_extra"}
  BY DEF K!Optional, K!Class
<1>3. PICK i \in 1..4 : \A k \in 1..7 : K!TrimOrder[k] = K!Class[s] <=> k = i
  <2>1. \A k \in 1..7 : k \in {1, 2, 3, 4, 5, 6, 7}
    OBVIOUS
  <2>2. CASE s = "audit_recent"
    <3>1. \A k \in 1..7 : K!TrimOrder[k] = K!Class[s] <=> k = 1
      BY <2>1, <2>2 DEF K!TrimOrder, K!Class
    <3> QED
      BY <3>1
  <2>3. CASE s = "tasks_done"
    <3>1. \A k \in 1..7 : K!TrimOrder[k] = K!Class[s] <=> k = 2
      BY <2>1, <2>3 DEF K!TrimOrder, K!Class
    <3> QED
      BY <3>1
  <2>4. CASE s \in {"risks_closed", "blockers_resolved"}
    <3>1. \A k \in 1..7 : K!TrimOrder[k] = K!Class[s] <=> k = 3
      BY <2>1, <2>4 DEF K!TrimOrder, K!Class
    <3> QED
      BY <3>1
  <2>5. CASE s = "decisions_extra"
    <3>1. \A k \in 1..7 : K!TrimOrder[k] = K!Class[s] <=> k = 4
      BY <2>1, <2>5 DEF K!TrimOrder, K!Class
    <3> QED
      BY <3>1
  <2> QED
    BY <1>2, <2>2, <2>3, <2>4, <2>5
<1>4. K!Rank(s) = i
  BY <1>1, <1>3 DEF K!Rank
<1> QED
  BY <1>3, <1>4

LEMMA PackInit == K!Init => PackInv
<1> SUFFICES ASSUME K!Init PROVE PackInv
  OBVIOUS
<1>1. K!TypeOK /\ at = "governance" /\ step = 1
  BY DEF K!Init
<1>2. K!Gone = {} /\ K!Dropped = {} /\ K!Cut = {}
  BY DEF K!Init, K!Gone, K!Dropped, K!Cut
<1>3. \A s \in K!Left : K!Rank(s) >= step
  BY <1>1, PackRanks DEF K!Left, K!Chosen
<1> QED
  BY <1>1, <1>2, <1>3 DEF PackInv, PackUntouched

\* Neither the sources nor the documents change.
PackStays == UNCHANGED <<core, budget, confirmed, governance, optional, doc>>

LEMMA PackSame ==
    ASSUME K!TypeOK, K!TypeOK', PackStays
    PROVE  K!Total' = K!Total /\ (K!Fits' <=> K!Fits)
<1>1. K!Chosen' = K!Chosen /\ K!Shown' = K!Shown
  BY DEF PackStays, K!Chosen, K!Shown
<1>2. \A T : PackWeight(T)' = PackWeight(T)
  BY DEF PackStays, PackWeight, PackUnits, K!SizeOf
<1>3. K!Total' = K!Total
  BY <1>1, <1>2, PackTotal, PackTotalNext DEF PackSummed, PackStays
<1> QED
  BY <1>3 DEF K!Fits, PackStays

PackInvSame ==
    /\ K!Gone' = K!Gone /\ K!Dropped' = K!Dropped /\ K!Cut' = K!Cut
    /\ K!Left' = K!Left /\ K!Victims' = K!Victims /\ K!Shown' = K!Shown

LEMMA PackSetsSame == PackStays => PackInvSame
BY DEF PackStays, PackInvSame, K!Gone, K!Dropped, K!Cut, K!Left, K!Chosen, K!Victims, K!Shown

LEMMA PackTypes == K!TypeOK /\ [K!Next]_(K!vars) => K!TypeOK'
<1> SUFFICES ASSUME K!TypeOK, [K!Next]_(K!vars) PROVE K!TypeOK'
  OBVIOUS
<1>0. K!Len(K!TrimOrder) = 7 /\ step \in 1..7
  BY DEF K!TypeOK, K!TrimOrder
<1>1. CASE K!ReadGovernance \/ K!PutTogether \/ K!Enough
  BY <1>1 DEF K!TypeOK, K!ReadGovernance, K!PutTogether, K!Enough, K!request
<1>2. CASE K!TrimClass
  <2>1. optional' \in [K!Optional -> K!Source]
    BY <1>2 DEF K!TypeOK, K!TrimClass, K!Source
  <2>2. step' \in 1..7
    BY <1>0, <1>2 DEF K!TrimClass, K!Advance
  <2> QED
    BY <1>0, <1>2, <2>1, <2>2 DEF K!TypeOK, K!TrimClass, K!Advance, K!request
<1>3. ASSUME NEW b \in BOOLEAN, K!CutWhere(b) PROVE doc' \in [Docs -> K!Doc]
  <2>1. ASSUME NEW d \in Docs
        PROVE  doc[d] \in K!Doc /\ [doc[d] EXCEPT !.cut = TRUE] \in K!Doc
    BY DEF K!TypeOK, K!Doc
  <2> QED
    BY <1>3, <2>1 DEF K!CutWhere
<1>4. CASE K!CutDocs
  <2>1. step' \in 1..7
    BY <1>0, <1>4 DEF K!CutDocs, K!Advance, K!TrimOrder
  <2>2. UNCHANGED <<budget, core, confirmed, governance, optional, at>>
    BY <1>4 DEF K!CutDocs, K!Advance, K!request
  <2>3. doc' \in [Docs -> K!Doc]
    BY <1>3, <1>4 DEF K!CutDocs
  <2> QED
    BY <1>0, <2>1, <2>2, <2>3 DEF K!TypeOK
<1>5. CASE K!DropDoc
  <2>1. doc' \in [Docs -> K!Doc]
    <3>1. ASSUME NEW d \in Docs
          PROVE  [doc[d] EXCEPT !.in = "dropped"] \in K!Doc
      BY DEF K!TypeOK, K!Doc
    <3>2. ASSUME NEW m, doc' = [doc EXCEPT ![m].in = "dropped"] PROVE doc' \in [Docs -> K!Doc]
      BY <3>1, <3>2 DEF K!TypeOK
    <3>3. doc' = doc \/ \E m : doc' = [doc EXCEPT ![m].in = "dropped"]
      BY <1>5 DEF K!DropDoc
    <3> QED
      BY <3>2, <3>3 DEF K!TypeOK
  <2>2. step' \in 1..7
    BY <1>0, <1>5 DEF K!DropDoc, K!Advance, K!TrimOrder
  <2>3. UNCHANGED <<budget, core, confirmed, governance, optional, at>>
    BY <1>5 DEF K!DropDoc, K!Advance, K!request
  <2> QED
    BY <1>0, <2>1, <2>2, <2>3 DEF K!TypeOK
<1>6. CASE K!CutPinned
  BY <1>3, <1>6 DEF K!TypeOK, K!CutPinned, K!request
<1>7. CASE UNCHANGED K!vars
  BY <1>7 DEF K!TypeOK, K!vars
<1> QED
  BY <1>1, <1>2, <1>4, <1>5, <1>6, <1>7 DEF K!Next

-----------------------------------------------------------------------------
\* The steps

LEMMA PackSteps == K!TypeOK => step \in 1..7
BY DEF K!TypeOK, K!TrimOrder

LEMMA PackReads ==
    ASSUME PackInv, K!TypeOK', K!ReadGovernance \/ K!PutTogether \/ K!Enough \/ UNCHANGED K!vars
    PROVE  PackInv'
<1>1. PackStays /\ step' = step
  BY DEF K!ReadGovernance, K!PutTogether, K!Enough, K!vars, K!request, PackStays
<1>2. PackInvSame /\ K!TypeOK
  BY <1>1, PackSetsSame DEF PackInv
<1>3. K!Total' = K!Total /\ (K!Fits' <=> K!Fits)
  BY <1>1, <1>2, PackSame
<1>4. at' \in {"sources", "trimming", "answered"} /\ ~confirmed' =>
          \A f \in K!Files : PackSound(f)'
  BY <1>1 DEF PackInv, K!ReadGovernance, K!PutTogether, K!Enough, K!vars, PackSound, PackStays,
              K!Refused
<1>5. at' \notin {"trimming", "answered"} => at \notin {"trimming", "answered"}
  BY DEF K!ReadGovernance, K!PutTogether, K!Enough, K!vars
<1>6. at' \notin {"trimming", "answered"} => step' = 1 /\ PackUntouched'
  BY <1>1, <1>2, <1>5 DEF PackInv, PackUntouched, PackInvSame
<1>7. at' = "answered" => at = "answered" \/ K!Fits
  BY DEF K!ReadGovernance, K!PutTogether, K!Enough, K!vars
<1>8. at = "answered" => at' = "answered"
  BY DEF K!ReadGovernance, K!PutTogether, K!Enough, K!vars
<1>9. \A d : (K!TooLong(d)' <=> K!TooLong(d)) /\ K!SizeOf(d)' = K!SizeOf(d)
  BY <1>1 DEF PackStays, K!TooLong, K!SizeOf
<1>10. \A s : K!Rank(s)' = K!Rank(s)
  BY DEF K!Rank
<1>11. /\ \A s \in K!Gone' : K!Rank(s)' < step' /\ ~optional'[s].pinned
       /\ \A s \in K!Left' : K!Rank(s)' >= step'
  BY <1>1, <1>2, <1>10 DEF PackInv, PackInvSame, PackStays
<1>12. /\ K!Cut' # {} \/ K!Dropped' # {} => step' >= 6
       /\ step' >= 6 => \A d \in K!Victims' : K!TooLong(d)' => d \in K!Cut'
       /\ \A d \in K!Dropped' : ~doc'[d].pinned /\ \A e \in K!Victims' : e < d
       /\ step' = 7 => K!Victims' = {}
  BY <1>1, <1>2, <1>9 DEF PackInv, PackInvSame, PackStays
<1>13. (\E d \in K!Cut' : doc'[d].pinned) => at' = "answered" /\ step' = 7
  BY <1>1, <1>2, <1>8 DEF PackInv, PackInvSame, PackStays
<1>14. step' = 6 /\ K!Dropped' # {} => K!Total' + K!SizeOf(K!Min(K!Dropped))' > budget'
  BY <1>1, <1>2, <1>3, <1>9 DEF PackInv, PackInvSame, PackStays, K!Min
<1>15. at' = "answered" /\ ~K!Fits' =>
          step' = 7 /\ \A d \in K!Shown' : K!TooLong(d)' => d \in K!Cut'
  BY <1>1, <1>2, <1>3, <1>7, <1>9 DEF PackInv, PackInvSame
<1> QED
  BY <1>4, <1>6, <1>11, <1>12, <1>13, <1>14, <1>15 DEF PackInv

LEMMA PackTrims == ASSUME PackInv, K!TypeOK', K!TrimClass PROVE PackInv'
<1>0. K!TypeOK /\ step \in 1..4 /\ step' = step + 1 /\ at' = at /\ at = "trimming"
  BY PackSteps DEF PackInv, K!TrimClass, K!Advance
<1>1. doc' = doc /\ UNCHANGED <<budget, core, confirmed, governance>>
  BY DEF K!TrimClass, K!Advance, K!request
<1>2. K!Dropped' = K!Dropped /\ K!Cut' = K!Cut /\ K!Dropped = {} /\ K!Cut = {}
  BY <1>0, <1>1 DEF PackInv, K!Dropped, K!Cut
<1> DEFINE Hit(s) == s \in K!Chosen /\ K!Class[s] = K!TrimOrder[step] /\ ~optional[s].pinned
<1>3. \A s \in K!Optional : Hit(s) => K!Rank(s) = step
  BY <1>0, PackRanks
<1>4. \A s \in K!Optional : K!Rank(s) = step /\ s \in K!Left => Hit(s)
  BY PackRanks DEF K!Left
<1>5. \A s \in K!Optional :
          optional'[s] = IF Hit(s) THEN [optional[s] EXCEPT !.in = "dropped"] ELSE optional[s]
  BY DEF K!TrimClass
<1>6. \A s \in K!Optional : optional[s] \in K!Source
  BY <1>0 DEF K!TypeOK
<1>7. \A s \in K!Optional : /\ optional'[s].pinned = optional[s].pinned
                            /\ optional'[s].in = IF Hit(s) THEN "dropped" ELSE optional[s].in
  BY <1>5, <1>6 DEF K!Source
<1>8. \A s \in K!Gone' : s \in K!Optional /\ (s \in K!Gone \/ Hit(s))
  BY <1>7 DEF K!Gone
<1>9. \A s \in K!Left' : s \in K!Optional /\ s \in K!Left /\ ~Hit(s)
  BY <1>7 DEF K!Left, K!Chosen
<1>10. \A s : K!Rank(s)' = K!Rank(s)
  BY DEF K!Rank
<1>11. \A s \in K!Gone' : K!Rank(s)' < step' /\ ~optional'[s].pinned
  <2> SUFFICES ASSUME NEW s \in K!Gone' PROVE K!Rank(s) < step + 1 /\ ~optional[s].pinned
    BY <1>0, <1>7, <1>8, <1>10
  <2>1. K!Rank(s) \in 1..4 /\ s \in K!Optional
    BY <1>8, PackRanks
  <2>2. CASE s \in K!Gone
    BY <1>0, <2>1, <2>2 DEF PackInv
  <2>3. CASE Hit(s)
    BY <1>0, <1>3, <2>1, <2>3
  <2> QED
    BY <1>8, <2>2, <2>3
<1>12. \A s \in K!Left' : K!Rank(s)' >= step'
  <2> SUFFICES ASSUME NEW s \in K!Left' PROVE K!Rank(s) >= step + 1
    BY <1>0, <1>10
  <2>1. K!Rank(s) \in 1..4 /\ s \in K!Optional /\ s \in K!Left /\ K!Rank(s) # step
    BY <1>4, <1>9, PackRanks
  <2> HIDE DEF Hit
  <2> QED
    BY <1>0, <2>1 DEF PackInv
<1>13. ~confirmed' => \A f \in K!Files : PackSound(f)'
  BY <1>0, <1>1 DEF PackInv, PackSound
<1> HIDE DEF Hit
<1> QED
  BY <1>0, <1>2, <1>11, <1>12, <1>13 DEF PackInv

LEMMA PackCuts ==
    ASSUME K!TypeOK, K!TypeOK', NEW b \in BOOLEAN, K!CutWhere(b)
    PROVE  /\ K!Shown' = K!Shown /\ K!Victims' = K!Victims /\ K!Dropped' = K!Dropped
           /\ \A d \in Docs : doc'[d].pinned = doc[d].pinned /\ (K!TooLong(d)' <=> K!TooLong(d))
           /\ K!Cut' = K!Cut \cup {d \in K!Shown : doc[d].pinned = b /\ K!TooLong(d)}
<1>1. \A d \in Docs :
          /\ doc'[d].in = doc[d].in /\ doc'[d].pinned = doc[d].pinned /\ doc'[d].size = doc[d].size
          /\ doc'[d].cut = (doc[d].cut \/ (d \in K!Shown /\ doc[d].pinned = b /\ K!TooLong(d)))
  <2> SUFFICES ASSUME NEW d \in Docs
               PROVE  /\ doc'[d].in = doc[d].in /\ doc'[d].pinned = doc[d].pinned
                      /\ doc'[d].size = doc[d].size
                      /\ doc'[d].cut =
                            (doc[d].cut \/ (d \in K!Shown /\ doc[d].pinned = b /\ K!TooLong(d)))
    OBVIOUS
  <2>1. doc[d] \in K!Doc
    BY DEF K!TypeOK
  <2>2. doc'[d] = IF d \in K!Shown /\ doc[d].pinned = b /\ K!TooLong(d)
                  THEN [doc[d] EXCEPT !.cut = TRUE] ELSE doc[d]
    BY DEF K!CutWhere
  <2> QED
    BY <2>1, <2>2 DEF K!Doc
<1> QED
  BY <1>1 DEF K!Shown, K!Victims, K!Dropped, K!TooLong, K!Cut

LEMMA PackCutsDocs == ASSUME PackInv, K!TypeOK', K!CutDocs PROVE PackInv'
<1>0. K!TypeOK /\ step \in 1..7 /\ K!TrimOrder[step] = "doc_truncate"
  BY PackSteps DEF PackInv, K!CutDocs
<1>1. step = 5 /\ step' = 6 /\ at' = at /\ at = "trimming"
  BY <1>0 DEF K!CutDocs, K!Advance, K!TrimOrder
<1>2. optional' = optional /\ UNCHANGED <<budget, core, confirmed, governance>>
  BY DEF K!CutDocs, K!Advance, K!request
<1>3. K!CutWhere(FALSE)
  BY DEF K!CutDocs
<1>4. /\ K!Shown' = K!Shown /\ K!Victims' = K!Victims /\ K!Dropped' = K!Dropped
      /\ \A d \in Docs : doc'[d].pinned = doc[d].pinned /\ (K!TooLong(d)' <=> K!TooLong(d))
      /\ K!Cut' = K!Cut \cup {d \in K!Shown : doc[d].pinned = FALSE /\ K!TooLong(d)}
  BY <1>0, <1>3, PackCuts
<1>5. K!Dropped = {} /\ K!Cut = {}
  BY <1>1 DEF PackInv
<1>6. K!Gone' = K!Gone /\ K!Left' = K!Left /\ \A s : K!Rank(s)' = K!Rank(s)
  BY <1>2 DEF K!Gone, K!Left, K!Chosen, K!Rank
<1>7. \A s \in K!Gone' : K!Rank(s)' < step' /\ ~optional'[s].pinned
  <2> SUFFICES ASSUME NEW s \in K!Gone PROVE K!Rank(s) < 6 /\ ~optional[s].pinned
    BY <1>1, <1>2, <1>6
  <2> QED
    BY PackRanks DEF PackInv, K!Gone
<1>8. K!Left' = {}
  <2> SUFFICES ASSUME NEW s \in K!Left PROVE FALSE
    BY <1>6
  <2> QED
    BY <1>1, PackRanks DEF PackInv, K!Left, K!Chosen
<1>9. ~confirmed' => \A f \in K!Files : PackSound(f)'
  BY <1>1, <1>2 DEF PackInv, PackSound
<1>10. \A d \in K!Victims' : K!TooLong(d)' => d \in K!Cut'
  BY <1>0, <1>4 DEF K!Victims, K!Shown, K!TypeOK, K!Doc
<1>11. \A d \in K!Cut' : ~doc'[d].pinned
  BY <1>4, <1>5 DEF K!Shown
<1> QED
  BY <1>1, <1>4, <1>5, <1>7, <1>8, <1>9, <1>10, <1>11 DEF PackInv

LEMMA PackOptions == IsFiniteSet(K!Optional)
<1>1. K!Optional = {"audit_recent"} \cup {"tasks_done"} \cup {"risks_closed"}
                   \cup {"blockers_resolved"} \cup {"decisions_extra"}
  BY DEF K!Optional, K!Class
<1>2. \A x : IsFiniteSet({x})
  BY FS_Singleton
<1> QED
  BY <1>1, <1>2, FS_Union

LEMMA PackDrops == ASSUME PackInv, K!TypeOK', K!DropDoc PROVE PackInv'
<1>0. K!TypeOK /\ step \in 1..7 /\ K!TrimOrder[step] = "doc_drop"
  BY PackSteps DEF PackInv, K!DropDoc
<1>1. step = 6 /\ at' = at /\ at = "trimming" /\ ~K!Fits
  BY <1>0 DEF K!DropDoc, K!Advance, K!TrimOrder
<1>2. optional' = optional /\ UNCHANGED <<budget, core, confirmed, governance>>
  BY DEF K!DropDoc, K!Advance, K!request
<1>3. K!Gone' = K!Gone /\ K!Left' = K!Left /\ (\A s : K!Rank(s)' = K!Rank(s))
      /\ K!Chosen' = K!Chosen
  BY <1>2 DEF K!Gone, K!Left, K!Chosen, K!Rank
<1>4. K!Left = {}
  <2> SUFFICES ASSUME NEW s \in K!Left PROVE FALSE
    OBVIOUS
  <2> QED
    BY <1>1, PackRanks DEF PackInv, K!Left, K!Chosen
<1>5. ~confirmed' => \A f \in K!Files : PackSound(f)'
  BY <1>1, <1>2 DEF PackInv, PackSound
<1>6. \A s \in K!Gone' : K!Rank(s)' \in 1..4 /\ ~optional'[s].pinned
  <2>1. \A s \in K!Gone : K!Rank(s) \in 1..4 /\ ~optional[s].pinned
    BY PackRanks DEF PackInv, K!Gone
  <2> QED
    BY <1>2, <1>3, <2>1
<1>7. \A d \in K!Cut : ~doc[d].pinned
  BY <1>1 DEF PackInv
<1>8. CASE K!Victims = {}
  <2>1. doc' = doc /\ step' = 7
    BY <1>1, <1>8 DEF K!DropDoc, K!Advance
  <2>2. K!Dropped' = K!Dropped /\ K!Cut' = K!Cut /\ K!Victims' = {}
    BY <1>8, <2>1 DEF K!Dropped, K!Cut, K!Victims, K!Shown
  <2>3. \A d \in K!Dropped' : ~doc'[d].pinned
    BY <2>1, <2>2 DEF PackInv
  <2>4. \A s \in K!Gone' : K!Rank(s)' < step' /\ ~optional'[s].pinned
    BY <1>6, <2>1
  <2> QED
    BY <1>1, <1>3, <1>4, <1>5, <1>7, <2>1, <2>2, <2>3, <2>4 DEF PackInv
<1>9. CASE K!Victims # {}
  <2> DEFINE v == K!Max(K!Victims)
  <2>1. K!Victims \in SUBSET Docs
    BY DEF K!Victims, K!Shown
  <2>2. v \in K!Victims /\ \A e \in K!Victims : e <= v
    BY <1>9, <2>1, PackGreatest
  <2>3. doc' = [doc EXCEPT ![v].in = "dropped"] /\ step' = step
    BY <1>9 DEF K!DropDoc
  <2> HIDE DEF v
  <2>4. v \in Docs /\ v \in K!Shown /\ ~doc[v].pinned /\ Docs \subseteq Nat
    BY <2>2, PacksAssumption DEF K!Victims, K!Shown
  <2>5. \A d \in Docs :
            /\ doc'[d].in = IF d = v THEN "dropped" ELSE doc[d].in
            /\ doc'[d].pinned = doc[d].pinned /\ doc'[d].size = doc[d].size
            /\ doc'[d].short = doc[d].short /\ doc'[d].cut = doc[d].cut
    <3> SUFFICES ASSUME NEW d \in Docs
                 PROVE  /\ doc'[d].in = IF d = v THEN "dropped" ELSE doc[d].in
                        /\ doc'[d].pinned = doc[d].pinned /\ doc'[d].size = doc[d].size
                        /\ doc'[d].short = doc[d].short /\ doc'[d].cut = doc[d].cut
      OBVIOUS
    <3>1. doc[d] \in K!Doc /\ doc \in [Docs -> K!Doc]
      BY <1>0 DEF K!TypeOK
    <3> QED
      BY <2>3, <2>4, <3>1 DEF K!Doc
  <2>6. /\ K!Shown' = K!Shown \ {v} /\ K!Victims' = K!Victims \ {v}
        /\ K!Dropped' = K!Dropped \cup {v} /\ K!Cut' = K!Cut
    BY <2>4, <2>5 DEF K!Shown, K!Victims, K!Dropped, K!Cut
  <2>7. \A d \in Docs : K!SizeOf(d)' = K!SizeOf(d) /\ (K!TooLong(d)' <=> K!TooLong(d))
    BY <2>5 DEF K!SizeOf, K!TooLong
  <2>8. \A d \in K!Dropped : v < d
    BY <2>2 DEF PackInv
  <2>9. K!Min(K!Dropped') = v
    <3>1. K!Dropped' \in SUBSET Docs /\ v \in K!Dropped'
      BY <2>4, <2>6 DEF K!Dropped
    <3>2. PICK m : m = K!Min(K!Dropped')
      OBVIOUS
    <3>3. m \in K!Dropped' /\ m <= v
      BY <3>1, <3>2, PackLeast
    <3>4. m \in Nat /\ v \in Nat
      BY <2>4, <3>1, <3>3
    <3>5. CASE m \in K!Dropped
      BY <2>8, <3>3, <3>4, <3>5
    <3> QED
      BY <2>6, <3>2, <3>3, <3>5
  <2>10. K!Total = K!Total' + K!SizeOf(v) /\ K!Total \in Nat
    <3>1. PackWeight(K!Shown) = K!SizeOf(v) + PackWeight(K!Shown \ {v})
      BY <1>0, <2>4, PackWithout DEF K!Shown
    <3>2. PackWeight(K!Shown)' = PackWeight(K!Shown \ {v})
      BY <2>6, <2>7 DEF PackWeight, PackUnits, K!Shown
    <3>3. K!Total = core + Cardinality(K!Chosen) + PackWeight(K!Shown)
      BY <1>0, PackTotal DEF PackSummed
    <3>4. K!Total' = core + Cardinality(K!Chosen) + PackWeight(K!Shown)'
      BY <1>2, <1>3, PackTotalNext DEF PackSummed
    <3>5. core \in Nat /\ Cardinality(K!Chosen) \in Nat
      BY <1>0, PackOptions, FS_Subset, FS_CardinalityType DEF K!TypeOK, K!Chosen
    <3>6. K!SizeOf(v) \in Nat
      BY <1>0, <2>4, PackSizes
    <3>7. PackWeight(K!Shown \ {v}) \in Nat
      BY <1>0, PackFinite DEF K!Shown
    <3> QED
      BY <3>1, <3>2, <3>3, <3>4, <3>5, <3>6, <3>7
  <2>11. K!Total > budget
    BY <1>0, <1>1, <2>10 DEF K!Fits, K!TypeOK
  <2>12. K!Total' + K!SizeOf(K!Min(K!Dropped))' > budget'
    BY <1>2, <2>4, <2>7, <2>9, <2>10, <2>11
  <2>13. \A d \in K!Dropped' : ~doc'[d].pinned /\ \A e \in K!Victims' : e < d
    <3> SUFFICES ASSUME NEW d \in K!Dropped'
                 PROVE  ~doc[d].pinned /\ \A e \in K!Victims' : e < d
      BY <2>4, <2>5, <2>6 DEF K!Dropped
    <3>1. CASE d \in K!Dropped
      BY <2>6, <3>1 DEF PackInv
    <3>2. CASE d = v
      <4>1. \A e \in K!Victims' : e \in Nat /\ e <= v /\ e # v
        BY <2>1, <2>2, <2>4, <2>6
      <4> QED
        BY <2>4, <3>2, <4>1
    <3> QED
      BY <2>6, <3>1, <3>2
  <2>14. \A d \in K!Victims' : K!TooLong(d)' => d \in K!Cut'
    BY <1>1, <2>1, <2>6, <2>7 DEF PackInv
  <2>15. \A d \in K!Cut' : ~doc'[d].pinned
    BY <1>7, <2>5, <2>6 DEF K!Cut
  <2>16. \A s \in K!Gone' : K!Rank(s)' < step' /\ ~optional'[s].pinned
    BY <1>1, <1>6, <2>3
  <2> QED
    BY <1>1, <1>3, <1>4, <1>5, <2>3, <2>12, <2>13, <2>14, <2>15, <2>16 DEF PackInv
<1> QED
  BY <1>8, <1>9

LEMMA PackEnds == ASSUME PackInv, K!TypeOK', K!CutPinned PROVE PackInv'
<1>0. K!TypeOK /\ step \in 1..7 /\ K!TrimOrder[step] = "pinned"
  BY PackSteps DEF PackInv, K!CutPinned
<1>1. step = 7 /\ step' = 7 /\ at' = "answered" /\ at = "trimming"
  BY <1>0 DEF K!CutPinned, K!TrimOrder
<1>2. optional' = optional /\ UNCHANGED <<budget, core, confirmed, governance>>
  BY DEF K!CutPinned, K!request
<1>3. K!Gone' = K!Gone /\ K!Left' = K!Left /\ (\A s : K!Rank(s)' = K!Rank(s))
  BY <1>2 DEF K!Gone, K!Left, K!Chosen, K!Rank
<1>4. /\ K!Shown' = K!Shown /\ K!Victims' = K!Victims /\ K!Dropped' = K!Dropped
      /\ \A d \in Docs : doc'[d].pinned = doc[d].pinned /\ (K!TooLong(d)' <=> K!TooLong(d))
      /\ K!Cut' = K!Cut \cup {d \in K!Shown : doc[d].pinned = TRUE /\ K!TooLong(d)}
  BY <1>0, PackCuts DEF K!CutPinned
<1>5. ~confirmed' => \A f \in K!Files : PackSound(f)'
  BY <1>1, <1>2 DEF PackInv, PackSound
<1>6. /\ \A s \in K!Gone' : K!Rank(s)' < step' /\ ~optional'[s].pinned
      /\ \A s \in K!Left' : K!Rank(s)' >= step'
  BY <1>1, <1>2, <1>3 DEF PackInv
<1>7. K!Victims' = {}
  BY <1>1, <1>4 DEF PackInv
<1>8. \A d \in K!Dropped' : ~doc'[d].pinned
  BY <1>4 DEF PackInv, K!Dropped
<1>9. \A d \in K!Shown' : K!TooLong(d)' => d \in K!Cut'
  <2>1. \A d \in K!Shown : d \in Docs /\ doc[d].pinned \in BOOLEAN
    BY <1>0 DEF K!TypeOK, K!Doc, K!Shown
  <2>2. \A d \in K!Shown : doc[d].pinned = TRUE
    BY <1>4, <1>7, <2>1 DEF K!Victims
  <2> QED
    BY <1>4, <2>1, <2>2
<1> QED
  BY <1>1, <1>5, <1>6, <1>7, <1>8, <1>9 DEF PackInv

LEMMA PackStep == PackInv /\ [K!Next]_(K!vars) => PackInv'
<1> SUFFICES ASSUME PackInv, [K!Next]_(K!vars) PROVE PackInv'
  OBVIOUS
<1>1. K!TypeOK'
  BY PackTypes DEF PackInv
<1> QED
  BY <1>1, PackReads, PackTrims, PackCutsDocs, PackDrops, PackEnds DEF K!Next

LEMMA PackFair == PackInv => K!TypeOK /\ K!PacksAreFair
<1> SUFFICES ASSUME PackInv PROVE K!TypeOK /\ K!PacksAreFair
  OBVIOUS
<1>0. K!TypeOK /\ step \in 1..7
  BY PackSteps DEF PackInv
<1>1. step >= 5 => K!Left = {}
  <2> SUFFICES ASSUME step >= 5, NEW s \in K!Left PROVE FALSE
    OBVIOUS
  <2> QED
    BY <1>0, PackRanks DEF PackInv, K!Left, K!Chosen
<1>2. (at = "answered" /\ ~K!Fits) =>
          K!Left = {} /\ K!Victims = {} /\ \A d \in K!Shown : K!TooLong(d) => d \in K!Cut
  BY <1>1 DEF PackInv
<1>3. \A s \in K!Left, g \in K!Gone : K!Rank(g) <= K!Rank(s)
  <2> SUFFICES ASSUME NEW s \in K!Left, NEW g \in K!Gone PROVE K!Rank(g) <= K!Rank(s)
    OBVIOUS
  <2>1. K!Rank(g) \in 1..4 /\ K!Rank(s) \in 1..4
    BY PackRanks DEF K!Left, K!Chosen, K!Gone
  <2> QED
    BY <1>0, <2>1 DEF PackInv
<1>4. (K!Cut # {} \/ K!Dropped # {}) => K!Left = {}
  BY <1>0, <1>1 DEF PackInv
<1>5. \A d \in K!Dropped : \A e \in K!Victims : e < d /\ (K!TooLong(e) => e \in K!Cut)
  BY DEF PackInv
<1>6. K!Dropped # {} =>
          K!Total + K!SizeOf(K!Min(K!Dropped)) > budget \/ K!Victims = {}
  BY <1>0 DEF PackInv
<1>7. \A s \in K!Gone : ~optional[s].pinned
  BY DEF PackInv
<1>8. \A d \in K!Dropped : ~doc[d].pinned
  BY DEF PackInv
<1>9. (\E d \in K!Cut : doc[d].pinned) => K!Left = {} /\ K!Victims = {}
  BY <1>1 DEF PackInv
<1>10. K!TrimmedInOrder
  BY <1>2, <1>3, <1>4, <1>5, <1>6, <1>7, <1>8, <1>9 DEF K!TrimmedInOrder
<1>11. K!ScopeIsWhole
  <2> SUFFICES ASSUME at \in {"trimming", "answered"}, ~confirmed, NEW f \in K!Files
               PROVE  governance[f] \in {"ok", "empty", "no-record", "no-root"}
    BY DEF K!ScopeIsWhole
  <2>1. governance[f] \in K!Statuses /\ governance[f] \notin K!Refusable
    BY <1>0 DEF PackInv, PackSound, K!TypeOK
  <2> QED
    BY <2>1 DEF K!Statuses, K!Refusable
<1> QED
  BY <1>0, <1>10, <1>11 DEF K!PacksAreFair

\* Whatever documents there are, however long they are, and whatever is selected,
\* pinned and asked for: a pack is over its budget only with nothing left to trim,
\* what is trimmed goes in the order of TRIM_ORDER, documents from the last one on
\* and each only because the pack with it was too large, what is pinned is never
\* dropped and is cut last, and no pack lacks a governance file that the project has
\* had unless somebody confirmed it (generate_preview and _apply_budget of
\* context_pack_service.py).
THEOREM PacksFair == K!Spec => []K!PacksAreFair
BY PackInit, PackStep, PackFair, PTL DEF K!Spec

PackRun == part = "packs" => PackInv

LEMMA PackRunStep == PackRun /\ [OutsideNext]_outsideVars => PackRun'
<1> SUFFICES ASSUME PackRun, [OutsideNext]_outsideVars, part = "packs" PROVE PackInv'
  BY PartSteps DEF PackRun
<1>1. K!Next \/ UNCHANGED packVars
  BY DEF OutsideNext, outsideVars
<1>2. [K!Next]_(K!vars)
  BY <1>1 DEF packVars, K!vars
<1> QED
  BY <1>2, PackStep DEF PackRun

\* The packs of the instance, which are some of those of K!Spec.
THEOREM PacksOfOutside == OutsideSpec => []PacksAreFair
<1>1. OutsideInit => PackRun
  <2> SUFFICES ASSUME OutsideInit, part = "packs" PROVE PackInv
    BY DEF PackRun
  <2>1. PacksInit
    BY DEF OutsideInit
  <2>2. CASE Trimmed
    <3>0. NoDoc \in K!Doc /\ NoDoc.in # "dropped" /\ ~NoDoc.cut
      BY PacksAssumption DEF NoDoc, K!Doc
    <3>1. \A d \in ChosenDocs : d \in K!Doc /\ d.in # "dropped" /\ ~d.cut
      BY <3>0 DEF ChosenDocs
    <3>2. doc \in [Docs -> K!Doc] /\ \A d \in Docs : doc[d].in # "dropped" /\ ~doc[d].cut
      BY <2>2, <3>1 DEF Trimmed
    <3>3. optional \in [K!Optional -> K!Source] /\ \A s \in K!Optional : optional[s].in # "dropped"
      <4>1. CASE optional \in [K!Optional -> [in : {"no", "yes"}, pinned : {FALSE}]]
        BY <4>1 DEF K!Source
      <4>2. ASSUME NEW p \in K!Optional,
                   optional = [s \in K!Optional |-> [in |-> "yes", pinned |-> s = p]]
            PROVE  /\ optional \in [K!Optional -> K!Source]
                   /\ \A s \in K!Optional : optional[s].in # "dropped"
        BY <4>2 DEF K!Source
      <4> QED
        BY <2>2, <4>1, <4>2 DEF Trimmed
    <3>4. governance \in [K!Files -> K!Statuses] /\ confirmed \in BOOLEAN
      BY <2>2 DEF Trimmed, K!Statuses
    <3>5. budget \in Nat /\ core \in Nat
      BY <2>2 DEF Trimmed
    <3> QED
      BY <2>1, <3>2, <3>3, <3>4, <3>5, PackInit DEF PacksInit, K!Init, K!TypeOK, K!TrimOrder
  <2>3. CASE Scoped
    <3>1. NoDoc \in K!Doc /\ NoDoc.in # "dropped" /\ ~NoDoc.cut
      BY PacksAssumption DEF NoDoc, K!Doc
    <3>2. Free \in K!Source /\ Free.in # "dropped"
      BY DEF Free, K!Source
    <3> QED
      BY <2>1, <2>3, <3>1, <3>2, PackInit DEF PacksInit, Scoped, K!Init, K!TypeOK, K!TrimOrder
  <2> QED
    BY <2>1, <2>2, <2>3 DEF PacksInit
<1>2. PackRun => PacksAreFair
  BY PackFair DEF PackRun, PacksAreFair
<1> QED
  BY <1>1, <1>2, PackRunStep, PTL DEF OutsideSpec, outsideVars

==============================================================================
