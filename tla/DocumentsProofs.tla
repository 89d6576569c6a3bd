-------------------------- MODULE DocumentsProofs --------------------------
(***************************************************************************)
(* What a version tells.  Every write of content increments the version of *)
(* its row, and a row is written for the first time once; so an editor     *)
(* whose version is still the one of the row has the content of the row,   *)
(* and the compare-and-swap of update_doc refuses every other editor.      *)
(*                                                                         *)
(* What a walk tells.  Every set of documents that is closed under parents *)
(* and has the new parent also has the row at which the walk is; when the  *)
(* walk ends at a root there is no such set, and so no cycle, if nobody    *)
(* else has moved anything meanwhile.  And an export that is alone knows   *)
(* whose text is in the file, but between its write and its save.          *)
(*                                                                         *)
(* What the repair does: a walk that makes as many rounds as there are     *)
(* documents, and one more, comes by a row twice.                          *)
(*                                                                         *)
(* Who edits: claims are numbered as they are made, so a new one is never  *)
(* the least, and the editor is another one only when the least is gone.   *)
(* And in the browser: a text of others that was not shown can only be in  *)
(* the newest version, of which no request that is under way knows.        *)
(***************************************************************************)
EXTENDS MCEditing, FiniteSetTheorems, SequenceTheorems, WellFoundedInduction, TLAPS

-----------------------------------------------------------------------------
\* Types

\* Every variable keeps its type, whatever requests do: in particular the walk
\* of validate_parent is always at a document.
LEMMA InitType == Init => TypeOK
<1> SUFFICES ASSUME Init PROVE TypeOK
  OBVIOUS
<1>1. doc \in [Docs -> Doc]
  BY ContentsAssumption DEF Init, Doc
<1>2. mentions \in [Docs -> Mentions]
  BY DEF Init, Mentions
<1>3. Idle \in Call
  BY ContentsAssumption DEF Idle, Call
<1>4. call \in [Requests -> Call]
  BY <1>3 DEF Init
<1> QED
  BY <1>1, <1>2, <1>4 DEF TypeOK

\* A round of the walk ends the call, lets it save, or moves it to a document.
LEMMA VisitType ==
    ASSUME TypeOK, NEW c \in Call, NEW n \in Docs PROVE Visit(c, n) \in Call
<1>1. Idle \in Call
  BY ContentsAssumption DEF Idle, Call
<1>2. [c EXCEPT !.at = "saving"] \in Call
  BY DEF Call
<1>3. doc[n].parent \in Docs \cup {NoDoc}
  BY DEF TypeOK, Doc
<1>4. [c EXCEPT !.at = "climbing", !.seen = @ \cup {n}, !.next = doc[n].parent] \in Call
  BY <1>3 DEF Call
<1> QED
  BY <1>1, <1>2, <1>4 DEF Visit

LEMMA CallsType ==
    ASSUME TypeOK, NEW r \in Requests, Step(r) \/ (\E d \in Docs : Open(r, d) \/ DeleteRead(r, d))
                      \/ (\E p \in Docs \cup {NoDoc} : CreateRead(r, p))
    PROVE  call' \in [Requests -> Call]
<1>1. Idle \in Call
  BY ContentsAssumption DEF Idle, Call
<1>2. call[r] \in Call
  BY DEF TypeOK
<1>3. SUFFICES \E c \in Call : call' = [call EXCEPT ![r] = c]
  BY <1>3 DEF TypeOK
<1>4. CASE (\E d \in Docs : CreateInsert(r, d)) \/ Store(r) \/ DeleteCommit(r) \/ Abort(r)
  BY <1>1, <1>4 DEF CreateInsert, Store, DeleteCommit, Abort
<1>5. ASSUME Climb(r) PROVE \E c \in Call : call' = [call EXCEPT ![r] = c]
  <2>1. CASE call[r].next \in Live \cup call[r].seen
    <3>1. call[r].next \in Docs
      BY <1>2, <2>1 DEF Live, Call
    <3>2. Visit(call[r], call[r].next) \in Call
      BY <1>2, <3>1, VisitType
    <3> QED
      BY <1>5, <2>1, <3>2 DEF Climb, TypeOK
  <2>2. CASE call[r].next \notin Live \cup call[r].seen
    <3>1. [call[r] EXCEPT !.at = "saving"] \in Call
      BY <1>2 DEF Call
    <3> QED
      BY <1>5, <2>2, <3>1 DEF Climb, TypeOK
  <2> QED
    BY <2>1, <2>2
<1>6. ASSUME NEW t \in Contents, SaveContent(r, t)
      PROVE  \E c \in Call : call' = [call EXCEPT ![r] = c]
  <2>1. [call[r] EXCEPT !.at = "saving", !.field = "content", !.text = t] \in Call
    BY <1>2 DEF Call
  <2> QED
    BY <1>6, <2>1 DEF SaveContent, TypeOK
<1>7. ASSUME NEW p \in Docs \cup {NoDoc}, SaveParent(r, p)
      PROVE  \E c \in Call : call' = [call EXCEPT ![r] = c]
  <2> DEFINE c == [call[r] EXCEPT !.field = "parent", !.to = p, !.seen = {call[r].doc}]
  <2>1. call[r].doc \in Docs
    BY <1>7 DEF SaveParent, Current, Live
  <2>2. c \in Call
    BY <1>2, <2>1 DEF Call
  <2>3. CASE p = NoDoc /\ call' = [call EXCEPT ![r] = [c EXCEPT !.at = "saving"]]
    <3>1. [c EXCEPT !.at = "saving"] \in Call
      BY <2>2 DEF Call
    <3> HIDE DEF c
    <3> QED
      BY <2>3, <3>1
  <2>4. CASE p \in Live /\ call' = [call EXCEPT ![r] = Visit(c, p)]
    <3>1. p \in Docs
      BY <2>4 DEF Live
    <3> HIDE DEF c
    <3>2. Visit(c, p) \in Call
      BY <2>2, <3>1, VisitType
    <3> QED
      BY <2>4, <3>2
  <2> QED
    BY <1>7, <2>3, <2>4 DEF SaveParent
<1>8. ASSUME NEW d \in Docs, Open(r, d)
      PROVE  \E c \in Call : call' = [call EXCEPT ![r] = c]
  <2>1. doc[d].version \in Nat /\ doc[d].content \in Contents
    BY DEF TypeOK, Doc
  <2>2. [Idle EXCEPT !.at = "editing", !.doc = d, !.ver = doc[d].version,
                     !.base = doc[d].content] \in Call
    BY <1>1, <2>1 DEF Call
  <2> QED
    BY <1>8, <2>2 DEF Open
<1>9. ASSUME NEW d \in Docs, DeleteRead(r, d)
      PROVE  \E c \in Call : call' = [call EXCEPT ![r] = c]
  <2>1. mentions[d].of \in Nat /\ Children(d) \in SUBSET Docs
    BY DEF TypeOK, Mentions, Children, Live
  <2>2. [Idle EXCEPT !.at = "deleting", !.doc = d, !.ver = mentions[d].of,
                     !.kids = Children(d)] \in Call
    BY <1>1, <2>1 DEF Call
  <2> QED
    BY <1>9, <2>2 DEF DeleteRead
<1>10. ASSUME NEW p \in Docs \cup {NoDoc}, CreateRead(r, p)
       PROVE  \E c \in Call : call' = [call EXCEPT ![r] = c]
  <2>1. [Idle EXCEPT !.at = "creating", !.to = p] \in Call
    BY <1>1 DEF Call
  <2> QED
    BY <1>10, <2>1 DEF CreateRead
<1> QED
  BY <1>4, <1>5, <1>6, <1>7, <1>8, <1>9, <1>10 DEF Step

\* What the writes make of a row.
LEMMA RowUpdates ==
    ASSUME NEW x \in Doc, NEW v \in Nat, NEW t \in Contents, NEW p \in Docs \cup {NoDoc}
    PROVE  /\ Rewritten(x, v, t) \in Doc
           /\ Rewritten(x, v, t).version = v
           /\ Rewritten(x, v, t).state = x.state
           /\ Moved(x, v, p) \in Doc
           /\ Moved(x, v, p).version = v
           /\ Moved(x, v, p).state = x.state
           /\ Promoted(x) \in Doc
           /\ Promoted(x).version = x.version
           /\ Promoted(x).content = x.content
           /\ Promoted(x).state = x.state
  BY DEF Rewritten, Moved, Promoted, Doc

\* The targets of a text are in it, and no more than the limit: each of them has
\* another number of mentions before it.
LEMMA TargetsAre ==
    ASSUME NEW t \in SUBSET Mentionable
    PROVE  /\ Targets(t) \subseteq t
           /\ IsFiniteSet(Targets(t)) /\ Cardinality(Targets(t)) <= MaxMentions
<1> DEFINE Before(d) == {e \in t : Rank[e] < Rank[d]}
<1>1. Targets(t) \subseteq t /\ \A d \in Targets(t) : Cardinality(Before(d)) < MaxMentions
  BY DEF Targets
<1>2. IsFiniteSet(t)
  BY DocsAssumption, FS_Union, FS_Subset DEF Mentionable
<1>3. \A d \in t : IsFiniteSet(Before(d)) /\ Cardinality(Before(d)) \in Nat
  BY <1>2, FS_Subset, FS_CardinalityType
<1>4. \A d \in t : Rank[d] \in Nat /\ \A e \in t : Rank[d] = Rank[e] => d = e
  BY RankAssumption DEF Injection, IsInjective
<1>5. ASSUME NEW d \in t, NEW e \in t, Rank[d] < Rank[e]
      PROVE  Cardinality(Before(d)) # Cardinality(Before(e))
  <2>1. Before(d) \subseteq Before(e)
    BY <1>4, <1>5
  <2>2. d \in Before(e) /\ d \notin Before(d)
    BY <1>4, <1>5
  <2> QED
    BY <1>3, <2>1, <2>2, FS_Subset
<1>6. \A d, e \in t : Cardinality(Before(d)) = Cardinality(Before(e)) => d = e
  BY <1>4, <1>5
<1> DEFINE place == [d \in Targets(t) |-> Cardinality(Before(d))]
<1>7. place \in Injection(Targets(t), 0..(MaxMentions - 1))
  <2>1. \A d \in Targets(t) : Cardinality(Before(d)) \in 0..(MaxMentions - 1)
    BY <1>1, <1>3, MentionsAssumption
  <2>2. place \in [Targets(t) -> 0..(MaxMentions - 1)]
    BY <2>1
  <2>3. IsInjective(place)
    BY <1>1, <1>6 DEF IsInjective
  <2> QED
    BY <2>2, <2>3 DEF Injection
<1>8. IsFiniteSet(0..(MaxMentions - 1)) /\ Cardinality(0..(MaxMentions - 1)) = MaxMentions
  BY MentionsAssumption, FS_Interval
<1> HIDE DEF place
<1> QED
  BY <1>1, <1>7, <1>8, FS_Injection

\* A document that loses its place, or is saved, is still a document.
LEMMA RowsType ==
    ASSUME TypeOK, [Next]_vars
    PROVE  doc' \in [Docs -> Doc] /\ mentions' \in [Docs -> Mentions]
<1> USE DEF Mentions
<1>1. doc \in [Docs -> Doc] /\ mentions \in [Docs -> Mentions]
  BY DEF TypeOK
<1>2. ASSUME NEW d \in Docs, NEW t \in Contents, NEW v \in Nat
      PROVE  Synced(d, t, v) \in [Docs -> Mentions]
  BY <1>1, TargetsAre, ContentsAssumption DEF Synced
<1>3. ASSUME NEW r \in Requests, NEW d \in Docs, CreateInsert(r, d), Possible(call[r].to)
      PROVE  doc' \in [Docs -> Doc] /\ mentions' \in [Docs -> Mentions]
  <2>1. call[r].to \in Docs \cup {NoDoc}
    BY <1>3 DEF Possible, Live
  <2>2. [state |-> "live", version |-> 1, content |-> {}, parent |-> call[r].to] \in Doc
    BY <2>1, ContentsAssumption DEF Doc
  <2> QED
    BY <1>1, <1>3, <2>2 DEF CreateInsert
<1>4. ASSUME NEW r \in Requests, Store(r), Storable(call[r])
      PROVE  doc' \in [Docs -> Doc] /\ mentions' \in [Docs -> Mentions]
  <2>1. call[r] \in Call
    BY DEF TypeOK
  <2>2. call[r].doc \in Docs
    BY <1>4 DEF Storable, Live
  <2>3. call[r].ver + 1 \in Nat /\ call[r].text \in Contents /\ call[r].to \in Docs \cup {NoDoc}
    BY <2>1 DEF Call
  <2>4. CASE call[r].field = "content"
    <3>1. Rewritten(doc[call[r].doc], call[r].ver + 1, call[r].text) \in Doc
      BY <1>1, <2>2, <2>3, RowUpdates
    <3>2. /\ doc' = [doc EXCEPT ![call[r].doc] =
                       Rewritten(doc[call[r].doc], call[r].ver + 1, call[r].text)]
          /\ mentions' = Synced(call[r].doc, call[r].text, call[r].ver + 1)
      BY <1>1, <1>4, <2>2, <2>4 DEF Store
    <3>3. doc' \in [Docs -> Doc]
      BY <1>1, <2>2, <3>1, <3>2
    <3>4. mentions' \in [Docs -> Mentions]
      BY <1>2, <2>2, <2>3, <3>2
    <3> QED
      BY <3>3, <3>4
  <2>5. CASE call[r].field = "parent"
    <3>1. Moved(doc[call[r].doc], call[r].ver + 1, call[r].to) \in Doc
      BY <1>1, <2>2, <2>3, RowUpdates
    <3> QED
      BY <1>1, <1>4, <2>2, <2>5, <3>1 DEF Store
  <2> QED
    BY <2>1, <2>4, <2>5 DEF Call
<1>5. ASSUME NEW r \in Requests, DeleteCommit(r), Deletable(call[r])
      PROVE  doc' \in [Docs -> Doc] /\ mentions' \in [Docs -> Mentions]
  <2>1. \A d \in Docs : /\ Deleted(doc[d]) \in Doc
                        /\ Promoted(doc[d]) \in Doc
    <3> TAKE d \in Docs
    <3>1. doc[d] \in Doc /\ NoDoc \in Docs \cup {NoDoc} /\ 0 \in Nat
      BY <1>1
    <3>2. Deleted(doc[d]) \in Doc
      BY <3>1 DEF Deleted, Doc
    <3> QED
      BY <3>1, <3>2, RowUpdates, ContentsAssumption
  <2>2. doc' \in [Docs -> Doc]
    BY <1>1, <1>5, <2>1 DEF DeleteCommit
  <2>3. mentions' \in [Docs -> Mentions]
    <3>1. \A d \in Docs : [mentions[d] EXCEPT !.to = {}] \in Mentions
      BY <1>1
    <3>2. mentions' = [mentions EXCEPT ![call[r].doc] = [mentions[call[r].doc] EXCEPT !.to = {}]]
      BY <1>5 DEF DeleteCommit
    <3> QED
      BY <1>1, <3>1, <3>2
  <2> QED
    BY <2>2, <2>3
<1>6. ASSUME NEW d \in Docs, NEW c \in Contents, AgentEdit(d, c)
      PROVE  doc' \in [Docs -> Doc] /\ mentions' \in [Docs -> Mentions]
  <2>1. doc[d].version + 1 \in Nat
    BY <1>1 DEF Doc
  <2>2. Rewritten(doc[d], doc[d].version + 1, c) \in Doc
    BY <1>1, <2>1, RowUpdates
  <2>3. doc' = [doc EXCEPT ![d] = Rewritten(doc[d], doc[d].version + 1, c)]
    BY <1>6 DEF AgentEdit
  <2>4. mentions' = Synced(d, c, doc[d].version + 1)
    BY <1>6 DEF AgentEdit
  <2>5. doc' \in [Docs -> Doc]
    BY <1>1, <2>2, <2>3
  <2> QED
    BY <1>2, <2>1, <2>4, <2>5
<1>7. ASSUME Repair PROVE doc' \in [Docs -> Doc] /\ mentions' \in [Docs -> Mentions]
  <2>1. \A d \in Docs : Promoted(doc[d]) \in Doc
    BY <1>1, RowUpdates, ContentsAssumption
  <2> QED
    BY <1>1, <1>7, <2>1 DEF Repair
<1>8. ASSUME UNCHANGED <<doc, mentions>>
      PROVE  doc' \in [Docs -> Doc] /\ mentions' \in [Docs -> Mentions]
  BY <1>1, <1>8
<1>9. ASSUME NEW r \in Requests, Step(r)
      PROVE  doc' \in [Docs -> Doc] /\ mentions' \in [Docs -> Mentions]
  BY <1>3, <1>4, <1>5, <1>8, <1>9
     DEF Step, CreateInsert, Climb, Store, DeleteCommit, Abort, SaveContent, SaveParent
<1> QED
  BY <1>6, <1>7, <1>8, <1>9 DEF Next, Open, DeleteRead, CreateRead, vars

LEMMA NextType == TypeOK /\ [Next]_vars => TypeOK'
<1> SUFFICES ASSUME TypeOK, [Next]_vars PROVE TypeOK'
  OBVIOUS
<1>1. ASSUME UNCHANGED call PROVE call' \in [Requests -> Call]
  BY <1>1 DEF TypeOK
<1>2. call' \in [Requests -> Call]
  BY <1>1, CallsType DEF Next, AgentEdit, Repair, vars
<1> QED
  BY <1>2, RowsType DEF TypeOK

\* The types of the documents, of their mentions and of the requests, in every
\* reachable state and for any number of each.
THEOREM TypeCorrect == Spec => []TypeOK
BY NextType, InitType, PTL DEF Spec

-----------------------------------------------------------------------------
\* Versions

\* What editor r knows: a version that was there, and the content it had.
Knows(r) ==
    /\ call[r].doc \in Docs
    /\ doc[call[r].doc].state # "new"
    /\ call[r].ver <= doc[call[r].doc].version
    /\ call[r].ver = doc[call[r].doc].version => call[r].base = doc[call[r].doc].content

SeenInv == \A r \in Requests : call[r].at \in {"editing", "climbing", "saving"} => Knows(r)

VersionInv == TypeOK /\ SeenInv

\* What any step may do to a row that exists: its version grows, or its version
\* and its content stay.
Older(d) ==
    doc[d].state # "new" =>
       /\ doc'[d].state # "new"
       /\ \/ doc'[d].version > doc[d].version
          \/ doc'[d].version = doc[d].version /\ doc'[d].content = doc[d].content

LEMMA RowsGrow ==
    ASSUME VersionInv, [Next]_vars, NEW d \in Docs PROVE Older(d)
<1>1. doc[d] \in Doc
  BY DEF VersionInv, TypeOK
<1>0. /\ Promoted(doc[d]).version = doc[d].version
      /\ Promoted(doc[d]).content = doc[d].content
      /\ Promoted(doc[d]).state = doc[d].state
  BY <1>1 DEF Promoted, Doc
<1>2. doc \in [Docs -> Doc] /\ call \in [Requests -> Call]
  BY DEF VersionInv, TypeOK
<1>3. ASSUME NEW r \in Requests, NEW e \in Docs, CreateInsert(r, e) PROVE Older(d)
  BY <1>1, <1>2, <1>3 DEF CreateInsert, Older
<1>4. ASSUME NEW r \in Requests, Store(r) PROVE Older(d)
  <2>1. CASE ~Storable(call[r])
    BY <1>1, <1>4, <2>1 DEF Store, Older
  <2>2. CASE Storable(call[r]) /\ d = call[r].doc
    <3>1. /\ call[r].ver \in Nat /\ call[r].ver + 1 \in Nat
          /\ call[r].text \in Contents /\ call[r].to \in Docs \cup {NoDoc}
      BY <1>2 DEF Call
    <3>2. doc'[d].version = doc[d].version + 1 /\ doc'[d].state = doc[d].state
      <4>1. doc[d].version = call[r].ver
        BY <2>2 DEF Storable
      <4>2. \/ doc'[d] = Rewritten(doc[d], call[r].ver + 1, call[r].text)
            \/ doc'[d] = Moved(doc[d], call[r].ver + 1, call[r].to)
        BY <1>2, <1>4, <2>2 DEF Store
      <4> QED
        BY <1>1, <3>1, <4>1, <4>2, RowUpdates
    <3> QED
      BY <1>1, <3>2 DEF Older, Doc
  <2>3. CASE Storable(call[r]) /\ d # call[r].doc
    BY <1>1, <1>2, <1>4, <2>3 DEF Store, Older
  <2> QED
    BY <2>1, <2>2, <2>3
<1>5. ASSUME NEW r \in Requests, DeleteCommit(r) PROVE Older(d)
  <2>1. \/ doc'[d] = doc[d]
        \/ doc'[d] = Deleted(doc[d])
        \/ doc'[d] = Promoted(doc[d])
    BY <1>2, <1>5 DEF DeleteCommit
  <2>2. CASE doc'[d] = Deleted(doc[d])
    BY <1>1, <2>2 DEF Deleted, Older, Doc
  <2>3. CASE doc'[d] \in {doc[d], Promoted(doc[d])}
    BY <1>1, <1>0, <2>3 DEF Older, Doc
  <2> QED
    BY <2>1, <2>2, <2>3
<1>6. ASSUME NEW e \in Docs, NEW c \in Contents, AgentEdit(e, c) PROVE Older(d)
  <2>1. CASE e = d
    <3>1. doc'[d].version = doc[d].version + 1 /\ doc'[d].state = doc[d].state
      <4>1. doc[d].version + 1 \in Nat
        BY <1>1 DEF Doc
      <4>2. doc'[d] = Rewritten(doc[d], doc[d].version + 1, c)
        BY <1>2, <1>6, <2>1 DEF AgentEdit
      <4> QED
        BY <1>1, <4>1, <4>2 DEF Rewritten, Doc
    <3> QED
      BY <1>1, <3>1 DEF Older, Doc
  <2>2. CASE e # d
    BY <1>1, <1>2, <1>6, <2>2 DEF AgentEdit, Older
  <2> QED
    BY <2>1, <2>2
<1>7. ASSUME Repair PROVE Older(d)
  <2>1. doc'[d] \in {doc[d], Promoted(doc[d])}
    BY <1>2, <1>7 DEF Repair
  <2> QED
    BY <1>1, <1>0, <2>1 DEF Older, Doc
<1>8. ASSUME UNCHANGED doc PROVE Older(d)
  BY <1>1, <1>8 DEF Older
<1>9. ASSUME NEW r \in Requests, Step(r) PROVE Older(d)
  BY <1>3, <1>4, <1>5, <1>8, <1>9 DEF Step, Climb, Abort, SaveContent, SaveParent
<1> QED
  BY <1>6, <1>7, <1>8, <1>9 DEF Next, Open, DeleteRead, CreateRead, vars

\* A request that has started to edit keeps what it started with.
LEMMA EditorsStep ==
    ASSUME VersionInv, [Next]_vars, NEW r \in Requests,
           call'[r].at \in {"editing", "climbing", "saving"}
    PROVE  \/ /\ call[r].at \in {"editing", "climbing", "saving"}
              /\ call'[r].doc = call[r].doc
              /\ call'[r].ver = call[r].ver
              /\ call'[r].base = call[r].base
           \/ \E d \in Docs : Open(r, d)
<1>1. call \in [Requests -> Call]
  BY DEF VersionInv, TypeOK
<1>2. call[r] \in Call
  BY <1>1
<1>3. Idle.at = "idle"
  BY DEF Idle
<1>4. ASSUME NEW n, call'[r] = Visit(call[r], n), call[r].at = "climbing"
      PROVE  call'[r].doc = call[r].doc /\ call'[r].ver = call[r].ver /\ call'[r].base = call[r].base
  BY <1>2, <1>3, <1>4 DEF Visit, Call
<1>5. ASSUME NEW s \in Requests \ {r},
             Step(s) \/ (\E d \in Docs : Open(s, d) \/ DeleteRead(s, d))
                \/ (\E p \in Docs \cup {NoDoc} : CreateRead(s, p))
      PROVE  call'[r] = call[r]
  BY <1>1, <1>5 DEF Step, Open, DeleteRead, CreateRead, CreateInsert, Climb, Store,
                    DeleteCommit, Abort, SaveContent, SaveParent
<1>6. ASSUME (\E d \in Docs : CreateInsert(r, d)) \/ Store(r) \/ DeleteCommit(r) \/ Abort(r) PROVE FALSE
  BY <1>1, <1>3, <1>6 DEF CreateInsert, Store, DeleteCommit, Abort
<1>7. ASSUME Climb(r)
      PROVE  /\ call[r].at \in {"editing", "climbing", "saving"}
             /\ call'[r].doc = call[r].doc /\ call'[r].ver = call[r].ver
             /\ call'[r].base = call[r].base
  <2>1. call[r].at = "climbing"
    BY <1>7 DEF Climb
  <2>2. \/ call'[r] = Visit(call[r], call[r].next)
        \/ call'[r] = [call[r] EXCEPT !.at = "saving"]
    BY <1>1, <1>7 DEF Climb
  <2> QED
    BY <1>2, <1>4, <2>1, <2>2 DEF Call
<1>8. ASSUME NEW c \in Contents, SaveContent(r, c)
      PROVE  /\ call[r].at \in {"editing", "climbing", "saving"}
             /\ call'[r].doc = call[r].doc /\ call'[r].ver = call[r].ver
             /\ call'[r].base = call[r].base
  <2>1. call'[r] = [call[r] EXCEPT !.at = "saving", !.field = "content", !.text = c]
    BY <1>1, <1>8 DEF SaveContent
  <2> QED
    BY <1>2, <1>8, <2>1 DEF SaveContent, Call
<1>9. ASSUME NEW p \in Docs \cup {NoDoc}, SaveParent(r, p)
      PROVE  /\ call[r].at \in {"editing", "climbing", "saving"}
             /\ call'[r].doc = call[r].doc /\ call'[r].ver = call[r].ver
             /\ call'[r].base = call[r].base
  <2> DEFINE c == [call[r] EXCEPT !.field = "parent", !.to = p, !.seen = {call[r].doc}]
  <2>1. c.doc = call[r].doc /\ c.ver = call[r].ver /\ c.base = call[r].base
    BY <1>2 DEF Call
  <2>2. call'[r] \in {[c EXCEPT !.at = "saving"], Visit(c, p)}
    BY <1>1, <1>9 DEF SaveParent
  <2>3. CASE call'[r] = [c EXCEPT !.at = "saving"]
    BY <1>2, <1>9, <2>3 DEF SaveParent, Call
  <2>4. CASE call'[r] = Visit(c, p)
    <3>1. \/ call'[r] = Idle
          \/ call'[r] = [c EXCEPT !.at = "saving"]
          \/ call'[r] = [c EXCEPT !.at = "climbing", !.seen = @ \cup {p}, !.next = doc[p].parent]
      <4> HIDE DEF c
      <4> QED
        BY <2>4 DEF Visit
    <3>2. CASE call'[r] = [c EXCEPT !.at = "climbing", !.seen = @ \cup {p}, !.next = doc[p].parent]
      BY <1>2, <1>9, <3>2 DEF SaveParent, Call
    <3> QED
      BY <1>3, <2>3, <3>1, <3>2
  <2> QED
    BY <2>2, <2>3, <2>4
<1>10. ASSUME NEW d \in Docs, DeleteRead(r, d) PROVE FALSE
  BY <1>1, <1>10 DEF DeleteRead, Idle
<1>11. ASSUME NEW p \in Docs \cup {NoDoc}, CreateRead(r, p) PROVE FALSE
  BY <1>1, <1>11 DEF CreateRead, Idle
<1>12. ASSUME UNCHANGED call PROVE call'[r] = call[r]
  BY <1>12
<1>13. ASSUME call'[r] = call[r]
       PROVE  /\ call[r].at \in {"editing", "climbing", "saving"}
              /\ call'[r].doc = call[r].doc /\ call'[r].ver = call[r].ver
              /\ call'[r].base = call[r].base
  BY <1>13
<1>14. ASSUME Step(r)
       PROVE  /\ call[r].at \in {"editing", "climbing", "saving"}
              /\ call'[r].doc = call[r].doc /\ call'[r].ver = call[r].ver
              /\ call'[r].base = call[r].base
  BY <1>6, <1>7, <1>8, <1>9, <1>14 DEF Step
<1> QED
  BY <1>5, <1>10, <1>11, <1>12, <1>13, <1>14 DEF Next, AgentEdit, Repair, vars

\* No step gives an editor a version whose content it has not seen.
LEMMA VersionStep == VersionInv /\ TypeOK' /\ [Next]_vars => VersionInv'
<1> SUFFICES ASSUME VersionInv, TypeOK', [Next]_vars, NEW r \in Requests,
                    call'[r].at \in {"editing", "climbing", "saving"}
             PROVE  Knows(r)'
  BY DEF VersionInv, SeenInv
<1>1. ASSUME NEW d \in Docs, Open(r, d) PROVE Knows(r)'
  <2>1. doc[d] \in Doc /\ doc' = doc /\ call \in [Requests -> Call]
    BY <1>1 DEF VersionInv, TypeOK, Open
  <2>2. call'[r].doc = d /\ call'[r].ver = doc[d].version /\ call'[r].base = doc[d].content
    BY <1>1, <2>1 DEF Open, Idle
  <2>3. doc[d].state # "new"
    BY <1>1 DEF Open, Live
  <2> QED
    BY <2>1, <2>2, <2>3 DEF Knows, Doc
<1>2. ASSUME call[r].at \in {"editing", "climbing", "saving"}, call'[r].doc = call[r].doc,
             call'[r].ver = call[r].ver, call'[r].base = call[r].base
      PROVE  Knows(r)'
  <2>1. Knows(r)
    BY <1>2 DEF VersionInv, SeenInv
  <2>2. call[r].doc \in Docs
    BY <2>1 DEF Knows
  <2>3. /\ call[r].ver \in Nat
        /\ doc[call[r].doc].version \in Nat /\ doc'[call[r].doc].version \in Nat
    BY <2>2 DEF VersionInv, TypeOK, Call, Doc
  <2>4. Older(call[r].doc)
    BY <2>2, RowsGrow
  <2> QED
    BY <1>2, <2>1, <2>2, <2>3, <2>4 DEF Knows, Older
<1> QED
  BY <1>1, <1>2, EditorsStep

\* No save overwrites content its editor has not seen, whatever other editors,
\* agents, deletions and repairs do between the load and the save: a version
\* determines the content (update_doc's compare-and-swap, and the increment in
\* _apply_doc_update).
THEOREM SavesAreSeen == Spec => NoLostSave
<1>1. Init => VersionInv
  BY InitType DEF Init, Idle, VersionInv, SeenInv
<1>2. Spec => []VersionInv
  <2>1. VersionInv /\ [Next]_vars => TypeOK'
    BY NextType DEF VersionInv
  <2> QED
    BY <1>1, <2>1, VersionStep, PTL DEF Spec
<1>3. ASSUME VersionInv, [Next]_vars, NEW r \in Requests,
             call[r].at = "saving", call'[r] # call[r],
             doc'[call[r].doc] # doc[call[r].doc]
      PROVE  call[r].base = doc[call[r].doc].content
  <2>1. call \in [Requests -> Call] /\ Knows(r)
    BY <1>3 DEF VersionInv, TypeOK, SeenInv
  <2>2. ASSUME Store(r) PROVE call[r].base = doc[call[r].doc].content
    <3>1. Storable(call[r])
      BY <1>3, <2>2 DEF Store
    <3> QED
      BY <2>1, <3>1 DEF Knows, Storable
  <2>3. ASSUME NEW s \in Requests \ {r},
               Step(s) \/ (\E d \in Docs : Open(s, d) \/ DeleteRead(s, d))
                  \/ (\E p \in Docs \cup {NoDoc} : CreateRead(s, p))
        PROVE  call'[r] = call[r]
    BY <2>1, <2>3 DEF Step, Open, DeleteRead, CreateRead, CreateInsert, Climb, Store,
                      DeleteCommit, Abort, SaveContent, SaveParent
  <2>4. ASSUME Step(r) PROVE Store(r) \/ Abort(r)
    BY <1>3, <2>4 DEF Step, CreateInsert, Climb, DeleteCommit, SaveContent, SaveParent
  <2>5. ASSUME Abort(r) PROVE doc' = doc
    BY <2>5 DEF Abort
  <2>6. ~(\E d \in Docs : Open(r, d) \/ DeleteRead(r, d))
        /\ ~(\E p \in Docs \cup {NoDoc} : CreateRead(r, p))
    BY <1>3 DEF Open, DeleteRead, CreateRead, Idle
  <2> QED
    BY <1>3, <2>2, <2>3, <2>4, <2>5, <2>6 DEF Next, AgentEdit, Repair, vars
<1>4. VersionInv /\ [Next]_vars => [NoLostStep]_vars
  BY <1>3 DEF NoLostStep
<1> QED
  BY <1>2, <1>4, PTL DEF Spec, NoLostSave

-----------------------------------------------------------------------------
\* Mentions

\* What there is or was; nothing refers to a document that is still to come.
Existing == {d \in Docs : doc[d].state # "new"} \cup Entities

\* A document that comes to life must not find itself in an older text, where no
\* save has made a mention of it: so neither the rows nor the editors know it.
NamesExist ==
    /\ \A d \in Docs : doc[d].content \subseteq Existing
    /\ \A r \in Requests : call[r].base \subseteq Existing /\ call[r].text \subseteq Existing

NewAreBlank == \A d \in Docs \ Existing : mentions[d].to = {}

MentionInv == VersionInv /\ NamesExist /\ NewAreBlank /\ MentionsFollowContent

\* The texts that requests carry are made of what exists.
LEMMA CallsNameExisting ==
    ASSUME MentionInv, [Next]_vars, NEW r \in Requests
    PROVE  call'[r].base \subseteq Existing /\ call'[r].text \subseteq Existing
<1>1. /\ call \in [Requests -> Call] /\ call[r] \in Call
      /\ call[r].base \subseteq Existing /\ call[r].text \subseteq Existing
  BY DEF MentionInv, VersionInv, TypeOK, NamesExist
<1>2. Idle.base = {} /\ Idle.text = {}
  BY DEF Idle
<1> DEFINE Same(c) == c.base = call[r].base /\ c.text = call[r].text
           Good(c) == c.base \subseteq Existing /\ c.text \subseteq Existing
<1>3. \A c : Same(c) => Good(c)
  BY <1>1
<1>4. Good(Idle) /\ Good(call[r])
  BY <1>1, <1>2
<1>6. ASSUME NEW d \in Docs, Open(r, d) PROVE Good(call'[r])
  <2>1. call'[r].base = doc[d].content /\ call'[r].text = {}
    BY <1>1, <1>6 DEF Open, Idle
  <2> QED
    BY <2>1 DEF MentionInv, NamesExist
<1>7. ASSUME NEW t \in Contents, SaveContent(r, t) PROVE Good(call'[r])
  <2>1. call'[r].base = call[r].base /\ call'[r].text = t
    BY <1>1, <1>7 DEF SaveContent, Call
  <2>2. t \subseteq Existing
    BY <1>1, <1>7 DEF SaveContent, Resolvable, Live, Existing
  <2> QED
    BY <1>1, <2>1, <2>2
<1>8. ASSUME NEW p \in Docs \cup {NoDoc}, SaveParent(r, p) PROVE Good(call'[r])
  <2> DEFINE c == [call[r] EXCEPT !.field = "parent", !.to = p, !.seen = {call[r].doc}]
  <2>1. c \in Call
    <3>1. call[r].doc \in Docs
      BY <1>8 DEF SaveParent, Current, Live
    <3> QED
      BY <1>1, <3>1 DEF Call
  <2>2. c.base = call[r].base /\ c.text = call[r].text
    BY <1>1 DEF Call
  <2>3. call'[r] \in {[c EXCEPT !.at = "saving"], Visit(c, p)}
    BY <1>1, <1>8 DEF SaveParent
  <2> HIDE DEF c
  <2>4. call'[r] \in {Idle, [c EXCEPT !.at = "saving"],
                      [c EXCEPT !.at = "climbing", !.seen = @ \cup {p}, !.next = doc[p].parent]}
    BY <2>3 DEF Visit
  <2>5. call'[r] = Idle \/ (call'[r].base = c.base /\ call'[r].text = c.text)
    BY <2>1, <2>4 DEF Call
  <2> QED
    BY <1>1, <1>4, <2>2, <2>5
<1>9. ASSUME Climb(r) PROVE Good(call'[r])
  <2>1. call'[r] \in {Visit(call[r], call[r].next), [call[r] EXCEPT !.at = "saving"]}
    BY <1>1, <1>9 DEF Climb
  <2>2. call'[r] \in {Idle, [call[r] EXCEPT !.at = "saving"],
                      [call[r] EXCEPT !.at = "climbing", !.seen = @ \cup {call[r].next},
                                      !.next = doc[call[r].next].parent]}
    BY <2>1 DEF Visit
  <2>3. call'[r] = Idle \/ Same(call'[r])
    BY <1>1, <2>2 DEF Call
  <2> QED
    BY <1>3, <1>4, <2>3
<1>10. ASSUME (\E d \in Docs : CreateInsert(r, d)) \/ Store(r) \/ DeleteCommit(r) \/ Abort(r)
       PROVE  Good(call'[r])
  BY <1>1, <1>4, <1>10 DEF CreateInsert, Store, DeleteCommit, Abort
<1>11. ASSUME NEW d \in Docs, DeleteRead(r, d) PROVE Good(call'[r])
  BY <1>1, <1>11 DEF DeleteRead, Idle
<1>12. ASSUME NEW p \in Docs \cup {NoDoc}, CreateRead(r, p) PROVE Good(call'[r])
  BY <1>1, <1>12 DEF CreateRead, Idle
<1>13. ASSUME NEW s \in Requests \ {r},
              Step(s) \/ (\E d \in Docs : Open(s, d) \/ DeleteRead(s, d))
                 \/ (\E p \in Docs \cup {NoDoc} : CreateRead(s, p))
       PROVE  call'[r] = call[r]
  BY <1>1, <1>13 DEF Step, Open, DeleteRead, CreateRead, CreateInsert, Climb, Store,
                     DeleteCommit, Abort, SaveContent, SaveParent
<1>14. ASSUME Step(r) PROVE Good(call'[r])
  BY <1>7, <1>8, <1>9, <1>10, <1>14 DEF Step
<1>15. ASSUME UNCHANGED call PROVE Good(call'[r])
  BY <1>4, <1>15
<1>16. Good(call'[r])
  BY <1>4, <1>6, <1>11, <1>12, <1>13, <1>14, <1>15 DEF Next, AgentEdit, Repair, vars
<1> QED
  BY <1>16

\* What a step does to the documents and their mentions: nothing; a new document;
\* a text with its mentions; no text and no life; or the end of one document.
Born(d) ==
    /\ doc[d].state = "new"
    /\ \E x \in Doc : x.content = {} /\ x.state = "live" /\ doc' = [doc EXCEPT ![d] = x]
    /\ mentions' = mentions

Written(d, t) ==
    /\ d \in Live /\ t \subseteq Existing
    /\ \E v \in Nat : doc' = [doc EXCEPT ![d] = Rewritten(@, v, t)] /\ mentions' = Synced(d, t, v)

Kept == \A d \in Docs : doc'[d].content = doc[d].content /\ doc'[d].state = doc[d].state

Ended(d) ==
    /\ \A e \in Docs \ {d} : doc'[e].content = doc[e].content /\ doc'[e].state = doc[e].state
    /\ doc'[d].content = doc[d].content /\ doc'[d].state = "deleted"
    /\ mentions' = [mentions EXCEPT ![d].to = {}]

LEMMA Effects ==
    ASSUME MentionInv, [Next]_vars
    PROVE  \/ Kept /\ mentions' = mentions
           \/ \E d \in Docs : Born(d) \/ Ended(d) \/ \E t \in Contents : Written(d, t)
<1> DEFINE Effect == \/ Kept /\ mentions' = mentions
                     \/ \E d \in Docs : Born(d) \/ Ended(d) \/ \E t \in Contents : Written(d, t)
<1>1. /\ doc \in [Docs -> Doc] /\ mentions \in [Docs -> Mentions]
      /\ call \in [Requests -> Call]
  BY DEF MentionInv, VersionInv, TypeOK
<1>2. ASSUME NEW r \in Requests, NEW d \in Docs, CreateInsert(r, d) PROVE Effect
  <2>1. CASE Possible(call[r].to)
    <3>1. call[r].to \in Docs \cup {NoDoc}
      BY <2>1 DEF Possible, Live
    <3> DEFINE x == [state |-> "live", version |-> 1, content |-> {}, parent |-> call[r].to]
    <3>2. x \in Doc
      BY <3>1, ContentsAssumption DEF Doc
    <3>3. doc[d].state = "new" /\ doc' = [doc EXCEPT ![d] = x] /\ mentions' = mentions
      BY <1>2, <2>1 DEF CreateInsert
    <3>4. x.content = {} /\ x.state = "live"
      OBVIOUS
    <3> HIDE DEF x
    <3> QED
      BY <3>2, <3>3, <3>4 DEF Born
  <2>2. CASE ~Possible(call[r].to)
    BY <1>2, <2>2 DEF CreateInsert, Kept
  <2> QED
    BY <2>1, <2>2
<1>3. ASSUME NEW r \in Requests, Store(r) PROVE Effect
  <2>1. call[r] \in Call
    BY <1>1
  <2>2. CASE ~Storable(call[r])
    BY <1>3, <2>2 DEF Store, Kept
  <2>3. CASE Storable(call[r]) /\ call[r].field = "content"
    <3>1. call[r].doc \in Live /\ call[r].doc \in Docs
      BY <2>3 DEF Storable, Live
    <3>2. call[r].text \in Contents /\ call[r].text \subseteq Existing /\ call[r].ver + 1 \in Nat
      BY <2>1 DEF Call, MentionInv, NamesExist
    <3>3. /\ doc' = [doc EXCEPT ![call[r].doc] = Rewritten(@, call[r].ver + 1, call[r].text)]
          /\ mentions' = Synced(call[r].doc, call[r].text, call[r].ver + 1)
      BY <1>3, <2>3 DEF Store
    <3>4. Written(call[r].doc, call[r].text)
      BY <3>1, <3>2, <3>3 DEF Written
    <3> QED
      BY <3>1, <3>2, <3>4
  <2>4. CASE Storable(call[r]) /\ call[r].field = "parent"
    <3>1. call[r].doc \in Docs
      BY <2>4 DEF Storable, Live
    <3>2. doc' = [doc EXCEPT ![call[r].doc] = Moved(@, call[r].ver + 1, call[r].to)]
      BY <1>3, <2>4 DEF Store
    <3>3. \A x \in Doc : \A v, p : /\ Moved(x, v, p).content = x.content
                                 /\ Moved(x, v, p).state = x.state
      BY DEF Moved, Doc
    <3>4. Kept
      BY <1>1, <3>1, <3>2, <3>3 DEF Kept
    <3> QED
      BY <1>3, <2>4, <3>4 DEF Store
  <2> QED
    BY <2>1, <2>2, <2>3, <2>4 DEF Call
<1>4. ASSUME NEW r \in Requests, DeleteCommit(r) PROVE Effect
  <2>1. CASE Deletable(call[r])
    <3>1. \A x \in Doc : /\ Deleted(x).content = x.content /\ Deleted(x).state = "deleted"
                         /\ Promoted(x).content = x.content /\ Promoted(x).state = x.state
      BY DEF Deleted, Promoted, Doc
    <3>2. CASE call[r].doc \in Docs
      <4>1. Ended(call[r].doc)
        BY <1>1, <1>4, <2>1, <3>1, <3>2 DEF DeleteCommit, Ended
      <4> QED
        BY <3>2, <4>1
    <3>3. CASE call[r].doc \notin Docs
      <4>1. Kept
        BY <1>1, <1>4, <2>1, <3>1, <3>3 DEF DeleteCommit, Kept
      <4>2. mentions' = mentions
        BY <1>1, <1>4, <2>1, <3>3 DEF DeleteCommit
      <4> QED
        BY <4>1, <4>2
    <3> QED
      BY <3>2, <3>3
  <2>2. CASE ~Deletable(call[r])
    BY <1>4, <2>2 DEF DeleteCommit, Kept
  <2> QED
    BY <2>1, <2>2
<1>5. ASSUME NEW d \in Docs, NEW t \in Contents, AgentEdit(d, t) PROVE Effect
  <2>1. d \in Live /\ doc[d].version + 1 \in Nat
    BY <1>1, <1>5 DEF AgentEdit, Doc
  <2>2. t \subseteq Existing
    BY <1>5 DEF AgentEdit, Resolvable, Live, Existing, MentionInv, NamesExist
  <2>3. /\ doc' = [doc EXCEPT ![d] = Rewritten(@, doc[d].version + 1, t)]
        /\ mentions' = Synced(d, t, doc[d].version + 1)
    BY <1>1, <1>5 DEF AgentEdit
  <2> QED
    BY <2>1, <2>2, <2>3 DEF Written
<1>6. ASSUME Repair PROVE Effect
  <2>1. \A x \in Doc : Promoted(x).content = x.content /\ Promoted(x).state = x.state
    BY DEF Promoted, Doc
  <2>2. \A d \in Docs : doc'[d] \in {doc[d], Promoted(doc[d])}
    BY <1>1, <1>6 DEF Repair
  <2>3. Kept
    BY <1>1, <2>1, <2>2 DEF Kept
  <2> QED
    BY <1>6, <2>3 DEF Repair
<1>7. ASSUME UNCHANGED <<doc, mentions>> PROVE Effect
  BY <1>7 DEF Kept
<1>8. ASSUME NEW r \in Requests, Step(r) PROVE Effect
  BY <1>2, <1>3, <1>4, <1>7, <1>8 DEF Step, Climb, Abort, SaveContent, SaveParent
<1>9. Effect
  BY <1>5, <1>6, <1>7, <1>8 DEF Next, Open, DeleteRead, CreateRead, vars
<1> QED
  BY <1>9

LEMMA MentionStep == MentionInv /\ VersionInv' /\ [Next]_vars => MentionInv'
<1> SUFFICES ASSUME MentionInv, VersionInv', [Next]_vars PROVE MentionInv'
  OBVIOUS
<1>1. doc \in [Docs -> Doc] /\ mentions \in [Docs -> Mentions]
  BY DEF MentionInv, VersionInv, TypeOK
<1>2. /\ Live \subseteq Existing /\ Live \subseteq Docs /\ Docs \cap Entities = {}
      /\ Resolvable = Live \cup Entities
  BY DocsAssumption DEF Live, Existing, Resolvable
<1>0. \A e \in Docs : /\ doc[e].content \in SUBSET Mentionable
                       /\ Targets(doc[e].content) \subseteq doc[e].content
  BY <1>1, TargetsAre, ContentsAssumption DEF Doc
<1> DEFINE After ==
      /\ Existing \subseteq Existing'
      /\ \A d \in Docs : doc'[d].content \subseteq Existing'
      /\ NewAreBlank' /\ MentionsFollowContent'
<1>3. ASSUME Kept, mentions' = mentions PROVE After
  <2>1. Existing' = Existing /\ Live' = Live
    BY <1>3 DEF Existing, Live, Kept
  <2> QED
    BY <1>3, <2>1 DEF MentionInv, NamesExist, NewAreBlank, MentionsFollowContent, Kept, Live, Resolvable
<1>4. ASSUME NEW d \in Docs, Born(d) PROVE After
  <2>1. PICK x \in Doc : x.content = {} /\ x.state = "live" /\ doc' = [doc EXCEPT ![d] = x]
    BY <1>4 DEF Born
  <2>2. \A e \in Docs : doc'[e] = IF e = d THEN x ELSE doc[e]
    BY <1>1, <2>1
  <2>3. Existing' = Existing \cup {d} /\ Live' = Live \cup {d} /\ d \notin Existing
    BY <1>2, <1>4, <2>1, <2>2 DEF Existing, Live, Born
  <2>4. mentions' = mentions /\ mentions[d].to = {}
    BY <1>4, <2>3 DEF Born, MentionInv, NewAreBlank
  <2>5. \A e \in Docs : doc'[e].content \subseteq Existing /\ d \notin doc'[e].content
    BY <2>1, <2>2, <2>3 DEF MentionInv, NamesExist
  <2>6. NewAreBlank'
    BY <2>3, <2>4 DEF MentionInv, NewAreBlank
  <2>7. ASSUME NEW e \in Live'
        PROVE  /\ mentions'[e].to \subseteq Targets(doc'[e].content)
               /\ Targets(doc'[e].content) \cap Resolvable' \subseteq mentions'[e].to
               /\ Cardinality(mentions'[e].to) <= MaxMentions
    <3>1. CASE e = d
      <4>1. doc'[e].content = {} /\ mentions'[e].to = {}
        BY <1>2, <2>1, <2>2, <2>3, <2>4, <3>1
      <4>2. Targets({}) = {}
        BY DEF Targets
      <4>3. Cardinality({}) <= MaxMentions
        BY FS_EmptySet, MentionsAssumption
      <4> QED
        BY <4>1, <4>2, <4>3
    <3>2. CASE e # d
      <4>1. e \in Live /\ e \in Docs /\ doc'[e] = doc[e] /\ mentions'[e] = mentions[e]
        BY <1>2, <2>2, <2>3, <2>4, <3>2
      <4>2. Targets(doc[e].content) \cap Resolvable' = Targets(doc[e].content) \cap Resolvable
        BY <1>0, <1>2, <2>3, <2>5, <4>1 DEF Resolvable
      <4> QED
        BY <4>1, <4>2 DEF MentionInv, MentionsFollowContent
    <3> QED
      BY <3>1, <3>2
  <2> QED
    BY <2>3, <2>5, <2>6, <2>7 DEF MentionsFollowContent
<1>5. ASSUME NEW d \in Docs, Ended(d) PROVE After
  <2>1. /\ Existing \subseteq Existing' /\ Live' = Live \ {d}
        /\ Resolvable' \subseteq Resolvable
    BY <1>5 DEF Existing, Live, Ended, Resolvable
  <2>2. Existing' \subseteq Existing \cup {d}
    BY <1>5 DEF Existing, Ended
  <2>3. \A e \in Docs \ {d} : mentions'[e] = mentions[e]
    BY <1>1, <1>5 DEF Ended
  <2>4. d \in Existing'
    BY <1>5 DEF Existing, Ended
  <2>5. \A e \in Docs : doc'[e].content = doc[e].content
    BY <1>5 DEF Ended
  <2>6. NewAreBlank'
    BY <2>1, <2>3, <2>4 DEF MentionInv, NewAreBlank, Existing
  <2>7. MentionsFollowContent'
    BY <1>2, <2>1, <2>3, <2>5 DEF MentionInv, MentionsFollowContent
  <2>8. \A e \in Docs : doc'[e].content \subseteq Existing'
    BY <2>1, <2>5 DEF MentionInv, NamesExist
  <2> QED
    BY <2>1, <2>6, <2>7, <2>8
<1>6. ASSUME NEW d \in Docs, NEW t \in Contents, Written(d, t) PROVE After
  <2>1. PICK v \in Nat : doc' = [doc EXCEPT ![d] = Rewritten(@, v, t)] /\ mentions' = Synced(d, t, v)
    BY <1>6 DEF Written
  <2>2. doc'[d].content = t /\ doc'[d].state = doc[d].state
    BY <1>1, <2>1 DEF Rewritten, Doc
  <2>3. \A e \in Docs \ {d} : doc'[e] = doc[e] /\ mentions'[e] = mentions[e]
    BY <1>1, <2>1 DEF Synced
  <2>4. mentions'[d].to = Targets(t) \cap Resolvable
    BY <1>1, <2>1 DEF Synced
  <2>0. Cardinality(Targets(t) \cap Resolvable) <= MaxMentions
    <3>1. t \in SUBSET Mentionable
      BY ContentsAssumption
    <3>2. IsFiniteSet(Targets(t)) /\ Cardinality(Targets(t)) <= MaxMentions
      BY <3>1, TargetsAre
    <3>3. /\ IsFiniteSet(Targets(t) \cap Resolvable)
          /\ Cardinality(Targets(t) \cap Resolvable) <= Cardinality(Targets(t))
      BY <3>2, FS_Subset
    <3>4. Cardinality(Targets(t)) \in Nat /\ Cardinality(Targets(t) \cap Resolvable) \in Nat
      BY <3>2, <3>3, FS_CardinalityType
    <3> QED
      BY <3>2, <3>3, <3>4, MentionsAssumption
  <2>5. Existing' = Existing /\ Live' = Live /\ Resolvable' = Resolvable
    BY <2>2, <2>3 DEF Existing, Live, Resolvable
  <2>6. t \subseteq Existing /\ d \in Existing
    BY <1>2, <1>6 DEF Written
  <2>7. NewAreBlank'
    BY <2>3, <2>5, <2>6 DEF MentionInv, NewAreBlank, Existing
  <2>8. MentionsFollowContent'
    BY <1>2, <2>0, <2>2, <2>3, <2>4, <2>5 DEF MentionInv, MentionsFollowContent
  <2>9. \A e \in Docs : doc'[e].content \subseteq Existing'
    BY <2>2, <2>3, <2>5, <2>6 DEF MentionInv, NamesExist
  <2> QED
    BY <2>5, <2>7, <2>8, <2>9
<1>7. After
  BY <1>3, <1>4, <1>5, <1>6, Effects
<1>8. \A r \in Requests : call'[r].base \subseteq Existing /\ call'[r].text \subseteq Existing
  BY CallsNameExisting
<1> QED
  BY <1>7, <1>8 DEF MentionInv, NamesExist

\* The backlinks tell the content, for any number of documents and whatever editors,
\* agents, creations, deletions and repairs do (sync_mentions on both paths that
\* write content, and the deletion of a document's own mentions).
THEOREM MentionsAreTrue == Spec => []MentionsFollowContent
<1>1. Init => MentionInv
  <2> SUFFICES ASSUME Init PROVE MentionInv
    OBVIOUS
  <2>1. VersionInv
    BY InitType DEF Init, Idle, VersionInv, SeenInv
  <2>2. Live = {}
    BY DEF Init, Live
  <2> QED
    BY <2>1, <2>2 DEF Init, Idle, MentionInv, NamesExist, NewAreBlank, MentionsFollowContent
<1>2. MentionInv /\ [Next]_vars => VersionInv'
  BY NextType, VersionStep DEF MentionInv, VersionInv
<1>3. MentionInv => MentionsFollowContent
  BY DEF MentionInv
<1> QED
  BY <1>1, <1>2, <1>3, MentionStep, PTL DEF Spec

LEMMA AtMostOne ==
    ASSUME NEW T, IsFiniteSet(T), Cardinality(T) <= 1
    PROVE  \A x, y \in T : x = y
<1> SUFFICES ASSUME NEW x \in T, NEW y \in T, x # y PROVE FALSE
  OBVIOUS
<1>1. IsFiniteSet({x}) /\ Cardinality({x}) = 1
  BY FS_Singleton
<1>2. Cardinality({x} \cup {y}) = 2
  BY <1>1, FS_AddElement
<1>3. Cardinality({x} \cup {y}) <= Cardinality(T) /\ Cardinality(T) \in Nat
  BY FS_Subset, FS_CardinalityType
<1> QED
  BY <1>2, <1>3

-----------------------------------------------------------------------------
\* Exports

\* A checksum is that of a text the server had.
Recorded == \A r \in Requests : ecall[r].sum \in (0..Saves) \cup {NoFile}

ExportsInv == X!TypeOK /\ Recorded /\ X!EditsAreSpared

\* What a text becomes in the file is no text that a document can have, if it has a
\* carriage return, and the text itself otherwise.
LEMMA WrittenIs ==
    ASSUME NEW t \in 0..Saves
    PROVE  /\ X!Written(t) \in 0..(2 * Saves + 1)
           /\ t \in Returns => X!Written(t) \notin 0..Saves
           /\ t \notin Returns => X!Written(t) = t
BY SavesAssumption DEF X!Written

LEMMA ExportsInit == X!Init => ExportsInv
<1> SUFFICES ASSUME X!Init PROVE ExportsInv
  OBVIOUS
<1>1. X!Idle.at = "idle" /\ X!Idle.sum = NoFile
  BY DEF X!Idle
<1>2. 0 \in 0..Saves
  BY SavesAssumption
<1>3. X!Idle \in X!Call
  BY <1>2 DEF X!Idle, X!Call, X!Files
<1> QED
  BY <1>1, <1>2, <1>3 DEF X!Init, ExportsInv, X!TypeOK, X!Files, Recorded, X!EditsAreSpared

\* A request that goes on.
LEMMA ExportGoes ==
    ASSUME ExportsInv, NEW r \in Requests, NEW c \in X!Call, X!Goto(r, c),
           c.sum \in (0..Saves) \cup {NoFile},
           c.at = "writing" /\ c.found \in Texts => c.sum = NoFile,
           text' \in 0..Saves, disk' \in X!Files, sum' \in (0..Saves) \cup {NoFile}
    PROVE  ExportsInv'
<1>1. ecall \in [Requests -> X!Call] /\ ecall' = [ecall EXCEPT ![r] = c]
  BY DEF ExportsInv, X!TypeOK, X!Goto
<1>2. /\ ecall' \in [Requests -> X!Call] /\ ecall'[r] = c
      /\ \A q \in Requests \ {r} : ecall'[q] = ecall[q]
  BY <1>1
<1> QED
  BY <1>2 DEF ExportsInv, X!TypeOK, Recorded, X!EditsAreSpared

LEMMA ExportStays ==
    ASSUME ExportsInv, ecall' = ecall,
           text' \in 0..Saves, disk' \in X!Files, sum' \in (0..Saves) \cup {NoFile}
    PROVE  ExportsInv'
BY DEF ExportsInv, X!TypeOK, Recorded, X!EditsAreSpared

LEMMA ExportsStep == ExportsInv /\ [X!Next]_(X!vars) => ExportsInv'
<1> SUFFICES ASSUME ExportsInv, [X!Next]_(X!vars) PROVE ExportsInv'
  OBVIOUS
<1>0. /\ text \in 0..Saves /\ disk \in X!Files /\ sum \in (0..Saves) \cup {NoFile}
      /\ ecall \in [Requests -> X!Call] /\ Recorded
      /\ (0..Saves) \cup Texts \cup {NoFile} \subseteq X!Files
      /\ 0..(2 * Saves + 1) \subseteq X!Files
  BY SavesAssumption DEF ExportsInv, X!TypeOK, X!Files
<1>i. X!Idle \in X!Call /\ X!Idle.at = "idle" /\ X!Idle.sum = NoFile
  BY SavesAssumption DEF X!Idle, X!Call, X!Files
<1>1. ASSUME NEW r \in Requests, X!Read(r) PROVE ExportsInv'
  <2> DEFINE c == [X!Idle EXCEPT !.at = "read", !.text = text, !.sum = sum]
  <2>1. c \in X!Call /\ c.at = "read" /\ c.sum = sum
    BY <1>0, <1>i DEF X!Idle, X!Call
  <2>2. X!Goto(r, c) /\ UNCHANGED <<text, disk, sum>>
    BY <1>1 DEF X!Read
  <2> HIDE DEF c
  <2> QED
    BY <1>0, <2>1, <2>2, ExportGoes
<1>2. ASSUME NEW r \in Requests, X!Lock(r) PROVE ExportsInv'
  <2> DEFINE c == [ecall[r] EXCEPT !.at = "locked"]
  <2>1. c \in X!Call /\ c.at = "locked" /\ c.sum = ecall[r].sum
    BY <1>0 DEF X!Call
  <2>2. X!Goto(r, c) /\ UNCHANGED <<text, disk, sum>>
    BY <1>2 DEF X!Lock
  <2> HIDE DEF c
  <2> QED
    BY <1>0, <2>1, <2>2, ExportGoes DEF Recorded
<1>3. ASSUME NEW r \in Requests, X!Look(r) PROVE ExportsInv'
  <2>1. /\ UNCHANGED <<text, disk, sum>> /\ ecall[r] \in X!Call
        /\ ecall[r].sum \in (0..Saves) \cup {NoFile}
    BY <1>0, <1>3 DEF X!Look, Recorded
  <2>2. CASE X!Goto(r, X!Idle)
    BY <1>0, <1>i, <2>1, <2>2, ExportGoes
  <2>3. CASE ~X!Goto(r, X!Idle)
    <3> DEFINE a == IF disk = ecall[r].text THEN "saving" ELSE "writing"
               c == [ecall[r] EXCEPT !.at = a, !.found = disk]
    <3>1. X!Goto(r, c) /\ ~X!Drifted(ecall[r])
      BY <1>3, <2>3 DEF X!Look
    <3>2. c \in X!Call /\ c.sum = ecall[r].sum /\ c.found = disk
      BY <1>0, <2>1 DEF X!Call
    <3>3. disk \in Texts => c.sum = NoFile
      BY <2>1, <3>1, <3>2, ExportsAssumption, SavesAssumption DEF X!Drifted
    <3> HIDE DEF c
    <3> QED
      BY <1>0, <2>1, <3>1, <3>2, <3>3, ExportGoes
  <2> QED
    BY <2>2, <2>3
<1>4. ASSUME NEW r \in Requests, X!Write(r) PROVE ExportsInv'
  <2> DEFINE c == [ecall[r] EXCEPT !.at = "saving"]
  <2>1. c \in X!Call /\ c.at = "saving" /\ c.sum = ecall[r].sum /\ ecall[r].text \in 0..Saves
    BY <1>0 DEF X!Call
  <2>2. X!Goto(r, c) /\ disk' = X!Written(ecall[r].text) /\ UNCHANGED <<text, sum>>
    BY <1>4 DEF X!Write
  <2>3. disk' \in X!Files
    BY <1>0, <2>1, <2>2, WrittenIs
  <2> HIDE DEF c
  <2> QED
    BY <1>0, <2>1, <2>2, <2>3, ExportGoes DEF Recorded
<1>5. ASSUME NEW r \in Requests, X!Save(r) PROVE ExportsInv'
  <2>1. ecall[r].text \in 0..Saves
    BY <1>0 DEF X!Call
  <2>2. X!Goto(r, X!Idle) /\ sum' \in (0..Saves) \cup {NoFile} /\ UNCHANGED <<text, disk>>
    BY <1>0, <1>5, <2>1 DEF X!Save
  <2> QED
    BY <1>0, <1>i, <2>2, ExportGoes
<1>6. ASSUME NEW r \in Requests, X!Abort(r) PROVE ExportsInv'
  BY <1>0, <1>i, <1>6, ExportGoes DEF X!Abort
<1>7. CASE X!SaveContent
  BY <1>0, <1>7, SavesAssumption, ExportStays DEF X!SaveContent
<1>8. CASE X!EditFile
  BY <1>0, <1>8, ExportStays DEF X!EditFile
<1>9. CASE UNCHANGED X!vars
  BY <1>0, <1>9, ExportStays DEF X!vars
<1> QED
  BY <1>1, <1>2, <1>3, <1>4, <1>5, <1>6, <1>7, <1>8, <1>9 DEF X!Next, X!Work

-----------------------------------------------------------------------------
\* Exports one at a time

OneExports == \A r, q \in Requests : ecall[r] # X!Idle /\ ecall[q] # X!Idle => r = q

\* The checksum of the row is that of the text written into the file, if Planarus
\* wrote it, but between the write and the save of an export.
SumIsKnown ==
    \/ /\ \A r \in Requests : ecall[r].at # "saving"
       /\ disk \in Nat => sum \in 0..Saves /\ disk = X!Written(sum)
    \/ \E r \in Requests :
          ecall[r].at = "saving" /\ (disk \in Nat => disk = X!Written(ecall[r].text))

\* What an export has read of the row is still so.
SumIsRead == \A r \in Requests : ecall[r] # X!Idle => ecall[r].sum = sum

ExportsSerial == OneExports /\ SumIsRead /\ SumIsKnown

LEMMA ExportsSerialInit == X!Init => ExportsSerial
BY ExportsAssumption DEF X!Init, ExportsSerial, OneExports, SumIsRead, SumIsKnown

\* Where one request goes on, all are idle but it.
LEMMA SerialExportGoes ==
    ASSUME ExportsInv, ExportsSerial, NEW r \in Requests, NEW c \in X!Call, X!Goto(r, c),
           OneExports', c # X!Idle => c.sum = sum', c # X!Idle \/ ecall[r] # X!Idle
    PROVE  /\ ecall'[r] = c /\ SumIsRead'
           /\ \A q \in Requests \ {r} : ecall'[q] = X!Idle /\ ecall[q] = X!Idle
<1>1. ecall \in [Requests -> X!Call] /\ ecall' = [ecall EXCEPT ![r] = c]
  BY DEF ExportsInv, X!TypeOK, X!Goto
<1>2. ecall'[r] = c /\ \A q \in Requests \ {r} : ecall'[q] = ecall[q]
  BY <1>1
<1>3. \A q \in Requests \ {r} : ecall[q] = X!Idle
  BY <1>2 DEF ExportsSerial, OneExports
<1> QED
  BY <1>2, <1>3 DEF SumIsRead

LEMMA ExportsSerialStep ==
    ASSUME ExportsInv, ExportsSerial, OneExports', serial, ExportsNext
    PROVE  ExportsSerial'
<1>0. /\ text \in 0..Saves /\ disk \in X!Files /\ sum \in (0..Saves) \cup {NoFile}
      /\ ecall \in [Requests -> X!Call] /\ Recorded
      /\ (0..Saves) \cup Texts \cup {NoFile} \subseteq X!Files
  BY SavesAssumption DEF ExportsInv, X!TypeOK, X!Files
<1>i. X!Idle \in X!Call /\ X!Idle.at = "idle"
  BY SavesAssumption DEF X!Idle, X!Call, X!Files
<1>a. SUFFICES SumIsRead' /\ SumIsKnown'
  BY DEF ExportsSerial
<1>1. ASSUME NEW r \in Requests, X!Read(r) PROVE SumIsRead' /\ SumIsKnown'
  <2> DEFINE c == [X!Idle EXCEPT !.at = "read", !.text = text, !.sum = sum]
  <2>1. c \in X!Call /\ c.at = "read" /\ c.sum = sum
    BY <1>0, <1>i DEF X!Idle, X!Call
  <2>2. X!Goto(r, c) /\ ecall[r] = X!Idle /\ UNCHANGED <<text, disk, sum>>
    BY <1>1 DEF X!Read
  <2> HIDE DEF c
  <2>3. /\ ecall'[r] = c /\ SumIsRead'
        /\ \A q \in Requests \ {r} : ecall'[q] = X!Idle /\ ecall[q] = X!Idle
    BY <1>i, <2>1, <2>2, SerialExportGoes
  <2>4. \A q \in Requests : ecall[q].at # "saving" /\ ecall'[q].at # "saving"
    BY <1>i, <2>1, <2>2, <2>3
  <2> QED
    BY <2>2, <2>3, <2>4 DEF ExportsSerial, SumIsKnown
<1>2. ASSUME NEW r \in Requests, X!Lock(r) PROVE SumIsRead' /\ SumIsKnown'
  <2> DEFINE c == [ecall[r] EXCEPT !.at = "locked"]
  <2>1. c \in X!Call /\ c.at = "locked" /\ c.sum = ecall[r].sum
    BY <1>0 DEF X!Call
  <2>2. X!Goto(r, c) /\ ecall[r].at = "read" /\ UNCHANGED <<text, disk, sum>>
    BY <1>2 DEF X!Lock
  <2> HIDE DEF c
  <2>3. /\ ecall'[r] = c /\ SumIsRead'
        /\ \A q \in Requests \ {r} : ecall'[q] = X!Idle /\ ecall[q] = X!Idle
    BY <1>i, <2>1, <2>2, SerialExportGoes DEF ExportsSerial, SumIsRead
  <2>4. \A q \in Requests : ecall[q].at # "saving" /\ ecall'[q].at # "saving"
    BY <1>i, <2>1, <2>2, <2>3
  <2> QED
    BY <2>2, <2>3, <2>4 DEF ExportsSerial, SumIsKnown
<1>3. ASSUME NEW r \in Requests, X!Look(r) PROVE SumIsRead' /\ SumIsKnown'
  <2>1. UNCHANGED <<text, disk, sum>> /\ ecall[r] \in X!Call /\ ecall[r].at = "locked"
    BY <1>0, <1>3 DEF X!Look
  <2>2. CASE X!Goto(r, X!Idle)
    <3>1. /\ ecall'[r] = X!Idle /\ SumIsRead'
          /\ \A q \in Requests \ {r} : ecall'[q] = X!Idle /\ ecall[q] = X!Idle
      BY <1>i, <2>1, <2>2, SerialExportGoes
    <3>2. \A q \in Requests : ecall[q].at # "saving" /\ ecall'[q].at # "saving"
      BY <1>i, <2>1, <3>1
    <3> QED
      BY <2>1, <3>1, <3>2 DEF ExportsSerial, SumIsKnown
  <2>3. CASE ~X!Goto(r, X!Idle)
    <3> DEFINE a == IF disk = ecall[r].text THEN "saving" ELSE "writing"
               c == [ecall[r] EXCEPT !.at = a, !.found = disk]
    <3>1. X!Goto(r, c)
      BY <1>3, <2>3 DEF X!Look
    <3>2. c \in X!Call /\ c.sum = ecall[r].sum /\ c.at = a /\ c.text = ecall[r].text
      BY <1>0, <2>1 DEF X!Call
    <3> HIDE DEF c
    <3>3. /\ ecall'[r] = c /\ SumIsRead'
          /\ \A q \in Requests \ {r} : ecall'[q] = X!Idle /\ ecall[q] = X!Idle
      BY <1>i, <2>1, <3>1, <3>2, SerialExportGoes DEF ExportsSerial, SumIsRead
    <3>4. CASE disk = ecall[r].text
      <4>1. \A q \in Requests : ecall[q].at # "saving"
        BY <1>i, <2>1, <3>3
      <4>2. disk \in 0..Saves /\ disk \in Nat
        BY <2>1, <3>4, SavesAssumption DEF X!Call
      <4>3. sum \in 0..Saves /\ disk = X!Written(sum)
        BY <4>1, <4>2 DEF ExportsSerial, SumIsKnown
      <4>4. disk = X!Written(disk)
        BY <4>2, <4>3, WrittenIs
      <4> QED
        BY <2>1, <3>2, <3>3, <3>4, <4>4 DEF SumIsKnown
    <3>5. CASE disk # ecall[r].text
      <4>1. \A q \in Requests : ecall[q].at # "saving" /\ ecall'[q].at # "saving"
        BY <1>i, <2>1, <3>2, <3>3, <3>5
      <4> QED
        BY <2>1, <3>3, <4>1 DEF ExportsSerial, SumIsKnown
    <3> QED
      BY <3>4, <3>5
  <2> QED
    BY <2>2, <2>3
<1>4. ASSUME NEW r \in Requests, X!Write(r) PROVE SumIsRead' /\ SumIsKnown'
  <2> DEFINE c == [ecall[r] EXCEPT !.at = "saving"]
  <2>1. /\ c \in X!Call /\ c.at = "saving" /\ c.sum = ecall[r].sum /\ c.text = ecall[r].text
    BY <1>0 DEF X!Call
  <2>2. /\ X!Goto(r, c) /\ ecall[r].at = "writing" /\ UNCHANGED <<text, sum>>
        /\ disk' = X!Written(ecall[r].text)
    BY <1>4 DEF X!Write
  <2> HIDE DEF c
  <2>3. ecall'[r] = c /\ SumIsRead'
    BY <1>i, <2>1, <2>2, SerialExportGoes DEF ExportsSerial, SumIsRead
  <2> QED
    BY <2>1, <2>2, <2>3 DEF SumIsKnown
<1>5. ASSUME NEW r \in Requests, X!Save(r) PROVE SumIsRead' /\ SumIsKnown'
  <2>1. /\ ecall[r].at = "saving" /\ X!Goto(r, X!Idle) /\ UNCHANGED <<text, disk>>
        /\ sum' = IF ecall[r].text # ecall[r].sum THEN ecall[r].text ELSE sum
    BY <1>5 DEF X!Save
  <2>2. ecall[r].sum = sum
    BY <1>i, <2>1 DEF ExportsSerial, SumIsRead
  <2>3. sum' = ecall[r].text
    BY <2>1, <2>2
  <2>4. /\ ecall'[r] = X!Idle /\ SumIsRead'
        /\ \A q \in Requests \ {r} : ecall'[q] = X!Idle /\ ecall[q] = X!Idle
    BY <1>i, <2>1, SerialExportGoes
  <2>5. ecall[r].text \in 0..Saves /\ (disk \in Nat => disk = X!Written(ecall[r].text))
    BY <1>0, <1>i, <2>1, <2>4 DEF ExportsSerial, SumIsKnown, X!Call
  <2>6. \A q \in Requests : ecall'[q].at # "saving"
    BY <1>i, <2>4
  <2> QED
    BY <2>1, <2>3, <2>4, <2>5, <2>6 DEF SumIsKnown
<1>6. CASE X!SaveContent
  BY <1>6 DEF X!SaveContent, ExportsSerial, SumIsRead, SumIsKnown
<1>7. CASE X!EditFile
  <2>1. disk' \notin Nat /\ UNCHANGED <<text, sum, ecall>>
    BY <1>7, ExportsAssumption DEF X!EditFile
  <2> QED
    BY <2>1 DEF ExportsSerial, SumIsRead, SumIsKnown
<1> QED
  BY <1>1, <1>2, <1>3, <1>4, <1>5, <1>6, <1>7 DEF ExportsNext, X!Work

ExportsRun == part = "exports" => ExportsInv /\ (serial => ExportsSerial)

editingVars == <<part, serial, vars, exportVars, presenceVars, editorVars>>

\* What EditingNext leaves to the exports.
LEMMA ExportsAlone ==
    [EditingNext]_editingVars =>
        /\ part' = part /\ serial' = (IF part = "documents" THEN serial' ELSE serial)
        /\ part = "exports" => ExportsNext \/ UNCHANGED exportVars
BY DEF EditingNext, editingVars

LEMMA ExportsRunStep == ExportsRun /\ [EditingNext]_editingVars => ExportsRun'
<1> SUFFICES ASSUME ExportsRun, [EditingNext]_editingVars, part = "exports"
             PROVE  ExportsInv' /\ (serial' => ExportsSerial')
  BY ExportsAlone DEF ExportsRun
<1>1. serial' = serial
  BY ExportsAlone
<1>2. CASE ExportsNext
  <2>1. X!Next
    BY <1>2 DEF ExportsNext, X!Next
  <2>2. ExportsInv'
    BY <2>1, ExportsStep DEF ExportsRun
  <2>3. ASSUME serial PROVE ExportsSerial'
    <3> DEFINE Busy == {r \in Requests : ecall'[r] # X!Idle}
    <3>1. IsFiniteSet(Busy) /\ Cardinality(Busy) <= 1
      BY <1>2, <2>3, RequestsAssumption, FS_Subset DEF ExportsNext
    <3>2. \A r, q \in Busy : r = q
      BY <3>1, AtMostOne
    <3>3. OneExports'
      BY <3>2 DEF OneExports
    <3> QED
      BY <1>2, <2>3, <3>3, ExportsSerialStep DEF ExportsRun
  <2> QED
    BY <1>1, <2>2, <2>3
<1>3. CASE UNCHANGED exportVars
  <2>1. UNCHANGED X!vars
    BY <1>3 DEF exportVars, X!vars
  <2>2. ExportsInv'
    BY <2>1, ExportsStep DEF ExportsRun
  <2>3. ExportsSerial => ExportsSerial'
    BY <1>3 DEF exportVars, ExportsSerial, OneExports, SumIsRead, SumIsKnown
  <2> QED
    BY <1>1, <2>2, <2>3 DEF ExportsRun
<1> QED
  BY <1>2, <1>3, ExportsAlone

\* However exports overlap and die: what people wrote into the file is only written
\* over by the first export, or where it was gone again; and one export at a time, a
\* text in the file that Planarus wrote is the one the checksum stands for
\* (export_doc_markdown).
THEOREM ExportsOfEditing == EditingSpec => []ExportsAreTrue
<1>1. EditingInit => ExportsRun
  BY ExportsInit, ExportsSerialInit DEF EditingInit, ExportsRun
<1>2. ExportsRun => ExportsAreTrue
  <2>1. X!Idle.at = "idle"
    BY DEF X!Idle
  <2> QED
    BY <2>1 DEF ExportsRun, ExportsAreTrue, ExportsInv, ExportsSerial, SumIsKnown, X!OwnTextIsKnown
<1> QED
  BY <1>1, <1>2, ExportsRunStep, PTL DEF EditingSpec, editingVars

-----------------------------------------------------------------------------
\* The tree: one request at a time

\* A set of documents that, but for d, holds the parents of its documents.
Upward(D, d) == \A x \in D \ {d} : Parents[x] \in D

\* A walk that is somewhere has been led there from the new parent; one that is over
\* has met a root: no document above the new parent leads back to the document.
WalkLeads(c) == \A D \in SUBSET Docs : Upward(D, c.doc) /\ c.to \in D => c.next \in D
WalkEnded(c) == \A D \in SUBSET Docs : ~(Upward(D, c.doc) /\ c.to \in D)

Walks(c) ==
    /\ c.at = "climbing" => c.doc \in c.seen /\ WalkLeads(c)
    /\ c.at = "saving" /\ c.field = "parent" /\ c.to # NoDoc => WalkEnded(c)

\* The children that a deletion has read are the children.
KnowsChildren(c) == c.at = "deleting" => c.doc \in Live /\ c.kids = Children(c.doc)

CallHolds(c) == Walks(c) /\ KnowsChildren(c)

Busy(r) == call[r].at \notin {"idle", "editing"}
OneBusy == \A r, s \in Requests : Busy(r) /\ Busy(s) => r = s

\* Nothing has a parent that is still to come.
ParentsExist == \A d \in Docs : doc[d].parent # NoDoc => doc[doc[d].parent].state # "new"

TreeInv == TypeOK /\ ParentsExist
SerialTree ==
    /\ ParentsExist /\ NoParentCycle /\ OneBusy
    /\ \A r \in Requests : CallHolds(call[r])

LEMMA NoCycleIs ==
    NoParentCycle <=> \A D \in SUBSET Docs : (\A d \in D : Parents[d] \in D) => D = {}
BY DEF NoParentCycle, Rootless

LEMMA NoCycleIsNext ==
    NoParentCycle' <=> \A D \in SUBSET Docs : (\A d \in D : Parents'[d] \in D) => D = {}
BY DEF NoParentCycle, Rootless

LEMMA ParentIs ==
    ASSUME NEW d \in Docs
    PROVE  /\ Parents[d] = IF d \in Live THEN doc[d].parent ELSE NoDoc
           /\ Parents'[d] = IF d \in Live' THEN doc'[d].parent ELSE NoDoc
BY DEF Parents

\* Links that are cut make no cycle.
LEMMA CutTree ==
    ASSUME NoParentCycle, \A d \in Docs : Parents'[d] \in {Parents[d], NoDoc}
    PROVE  NoParentCycle'
<1> SUFFICES ASSUME NEW D \in SUBSET Docs, \A d \in D : Parents'[d] \in D PROVE D = {}
  BY NoCycleIsNext
<1>1. \A d \in D : Parents[d] \in D
  BY DocsAssumption
<1> QED
  BY <1>1, NoCycleIs

\* A document that comes to life is above nothing.
LEMMA NewLeaf ==
    ASSUME NoParentCycle, NEW e \in Docs, Parents'[e] # e,
           \A d \in Docs \ {e} : Parents'[d] = Parents[d] /\ Parents[d] # e
    PROVE  NoParentCycle'
<1> SUFFICES ASSUME NEW D \in SUBSET Docs, \A d \in D : Parents'[d] \in D PROVE D = {}
  BY NoCycleIsNext
<1>1. \A d \in D \ {e} : Parents[d] \in D \ {e}
  OBVIOUS
<1>2. D \ {e} = {}
  BY <1>1, NoCycleIs
<1>3. e \notin D
  BY <1>2
<1> QED
  BY <1>2, <1>3

\* A document is moved below one that no way up leads back from.
LEMMA MovedTree ==
    ASSUME NoParentCycle, NEW e \in Docs, NEW p, Parents'[e] = p,
           \A d \in Docs \ {e} : Parents'[d] = Parents[d],
           \A D \in SUBSET Docs : ~(Upward(D, e) /\ p \in D)
    PROVE  NoParentCycle'
<1> SUFFICES ASSUME NEW D \in SUBSET Docs, \A d \in D : Parents'[d] \in D PROVE D = {}
  BY NoCycleIsNext
<1>1. CASE e \in D
  BY <1>1 DEF Upward
<1>2. CASE e \notin D
  BY <1>2, NoCycleIs
<1> QED
  BY <1>1, <1>2

-----------------------------------------------------------------------------
\* What the steps do to the tree

LEMMA RowParents ==
    ASSUME NEW x \in Doc, NEW v, NEW text_, NEW p
    PROVE  /\ Promoted(x).parent = NoDoc /\ Promoted(x).state = x.state
           /\ Deleted(x).parent = x.parent /\ Deleted(x).state = "deleted"
           /\ Moved(x, v, p).parent = p /\ Moved(x, v, p).state = x.state
           /\ Rewritten(x, v, text_).parent = x.parent /\ Rewritten(x, v, text_).state = x.state
BY DEF Promoted, Deleted, Moved, Rewritten, Doc

\* A step writes the tree or leaves it.
SameTree ==
    /\ \A d \in Docs : doc'[d].parent = doc[d].parent /\ doc'[d].state = doc[d].state

LEMMA SameTreeIs ==
    ASSUME TreeInv, SameTree
    PROVE  /\ Live' = Live /\ Parents' = Parents
           /\ NoParentCycle => NoParentCycle'
           /\ ParentsExist'
           /\ \A d : Children(d)' = Children(d)
<1>1. Live' = Live
  BY DEF SameTree, Live
<1>2. Parents' = Parents
  <2>1. \A d \in Docs : (IF d \in Live' THEN doc'[d].parent ELSE NoDoc)
                      = (IF d \in Live THEN doc[d].parent ELSE NoDoc)
    BY <1>1 DEF SameTree
  <2> QED
    BY <2>1, Zenon DEF Parents
<1>3. \A d : Children(d)' = Children(d)
  BY <1>1 DEF SameTree, Children, Live
<1>4. ParentsExist'
  <2>1. \A d \in Docs : doc[d].parent \in Docs \cup {NoDoc}
    BY DEF TreeInv, TypeOK, Doc
  <2> QED
    BY <2>1 DEF TreeInv, SameTree, ParentsExist
<1> QED
  BY <1>1, <1>2, <1>3, <1>4, NoCycleIs, NoCycleIsNext

LEMMA InsertTree ==
    ASSUME TreeInv, TypeOK', NEW r \in Requests, NEW e \in Docs, CreateInsert(r, e)
    PROVE  ParentsExist' /\ (NoParentCycle => NoParentCycle')
<1>0. doc \in [Docs -> Doc] /\ call \in [Requests -> Call] /\ doc[e].state = "new"
  BY DEF TreeInv, TypeOK, CreateInsert
<1>1. CASE ~Possible(call[r].to)
  BY <1>1, SameTreeIs DEF CreateInsert, SameTree, TreeInv
<1>2. CASE Possible(call[r].to)
  <2> DEFINE x == [state |-> "live", version |-> 1, content |-> {}, parent |-> call[r].to]
  <2>1. doc' = [doc EXCEPT ![e] = x]
    BY <1>2 DEF CreateInsert
  <2>2. /\ doc'[e] = x /\ x.state = "live" /\ x.parent = call[r].to
        /\ \A d \in Docs \ {e} : doc'[d] = doc[d]
    BY <1>0, <2>1
  <2> HIDE DEF x
  <2>3. Live' = Live \cup {e} /\ e \notin Live
    BY <1>0, <2>2 DEF Live
  <2>4. call[r].to # e
    BY <1>2, <2>3, DocsAssumption DEF Possible
  <2>5. ParentsExist'
    <3> SUFFICES ASSUME NEW d \in Docs, doc'[d].parent # NoDoc
                 PROVE  doc'[doc'[d].parent].state # "new"
      BY DEF ParentsExist
    <3>1. CASE d = e
      BY <1>2, <2>2, <2>4, <3>1 DEF Possible, Live
    <3>2. CASE d # e
      <4>1. doc[d].parent \in Docs /\ doc[doc[d].parent].state # "new"
        BY <1>0, <2>2, <3>2 DEF TreeInv, ParentsExist, Doc
      <4> QED
        BY <1>0, <2>2, <3>2, <4>1
    <3> QED
      BY <3>1, <3>2
  <2>6. Parents'[e] # e
    BY <2>2, <2>4, ParentIs, DocsAssumption
  <2>7. ASSUME NEW d \in Docs \ {e} PROVE Parents'[d] = Parents[d] /\ Parents[d] # e
    <3>1. Parents'[d] = Parents[d]
      BY <2>2, <2>3, ParentIs
    <3>2. doc[d].parent # e
      BY <1>0, DocsAssumption DEF TreeInv, ParentsExist
    <3> QED
      BY <3>1, <3>2, ParentIs, DocsAssumption
  <2> QED
    BY <2>5, <2>6, <2>7, NewLeaf
<1> QED
  BY <1>1, <1>2

LEMMA StoreTree ==
    ASSUME TreeInv, NEW r \in Requests, Store(r), call[r].doc \in Docs
    PROVE  /\ ParentsExist'
           /\ NoParentCycle /\ Walks(call[r]) => NoParentCycle'
<1>0. doc \in [Docs -> Doc] /\ call \in [Requests -> Call] /\ call[r] \in Call
  BY DEF TreeInv, TypeOK
<1>1. PICK e \in Docs : e = call[r].doc
  OBVIOUS
<1>a. doc[e] \in Doc
  BY <1>0
<1>2. CASE UNCHANGED doc
  BY <1>2, SameTreeIs DEF SameTree, TreeInv
<1>3. CASE Storable(call[r]) /\ call[r].field = "content" /\ ~UNCHANGED doc
  <2>1. doc' = [doc EXCEPT ![e] = Rewritten(doc[e], call[r].ver + 1, call[r].text)]
    BY <1>1, <1>3 DEF Store
  <2>2. SameTree
    BY <1>0, <1>a, <2>1, RowParents DEF SameTree
  <2> QED
    BY <2>2, SameTreeIs DEF TreeInv
<1>4. CASE Storable(call[r]) /\ call[r].field = "parent" /\ ~UNCHANGED doc
  <2> DEFINE p == call[r].to
  <2>1. doc' = [doc EXCEPT ![e] = Moved(doc[e], call[r].ver + 1, p)]
    BY <1>1, <1>4 DEF Store
  <2>2. /\ doc'[e].parent = p /\ doc'[e].state = doc[e].state
        /\ \A d \in Docs \ {e} : doc'[d] = doc[d]
    BY <1>0, <1>a, <2>1, RowParents
  <2>3. Live' = Live /\ e \in Live /\ Possible(p)
    BY <1>1, <1>4, <2>2 DEF Live, Storable
  <2>4. ParentsExist'
    <3> SUFFICES ASSUME NEW d \in Docs, doc'[d].parent # NoDoc
                 PROVE  doc'[doc'[d].parent].state # "new"
      BY DEF ParentsExist
    <3>1. \A q \in Docs : doc'[q].state = doc[q].state
      BY <2>2
    <3>2. CASE d = e
      BY <2>2, <2>3, <3>1, <3>2 DEF Possible, Live
    <3>3. CASE d # e
      <4>1. doc[d].parent \in Docs /\ doc[doc[d].parent].state # "new"
        BY <1>0, <2>2, <3>3 DEF TreeInv, ParentsExist, Doc
      <4> QED
        BY <2>2, <3>1, <3>3, <4>1
    <3> QED
      BY <3>2, <3>3
  <2>5. Parents'[e] = p /\ \A d \in Docs \ {e} : Parents'[d] = Parents[d]
    BY <2>2, <2>3, ParentIs
  <2>6. ASSUME NoParentCycle, Walks(call[r]) PROVE NoParentCycle'
    <3>1. CASE p = NoDoc
      BY <2>5, <2>6, <3>1, CutTree
    <3>2. CASE p # NoDoc
      <4>1. \A D \in SUBSET Docs : ~(Upward(D, e) /\ p \in D)
        BY <1>1, <1>4, <2>6, <3>2 DEF Walks, WalkEnded, Store
      <4>2. PICK q : q = p
        OBVIOUS
      <4>3. Parents'[e] = q /\ \A D \in SUBSET Docs : ~(Upward(D, e) /\ q \in D)
        BY <2>5, <4>1, <4>2
      <4> HIDE DEF p
      <4> QED
        BY <2>5, <2>6, <4>3, MovedTree
    <3> QED
      BY <3>1, <3>2
  <2> QED
    BY <2>4, <2>6
<1> QED
  BY <1>0, <1>2, <1>3, <1>4 DEF Store, Call

\* Rows that stay or lose their parents, and rows that go.
LEMMA LooseTree ==
    ASSUME TreeInv,
           \A d \in Docs : /\ doc'[d].parent \in {doc[d].parent, NoDoc}
                           /\ \/ doc'[d].state = doc[d].state
                              \/ doc[d].state = "live" /\ doc'[d].state = "deleted"
    PROVE  ParentsExist' /\ (NoParentCycle => NoParentCycle')
<1>0. doc \in [Docs -> Doc]
  BY DEF TreeInv, TypeOK
<1>1. ParentsExist'
  <2> SUFFICES ASSUME NEW d \in Docs, doc'[d].parent # NoDoc
               PROVE  doc'[doc'[d].parent].state # "new"
    BY DEF ParentsExist
  <2>1. doc[d].parent \in Docs /\ doc[doc[d].parent].state # "new" /\ doc'[d].parent = doc[d].parent
    BY <1>0 DEF TreeInv, ParentsExist, Doc
  <2> QED
    BY <2>1
<1>2. Live' \subseteq Live
  BY DEF Live
<1>3. \A d \in Docs : Parents'[d] \in {Parents[d], NoDoc}
  BY <1>2, ParentIs
<1> QED
  BY <1>1, <1>3, CutTree

LEMMA DeleteTree ==
    ASSUME TreeInv, NEW r \in Requests, DeleteCommit(r), call[r].doc \in Live
    PROVE  ParentsExist' /\ (NoParentCycle => NoParentCycle')
<1>0. doc \in [Docs -> Doc]
  BY DEF TreeInv, TypeOK
<1>1. CASE UNCHANGED doc
  BY <1>1, SameTreeIs DEF SameTree, TreeInv
<1>2. CASE ~UNCHANGED doc
  <2>1. doc' = [d \in Docs |-> IF d = call[r].doc THEN Deleted(doc[d])
                               ELSE IF d \in call[r].kids THEN Promoted(doc[d]) ELSE doc[d]]
    BY <1>2 DEF DeleteCommit
  <2>2. ASSUME NEW d \in Docs
        PROVE  /\ doc'[d].parent \in {doc[d].parent, NoDoc}
               /\ \/ doc'[d].state = doc[d].state
                  \/ doc[d].state = "live" /\ doc'[d].state = "deleted"
    <3>1. /\ doc[d] \in Doc
          /\ \/ doc'[d] = Deleted(doc[d]) /\ d = call[r].doc
             \/ doc'[d] \in {Promoted(doc[d]), doc[d]}
      BY <1>0, <2>1
    <3>2. CASE doc'[d] = Deleted(doc[d]) /\ d = call[r].doc
      BY <3>1, <3>2, RowParents DEF Live
    <3>3. CASE doc'[d] \in {Promoted(doc[d]), doc[d]}
      BY <3>1, <3>3, RowParents
    <3> QED
      BY <3>1, <3>2, <3>3
  <2> QED
    BY <2>2, LooseTree
<1> QED
  BY <1>1, <1>2

-----------------------------------------------------------------------------
\* What the requests know of the tree

LEMMA QuietHolds ==
    ASSUME NEW c, c.at \in {"idle", "editing", "creating"} PROVE CallHolds(c) /\ CallHolds(c)'
BY DEF CallHolds, Walks, KnowsChildren

\* Nothing that a request knows changes, if the tree does not.
LEMMA SameHolds ==
    ASSUME TreeInv, SameTree, NEW c, CallHolds(c) PROVE CallHolds(c)'
<1>1. Live' = Live /\ Parents' = Parents /\ \A d : Children(d)' = Children(d)
  BY SameTreeIs
<1>2. \A D : Upward(D, c.doc)' <=> Upward(D, c.doc)
  BY <1>1 DEF Upward
<1>3. Children(c.doc)' = Children(c.doc)
  BY <1>1
<1>4. (WalkLeads(c)' <=> WalkLeads(c)) /\ (WalkEnded(c)' <=> WalkEnded(c))
  BY <1>2 DEF WalkLeads, WalkEnded
<1> QED
  BY <1>1, <1>3, <1>4 DEF CallHolds, Walks, KnowsChildren

\* A way up that leads to a root, or to a row that is gone, leads nowhere else.
LEMMA WalkEnds ==
    ASSUME NEW c, NEW n \in Docs, n # c.doc, Parents[n] = NoDoc,
           \A D \in SUBSET Docs : Upward(D, c.doc) /\ c.to \in D => n \in D
    PROVE  WalkEnded(c)
BY DocsAssumption DEF WalkEnded, Upward

\* A round of the walk (validate_parent).
LEMMA VisitHolds ==
    ASSUME TypeOK, NEW c \in Call, NEW n \in Live, c.doc \in c.seen,
           \A D \in SUBSET Docs : Upward(D, c.doc) /\ c.to \in D => n \in D
    PROVE  CallHolds(Visit(c, n))
<1>1. n \in Docs /\ Parents[n] = doc[n].parent
  BY ParentIs DEF Live
<1>2. Idle.at = "idle"
  BY DEF Idle
<1>3. CASE n \in c.seen
  BY <1>2, <1>3, QuietHolds DEF Visit
<1>4. CASE n \notin c.seen /\ doc[n].parent = NoDoc
  <2> DEFINE v == [c EXCEPT !.at = "saving"]
  <2>1. Visit(c, n) = v
    BY <1>4 DEF Visit
  <2>2. v.at = "saving" /\ v.doc = c.doc /\ v.to = c.to
    BY DEF Call
  <2> HIDE DEF v
  <2>3. WalkEnded(v)
    BY <1>1, <1>4, <2>2, WalkEnds
  <2> QED
    BY <2>1, <2>2, <2>3 DEF CallHolds, Walks, KnowsChildren
<1>5. CASE n \notin c.seen /\ doc[n].parent # NoDoc /\ Cardinality(c.seen) = MaxDepth
  BY <1>2, <1>5, QuietHolds DEF Visit
<1>6. CASE n \notin c.seen /\ doc[n].parent # NoDoc /\ Cardinality(c.seen) # MaxDepth
  <2> DEFINE v == [c EXCEPT !.at = "climbing", !.seen = @ \cup {n}, !.next = doc[n].parent]
  <2>1. Visit(c, n) = v
    BY <1>6 DEF Visit
  <2>2. v.at = "climbing" /\ v.doc = c.doc /\ v.to = c.to
    BY DEF Call
  <2>3. v.next = Parents[n] /\ v.seen = c.seen \cup {n}
    BY <1>1 DEF Call
  <2> HIDE DEF v
  <2>4. WalkLeads(v)
    BY <1>1, <1>6, <2>2, <2>3 DEF WalkLeads, Upward
  <2> QED
    BY <2>1, <2>2, <2>3, <2>4 DEF CallHolds, Walks, KnowsChildren
<1> QED
  BY <1>3, <1>4, <1>5, <1>6

LEMMA SaveParentHolds ==
    ASSUME TypeOK, NEW r \in Requests, NEW p \in Docs \cup {NoDoc}, SaveParent(r, p)
    PROVE  CallHolds(call'[r])
<1>1. call \in [Requests -> Call] /\ call[r] \in Call /\ call[r].doc \in Docs /\ p # call[r].doc
  BY DEF TypeOK, SaveParent, Current, Live
<1> DEFINE c == [call[r] EXCEPT !.field = "parent", !.to = p, !.seen = {call[r].doc}]
<1>2. c \in Call /\ c.doc = call[r].doc /\ c.to = p /\ c.seen = {call[r].doc}
  BY <1>1 DEF Call
<1>3. \/ p = NoDoc /\ call' = [call EXCEPT ![r] = [c EXCEPT !.at = "saving"]]
      \/ p \in Live /\ call' = [call EXCEPT ![r] = Visit(c, p)]
  BY DEF SaveParent
<1> HIDE DEF c
<1>4. CASE p = NoDoc /\ call' = [call EXCEPT ![r] = [c EXCEPT !.at = "saving"]]
  <2>1. call'[r] = [c EXCEPT !.at = "saving"]
    BY <1>1, <1>4
  <2>2. call'[r].at = "saving" /\ call'[r].to = NoDoc
    BY <1>2, <1>4, <2>1 DEF Call
  <2> QED
    BY <2>2 DEF CallHolds, Walks, KnowsChildren
<1>5. CASE p \in Live /\ call' = [call EXCEPT ![r] = Visit(c, p)]
  <2>1. call'[r] = Visit(c, p)
    BY <1>1, <1>5
  <2>2. CallHolds(Visit(c, p))
    BY <1>2, <1>5, VisitHolds
  <2> QED
    BY <2>1, <2>2
<1> QED
  BY <1>3, <1>4, <1>5

LEMMA ClimbHolds ==
    ASSUME TypeOK, NEW r \in Requests, Climb(r), CallHolds(call[r])
    PROVE  CallHolds(call'[r])
<1>1. call \in [Requests -> Call] /\ call[r] \in Call
  BY DEF TypeOK
<1>2. PICK c \in Call : c = call[r]
  BY <1>1
<1>3. /\ c.at = "climbing" /\ c.doc \in c.seen
      /\ \A D \in SUBSET Docs : Upward(D, c.doc) /\ c.to \in D => c.next \in D
  BY <1>2 DEF Climb, CallHolds, Walks, WalkLeads
<1>4. CASE c.next \in Live \cup c.seen
  <2>1. call'[r] = Visit(c, c.next)
    BY <1>1, <1>2, <1>4 DEF Climb
  <2>2. CASE c.next \in c.seen
    BY <2>1, <2>2, QuietHolds DEF Visit, Idle
  <2>3. CASE c.next \in Live
    BY <1>3, <2>1, <2>3, VisitHolds
  <2> QED
    BY <1>4, <2>2, <2>3
<1>5. CASE c.next \notin Live \cup c.seen
  <2> DEFINE v == [c EXCEPT !.at = "saving"]
  <2>1. call'[r] = v
    BY <1>1, <1>2, <1>5 DEF Climb
  <2>2. v.at = "saving" /\ v.doc = c.doc /\ v.to = c.to
    BY DEF Call
  <2> HIDE DEF v
  <2>3. CASE c.next \in Docs
    <3>1. Parents[c.next] = NoDoc
      BY <1>5, <2>3, ParentIs
    <3>2. WalkEnded(v)
      BY <1>3, <1>5, <2>2, <2>3, <3>1, WalkEnds
    <3> QED
      BY <2>1, <2>2, <3>2 DEF CallHolds, Walks, KnowsChildren
  <2>4. CASE c.next \notin Docs
    <3>1. WalkEnded(v)
      BY <1>3, <2>2, <2>4 DEF WalkEnded
    <3> QED
      BY <2>1, <2>2, <3>1 DEF CallHolds, Walks, KnowsChildren
  <2> QED
    BY <2>3, <2>4
<1> QED
  BY <1>4, <1>5

-----------------------------------------------------------------------------
\* The steps of a serial server

\* What one request may do, as Next has it.
Turn(r) ==
    \/ Step(r)
    \/ \E d \in Docs : Open(r, d) \/ DeleteRead(r, d)
    \/ \E p \in Docs \cup {NoDoc} : CreateRead(r, p)

\* The turns that write documents.
Writes(r) == Store(r) \/ DeleteCommit(r) \/ \E d \in Docs : CreateInsert(r, d)

LEMMA NextIs == Next <=> \/ \E r \in Requests : Turn(r)
                         \/ \E d \in Docs, c \in Contents : AgentEdit(d, c)
                         \/ Repair
BY DEF Next, Turn

LEMMA TurnIs ==
    ASSUME TypeOK, NEW r \in Requests, Turn(r)
    PROVE  /\ \A q \in Requests \ {r} : call'[q] = call[q]
           /\ Writes(r) => call'[r] = Idle /\ Busy(r)
           /\ ~Writes(r) => doc' = doc
<1>1. call \in [Requests -> Call]
  BY DEF TypeOK
<1> USE DEF Turn, Writes, Step, Open, DeleteRead, CreateRead, CreateInsert, Climb, Store,
            DeleteCommit, Abort, SaveContent, SaveParent
<1>2. \A q \in Requests \ {r} : call'[q] = call[q]
  BY <1>1
<1>3. Writes(r) => call'[r] = Idle /\ Busy(r)
  BY <1>1 DEF Busy
<1>4. ~Writes(r) => doc' = doc
  OBVIOUS
<1> QED
  BY <1>2, <1>3, <1>4

LEMMA TurnHolds ==
    ASSUME TreeInv, NEW r \in Requests, Turn(r), ~Writes(r), CallHolds(call[r])
    PROVE  CallHolds(call'[r])
<1>1. TypeOK /\ call \in [Requests -> Call] /\ call[r] \in Call
  BY DEF TreeInv, TypeOK
<1>2. Idle.at = "idle"
  BY DEF Idle
<1>3. ASSUME NEW d \in Docs, Open(r, d) PROVE CallHolds(call'[r])
  <2>1. call'[r].at = "editing"
    BY <1>1, <1>3 DEF Open, Idle
  <2> QED
    BY <2>1 DEF CallHolds, Walks, KnowsChildren
<1>4. ASSUME NEW d \in Docs, DeleteRead(r, d) PROVE CallHolds(call'[r])
  <2>1. /\ call'[r].at = "deleting" /\ call'[r].doc = d /\ d \in Live
        /\ call'[r].kids = Children(d)
    BY <1>1, <1>4 DEF DeleteRead, Idle
  <2> QED
    BY <2>1 DEF CallHolds, Walks, KnowsChildren
<1>5. ASSUME NEW p \in Docs \cup {NoDoc}, CreateRead(r, p) PROVE CallHolds(call'[r])
  <2>1. call'[r].at = "creating"
    BY <1>1, <1>5 DEF CreateRead, Idle
  <2> QED
    BY <2>1 DEF CallHolds, Walks, KnowsChildren
<1>6. ASSUME NEW t \in Contents, SaveContent(r, t) PROVE CallHolds(call'[r])
  <2>1. call'[r].at = "saving" /\ call'[r].field = "content"
    BY <1>1, <1>6 DEF SaveContent, Call
  <2> QED
    BY <2>1 DEF CallHolds, Walks, KnowsChildren
<1>7. ASSUME Abort(r) PROVE CallHolds(call'[r])
  <2>1. call'[r].at = "idle"
    BY <1>1, <1>2, <1>7 DEF Abort
  <2> QED
    BY <2>1 DEF CallHolds, Walks, KnowsChildren
<1> QED
  BY <1>1, <1>3, <1>4, <1>5, <1>6, <1>7, SaveParentHolds, ClimbHolds DEF Turn, Step, Writes

\* A deletion makes roots of the children of its document, and of nothing else.
Promotes ==
    \A r \in Requests :
       call[r].at = "deleting" /\ call'[r] # call[r] /\ doc' # doc =>
          \A k \in Docs : doc'[k].parent =
             IF doc[k].parent = call[r].doc /\ k \in Live THEN NoDoc ELSE doc[k].parent

LEMMA DeletePromotes ==
    ASSUME TreeInv, SerialTree, NEW r \in Requests, DeleteCommit(r), doc' # doc, NEW k \in Docs
    PROVE  doc'[k].parent =
              IF doc[k].parent = call[r].doc /\ k \in Live THEN NoDoc ELSE doc[k].parent
<1>1. doc \in [Docs -> Doc] /\ doc[k] \in Doc
  BY DEF TreeInv, TypeOK
<1>2. PICK e \in Live : e = call[r].doc /\ call[r].kids = Children(e)
  BY DEF SerialTree, CallHolds, KnowsChildren, DeleteCommit
<1>3. doc' = [d \in Docs |-> IF d = e THEN Deleted(doc[d])
                             ELSE IF d \in Children(e) THEN Promoted(doc[d]) ELSE doc[d]]
  BY <1>2 DEF DeleteCommit
<1>4. CASE k = e
  <2>1. doc[k].parent # k
    <3> SUFFICES ASSUME doc[k].parent = k PROVE FALSE
      OBVIOUS
    <3>1. Parents[k] = k
      BY <1>2, <1>4, ParentIs
    <3>2. {k} \in SUBSET Docs /\ \A d \in {k} : Parents[d] \in {k}
      BY <3>1
    <3>3. {k} = {}
      BY <3>2, NoCycleIs DEF SerialTree
    <3> QED
      BY <3>3
  <2>2. doc'[k].parent = doc[k].parent
    BY <1>1, <1>3, <1>4, RowParents
  <2> QED
    BY <1>2, <1>4, <2>1, <2>2
<1>5. CASE k # e /\ k \in Children(e)
  <2>1. doc'[k].parent = NoDoc
    BY <1>1, <1>3, <1>5, RowParents
  <2> QED
    BY <1>2, <1>5, <2>1 DEF Children
<1>6. CASE k # e /\ k \notin Children(e)
  <2>1. doc'[k] = doc[k]
    BY <1>3, <1>6
  <2> QED
    BY <1>2, <1>6, <2>1 DEF Children
<1> QED
  BY <1>4, <1>5, <1>6

\* While one request writes, no other is on its way.
LEMMA WriteHolds ==
    ASSUME TypeOK, OneBusy, NEW r \in Requests, Turn(r), Writes(r)
    PROVE  \A q \in Requests : CallHolds(call[q])'
<1> TAKE q \in Requests
<1>1. call[q] \in Call /\ call'[r] = Idle /\ Busy(r) /\ (q # r => call'[q] = call[q])
  BY TurnIs DEF TypeOK
<1>2. q # r => call[q].at \in {"idle", "editing"}
  BY <1>1 DEF OneBusy, Busy
<1>3. call'[q].at \in {"idle", "editing"}
  BY <1>1, <1>2 DEF Idle
<1> QED
  BY <1>3 DEF CallHolds, Walks, KnowsChildren

LEMMA SerialTurn ==
    ASSUME VersionInv, TypeOK', SerialTree, OneBusy', NEW r \in Requests, Turn(r)
    PROVE  SerialTree' /\ Promotes
<1>1. TreeInv /\ TypeOK /\ call \in [Requests -> Call] /\ call' \in [Requests -> Call]
  BY DEF VersionInv, TreeInv, SerialTree, TypeOK
<1>2. CASE Writes(r)
  <2>1. ParentsExist' /\ NoParentCycle'
    <3>1. ASSUME NEW d \in Docs, CreateInsert(r, d) PROVE ParentsExist' /\ NoParentCycle'
      BY <1>1, <3>1, InsertTree DEF SerialTree
    <3>2. ASSUME Store(r) PROVE ParentsExist' /\ NoParentCycle'
      <4>1. call[r].doc \in Docs
        BY <3>2 DEF VersionInv, SeenInv, Store, Knows
      <4>2. Walks(call[r])
        BY DEF SerialTree, CallHolds
      <4> QED
        BY <1>1, <3>2, <4>1, <4>2, StoreTree DEF SerialTree
    <3>3. ASSUME DeleteCommit(r) PROVE ParentsExist' /\ NoParentCycle'
      <4>1. call[r].doc \in Live
        BY <3>3 DEF SerialTree, CallHolds, KnowsChildren, DeleteCommit
      <4> QED
        BY <1>1, <3>3, <4>1, DeleteTree DEF SerialTree
    <3> QED
      BY <1>2, <3>1, <3>2, <3>3 DEF Writes
  <2>2. \A q \in Requests : CallHolds(call[q])'
    BY <1>1, <1>2, WriteHolds DEF SerialTree
  <2>3. Promotes
    <3> SUFFICES ASSUME NEW q \in Requests, call[q].at = "deleting", call'[q] # call[q],
                        doc' # doc, NEW k \in Docs
                 PROVE  doc'[k].parent = IF doc[k].parent = call[q].doc /\ k \in Live
                                           THEN NoDoc ELSE doc[k].parent
      BY DEF Promotes
    <3>1. q = r
      BY <1>1, TurnIs
    <3>2. DeleteCommit(r)
      BY <1>2, <3>1 DEF Writes, Store, CreateInsert
    <3> QED
      BY <1>1, <3>1, <3>2, DeletePromotes
  <2> QED
    BY <2>1, <2>2, <2>3 DEF SerialTree
<1>3. CASE ~Writes(r)
  <2>1. doc' = doc /\ \A q \in Requests \ {r} : call'[q] = call[q]
    BY <1>1, <1>3, TurnIs
  <2>2. SameTree
    BY <2>1 DEF SameTree
  <2>3. ParentsExist' /\ NoParentCycle'
    BY <1>1, <2>2, SameTreeIs DEF SerialTree
  <2>4. CallHolds(call'[r])
    BY <1>1, <1>3, TurnHolds DEF SerialTree
  <2>5. ASSUME NEW q \in Requests PROVE CallHolds(call[q])'
    <3>1. PICK c \in Call : c = call'[q]
      BY <1>1
    <3>2. CallHolds(c)
      BY <2>1, <2>4, <3>1 DEF SerialTree
    <3>3. CallHolds(c)'
      BY <1>1, <2>2, <3>2, SameHolds
    <3> QED
      BY <3>1, <3>3
  <2> QED
    BY <2>1, <2>3, <2>5 DEF SerialTree, Promotes
<1> QED
  BY <1>2, <1>3

\* The repair and the edits of agents.
LEMMA SerialOthers ==
    ASSUME VersionInv, SerialTree,
           UNCHANGED vars \/ Repair \/ \E d \in Docs, c \in Contents : AgentEdit(d, c)
    PROVE  SerialTree' /\ Promotes
<1>1. TreeInv /\ doc \in [Docs -> Doc] /\ call \in [Requests -> Call] /\ call' = call
  BY DEF VersionInv, TreeInv, SerialTree, TypeOK, vars, Repair, AgentEdit
<1>2. OneBusy' /\ Promotes
  BY <1>1 DEF SerialTree, OneBusy, Busy, Promotes
<1>3. ASSUME SameTree PROVE SerialTree'
  <2>1. ParentsExist' /\ NoParentCycle'
    BY <1>1, <1>3, SameTreeIs DEF SerialTree
  <2>2. ASSUME NEW q \in Requests PROVE CallHolds(call[q])'
    <3>1. PICK c \in Call : c = call[q]
      BY <1>1
    <3>2. CallHolds(c)'
      BY <1>1, <1>3, <3>1, SameHolds DEF SerialTree
    <3> QED
      BY <1>1, <3>1, <3>2
  <2> QED
    BY <1>2, <2>1, <2>2 DEF SerialTree
<1>4. CASE UNCHANGED vars
  BY <1>2, <1>3, <1>4 DEF SameTree, vars
<1>5. ASSUME NEW d \in Docs, NEW t \in Contents, AgentEdit(d, t) PROVE SameTree
  <2>1. doc' = [doc EXCEPT ![d] = Rewritten(doc[d], doc[d].version + 1, t)]
    BY <1>5 DEF AgentEdit
  <2> QED
    BY <1>1, <2>1, RowParents DEF SameTree
<1>6. CASE Repair
  <2>1. ASSUME NEW d \in Docs
        PROVE  doc'[d].parent \in {doc[d].parent, NoDoc} /\ doc'[d].state = doc[d].state
    <3>1. doc[d] \in Doc /\ doc'[d] \in {Promoted(doc[d]), doc[d]}
      BY <1>1, <1>6 DEF Repair
    <3> QED
      BY <3>1, RowParents
  <2>2. ParentsExist' /\ NoParentCycle'
    BY <1>1, <2>1, LooseTree DEF SerialTree
  <2>3. ASSUME NEW q \in Requests PROVE CallHolds(call[q])'
    BY <1>1, <1>6 DEF Repair, Idle, CallHolds, Walks, KnowsChildren
  <2> QED
    BY <1>2, <2>2, <2>3 DEF SerialTree
<1> QED
  BY <1>2, <1>3, <1>4, <1>5, <1>6

LEMMA SerialInit == Init => SerialTree
<1> SUFFICES ASSUME Init PROVE SerialTree
  OBVIOUS
<1>1. /\ \A d \in Docs : doc[d].parent = NoDoc
      /\ \A r \in Requests : call[r].at = "idle"
  BY DEF Init, Idle
<1>2. \A d \in Docs : Parents[d] = NoDoc
  BY <1>1, ParentIs
<1>3. NoParentCycle
  BY <1>2, NoCycleIs, DocsAssumption
<1> QED
  BY <1>1, <1>3 DEF SerialTree, ParentsExist, OneBusy, Busy, CallHolds, Walks, KnowsChildren

DocumentsRun == VersionInv /\ (serial => SerialTree)

LEMMA DocumentsRunStep ==
    ASSUME DocumentsRun, [EditingNext]_editingVars
    PROVE  DocumentsRun' /\ TypeOK' /\ [serial => SerialTree' /\ Promotes]_vars
<1>1. serial' = serial /\ (MCNext \/ UNCHANGED vars)
  BY DEF EditingNext, editingVars, MCNext
<1>2. [Next]_vars
  BY <1>1 DEF MCNext
<1>3. VersionInv' /\ TypeOK'
  BY <1>2, NextType, VersionStep DEF DocumentsRun, VersionInv
<1>4. ASSUME serial PROVE SerialTree' /\ Promotes
  <2>1. CASE UNCHANGED vars
    BY <1>4, <2>1, SerialOthers DEF DocumentsRun
  <2>2. CASE MCNext
    <3> DEFINE T == {r \in Requests : call'[r].at \notin {"idle", "editing"}}
    <3>1. IsFiniteSet(T) /\ Cardinality(T) <= 1
      BY <1>4, <2>2, RequestsAssumption, FS_Subset DEF MCNext
    <3>2. \A x, y \in T : x = y
      BY <3>1, AtMostOne
    <3>3. OneBusy'
      BY <3>2 DEF OneBusy, Busy
    <3>4. CASE \E r \in Requests : Turn(r)
      BY <1>3, <1>4, <3>3, <3>4, SerialTurn DEF DocumentsRun
    <3>5. CASE Repair \/ \E d \in Docs, c \in Contents : AgentEdit(d, c)
      BY <1>4, <3>5, SerialOthers DEF DocumentsRun
    <3> QED
      BY <2>2, <3>4, <3>5, NextIs DEF MCNext
  <2> QED
    BY <1>1, <2>1, <2>2
<1> QED
  BY <1>1, <1>3, <1>4 DEF DocumentsRun

LEMMA DocumentsRunInit == EditingInit => DocumentsRun
<1> SUFFICES ASSUME EditingInit PROVE DocumentsRun
  OBVIOUS
<1>1. Init
  BY DEF EditingInit, MCInit
<1>2. VersionInv
  BY <1>1, InitType DEF Init, Idle, VersionInv, SeenInv
<1> QED
  BY <1>1, <1>2, SerialInit DEF DocumentsRun

\* One request at a time, whatever moves, creations, deletions, repairs and edits of
\* agents follow each other: no document is above itself, because the walk of
\* validate_parent has seen every way up before the row is written, and a deletion
\* makes roots of the children of its document and moves nothing else (delete_doc).
THEOREM TreeOfEditing == EditingSpec => SerialTreeIsKept
<1>1. EditingInit => DocumentsRun
  BY DocumentsRunInit
<1>2. DocumentsRun /\ [EditingNext]_editingVars => DocumentsRun'
  BY DocumentsRunStep
<1>3. DocumentsRun /\ [EditingNext]_editingVars =>
        [/\ TypeOK'
         /\ serial =>
            /\ NoParentCycle'
            /\ \A r \in Requests :
                  call[r].at = "deleting" /\ call'[r] # call[r] /\ doc' # doc =>
                     \A k \in Docs : doc'[k].parent =
                        IF doc[k].parent = call[r].doc /\ k \in Live
                          THEN NoDoc ELSE doc[k].parent]_vars
  BY DocumentsRunStep DEF SerialTree, Promotes
<1> QED
  BY <1>1, <1>2, <1>3, PTL DEF EditingSpec, editingVars, SerialTreeIsKept

-----------------------------------------------------------------------------
\* Induction and recursion up to a number, with sets and functions

LEMMA LeastIs ==
    ASSUME NEW members \in SUBSET Nat, members # {}
    PROVE  \E x \in members : \A y \in members : x <= y
<1>1. PICK x \in members : \A y \in members : <<y, x>> \notin OpToRel(<, Nat)
  BY WFMin, NatLessThanWellFounded, Zenon
<1>2. \A y \in members : ~(y < x)
  BY <1>1 DEF OpToRel
<1> QED
  BY <1>2

LEMMA UpTo ==
    ASSUME NEW N \in Nat, NEW R \in SUBSET (0..N), 0 \in R, \A n \in 1..N : n - 1 \in R => n \in R
    PROVE  R = 0..N
<1> SUFFICES ASSUME R # 0..N PROVE FALSE
  OBVIOUS
<1> DEFINE Out == (0..N) \ R
<1>1. Out # {} /\ Out \in SUBSET Nat
  <2>1. \E x \in 0..N : x \notin R
    OBVIOUS
  <2> QED
    BY <2>1
<1>2. PICK n \in Out : \A m \in Out : n <= m
  <2> HIDE DEF Out
  <2> QED
    BY <1>1, LeastIs
<1>3. n \in 1..N /\ n - 1 \in 0..N
  BY <1>2
<1>4. n - 1 \notin Out
  BY <1>2, <1>3
<1> QED
  BY <1>2, <1>3, <1>4

\* The step at n makes h[n] of what is there.
Recurs(g, N, a, h) == g[0] = a /\ \A n \in 1..N : g[n] = h[n][g[n - 1]]

LEMMA RecursionExists ==
    ASSUME NEW N \in Nat, NEW T, NEW a \in T, NEW h \in [1..N -> [T -> T]]
    PROVE  \E g \in [0..N -> T] : Recurs(g, N, a, h)
<1> DEFINE R == {m \in 0..N : \E g \in [0..m -> T] : Recurs(g, m, a, h)}
<1>1. 0 \in R
  <2>1. [n \in 0..0 |-> a] \in [0..0 -> T] /\ Recurs([n \in 0..0 |-> a], 0, a, h)
    BY DEF Recurs
  <2> QED
    BY <2>1
<1>2. ASSUME NEW m \in 1..N, m - 1 \in R PROVE m \in R
  <2>1. PICK g \in [0..(m - 1) -> T] : Recurs(g, m - 1, a, h)
    BY <1>2
  <2> DEFINE b == h[m][g[m - 1]]
             f == [n \in 0..m |-> IF n = m THEN b ELSE g[n]]
  <2>2. b \in T
    OBVIOUS
  <2>3. f \in [0..m -> T] /\ f[m] = b /\ \A n \in 0..(m - 1) : f[n] = g[n]
    BY <2>2
  <2> HIDE DEF f
  <2>4. Recurs(f, m, a, h)
    <3>1. f[0] = a
      BY <2>1, <2>3 DEF Recurs
    <3>2. ASSUME NEW n \in 1..m PROVE f[n] = h[n][f[n - 1]]
      <4>1. f[n - 1] = g[n - 1]
        BY <2>3
      <4>2. CASE n = m
        BY <2>3, <4>1, <4>2
      <4>3. CASE n # m
        BY <2>1, <2>3, <4>1, <4>3 DEF Recurs
      <4> QED
        BY <4>2, <4>3
    <3> QED
      BY <3>1, <3>2 DEF Recurs
  <2> QED
    BY <2>3, <2>4
<1>3. R \in SUBSET (0..N)
  OBVIOUS
<1>4. R = 0..N
  <2> HIDE DEF R
  <2> QED
    BY <1>1, <1>2, <1>3, UpTo
<1> QED
  BY <1>4

-----------------------------------------------------------------------------
\* The repair

Links == [Docs -> Docs \cup {NoDoc}]

\* The way up from d: where the walk of Rejected is after each of its rounds.
Up(parent, d) ==
    CHOOSE up : up = [n \in 0..(MaxDepth + 1) |->
        IF n = 0 THEN d ELSE IF up[n - 1] = NoDoc THEN NoDoc ELSE parent[up[n - 1]]]

LEMMA RejectedIs ==
    ASSUME NEW parent, NEW d
    PROVE  Rejected(parent, d) <=> Up(parent, d)[MaxDepth + 1] # NoDoc
BY Zenon DEF Rejected, Up

LEMMA UpIs ==
    ASSUME NEW parent \in Links, NEW d \in Docs
    PROVE  /\ Up(parent, d)[0] = d
           /\ \A n \in 1..(MaxDepth + 1) :
                 /\ Up(parent, d)[n - 1] = NoDoc => Up(parent, d)[n] = NoDoc
                 /\ Up(parent, d)[n - 1] # NoDoc => Up(parent, d)[n] = parent[Up(parent, d)[n - 1]]
           /\ \A n \in 0..(MaxDepth + 1) : Up(parent, d)[n] \in Docs \cup {NoDoc}
<1>0. MaxDepth + 1 \in Nat
  BY DepthAssumption
<1> DEFINE T == Docs \cup {NoDoc}
           N == MaxDepth + 1
           one == [x \in T |-> IF x = NoDoc THEN NoDoc ELSE parent[x]]
           h == [n \in 1..N |-> one]
<1>1. one \in [T -> T] /\ h \in [1..N -> [T -> T]] /\ d \in T
  BY DEF Links
<1>2. \A n \in 1..N : \A x \in T : h[n][x] = IF x = NoDoc THEN NoDoc ELSE parent[x]
  OBVIOUS
<1>3. PICK g \in [0..N -> T] : Recurs(g, N, d, h)
  <2> HIDE DEF h, one, N, T
  <2> QED
    BY <1>0, <1>1, RecursionExists DEF N
<1> HIDE DEF h, one
<1>4. g = [n \in 0..N |-> IF n = 0 THEN d ELSE IF g[n - 1] = NoDoc THEN NoDoc ELSE parent[g[n - 1]]]
  <2>1. ASSUME NEW n \in 0..N
        PROVE  g[n] = IF n = 0 THEN d ELSE IF g[n - 1] = NoDoc THEN NoDoc ELSE parent[g[n - 1]]
    <3>1. CASE n = 0
      BY <1>3, <3>1 DEF Recurs
    <3>2. CASE n # 0
      <4>1. n \in 1..N /\ n - 1 \in 0..N
        BY <1>0, <3>2
      <4>2. g[n - 1] \in T /\ g[n] = h[n][g[n - 1]]
        BY <1>3, <4>1 DEF Recurs
      <4> QED
        BY <1>2, <3>2, <4>1, <4>2
    <3> QED
      BY <3>1, <3>2
  <2> HIDE DEF N, T
  <2> QED
    BY <2>1
<1> DEFINE up == Up(parent, d)
<1>5. up = [n \in 0..N |-> IF n = 0 THEN d ELSE IF up[n - 1] = NoDoc THEN NoDoc ELSE parent[up[n - 1]]]
  BY <1>4, Zenon DEF Up
<1> HIDE DEF up
<1>6. up[0] = d
  BY <1>0, <1>5
<1>7. ASSUME NEW n \in 1..N
      PROVE  up[n] = IF up[n - 1] = NoDoc THEN NoDoc ELSE parent[up[n - 1]]
  <2>1. n \in 0..N /\ n # 0
    BY <1>0
  <2> QED
    BY <1>5, <2>1
<1>8. \A n \in 0..N : up[n] \in T
  <2> DEFINE R == {n \in 0..N : up[n] \in T}
  <2>1. 0 \in R
    BY <1>0, <1>6
  <2>2. ASSUME NEW n \in 1..N, n - 1 \in R PROVE n \in R
    BY <1>7, <2>2 DEF Links
  <2>3. R = 0..N
    <3> HIDE DEF R
    <3>1. R \in SUBSET (0..N)
      BY DEF R
    <3> QED
      BY <1>0, <2>1, <2>2, <3>1, UpTo
  <2> QED
    BY <2>3
<1> QED
  BY <1>6, <1>7, <1>8 DEF up

After(parent, rows) ==
    CHOOSE after : after = [n \in 0..Cardinality(Docs) |->
        IF n = 0 THEN parent
        ELSE IF Rejected(after[n - 1], rows[n])
               THEN [after[n - 1] EXCEPT ![rows[n]] = NoDoc]
               ELSE after[n - 1]]

LEMMA RepairedIs ==
    ASSUME NEW parent, NEW rows
    PROVE  Repaired(parent, rows) = After(parent, rows)[Cardinality(Docs)]
BY Zenon DEF Repaired, After

LEMMA AfterIs ==
    ASSUME IsFiniteSet(Docs), NEW parent \in Links, NEW rows \in Orders
    PROVE  /\ After(parent, rows)[0] = parent
           /\ \A n \in 1..Cardinality(Docs) :
                 After(parent, rows)[n] =
                    IF Rejected(After(parent, rows)[n - 1], rows[n])
                      THEN [After(parent, rows)[n - 1] EXCEPT ![rows[n]] = NoDoc]
                      ELSE After(parent, rows)[n - 1]
           /\ \A n \in 0..Cardinality(Docs) : After(parent, rows)[n] \in Links
<1> DEFINE N == Cardinality(Docs)
           one(n) == [x \in Links |-> IF Rejected(x, rows[n]) THEN [x EXCEPT ![rows[n]] = NoDoc]
                                      ELSE x]
           h == [n \in 1..N |-> one(n)]
<1>0. N \in Nat /\ \A n \in 1..N : rows[n] \in Docs
  BY FS_CardinalityType DEF Orders, Bijection, Injection, Surjection
<1>1. h \in [1..N -> [Links -> Links]]
  <2>1. \A n \in 1..N : \A x \in Links : [x EXCEPT ![rows[n]] = NoDoc] \in Links
    BY <1>0 DEF Links
  <2>2. \A n \in 1..N : one(n) \in [Links -> Links]
    BY <2>1
  <2> HIDE DEF one
  <2> QED
    BY <2>2
<1>2. \A n \in 1..N : \A x \in Links :
        h[n][x] = IF Rejected(x, rows[n]) THEN [x EXCEPT ![rows[n]] = NoDoc] ELSE x
  OBVIOUS
<1>3. PICK g \in [0..N -> Links] : Recurs(g, N, parent, h)
  <2> HIDE DEF h, N
  <2> QED
    BY <1>0, <1>1, RecursionExists
<1> HIDE DEF h, N
<1>4. g = [n \in 0..N |-> IF n = 0 THEN parent
                         ELSE IF Rejected(g[n - 1], rows[n])
                                THEN [g[n - 1] EXCEPT ![rows[n]] = NoDoc]
                                ELSE g[n - 1]]
  <2>1. ASSUME NEW n \in 0..N
        PROVE  g[n] = IF n = 0 THEN parent
                      ELSE IF Rejected(g[n - 1], rows[n])
                             THEN [g[n - 1] EXCEPT ![rows[n]] = NoDoc]
                             ELSE g[n - 1]
    <3>1. CASE n = 0
      BY <1>3, <3>1 DEF Recurs
    <3>2. CASE n # 0
      <4>1. n \in 1..N /\ n - 1 \in 0..N
        BY <1>0, <3>2
      <4>2. g[n - 1] \in Links /\ g[n] = h[n][g[n - 1]]
        BY <1>3, <4>1 DEF Recurs
      <4> QED
        BY <1>2, <3>2, <4>1, <4>2
    <3> QED
      BY <3>1, <3>2
  <2> QED
    BY <2>1
<1> DEFINE after == After(parent, rows)
<1>5. after = [n \in 0..N |-> IF n = 0 THEN parent
                             ELSE IF Rejected(after[n - 1], rows[n])
                                    THEN [after[n - 1] EXCEPT ![rows[n]] = NoDoc]
                                    ELSE after[n - 1]]
  BY <1>4, Zenon DEF After, N
<1> HIDE DEF after
<1>6. after[0] = parent
  BY <1>0, <1>5
<1>7. ASSUME NEW n \in 1..N
      PROVE  after[n] = IF Rejected(after[n - 1], rows[n])
                          THEN [after[n - 1] EXCEPT ![rows[n]] = NoDoc] ELSE after[n - 1]
  <2>1. n \in 0..N /\ n # 0
    BY <1>0
  <2> QED
    BY <1>5, <2>1
<1>8. \A n \in 0..N : after[n] \in Links
  <2> DEFINE R == {n \in 0..N : after[n] \in Links}
  <2>1. 0 \in R
    BY <1>0, <1>6
  <2>2. ASSUME NEW n \in 1..N, n - 1 \in R PROVE n \in R
    <3>1. after[n - 1] \in Links /\ rows[n] \in Docs
      BY <1>0, <2>2
    <3>2. [after[n - 1] EXCEPT ![rows[n]] = NoDoc] \in Links
      BY <3>1 DEF Links
    <3>3. after[n] \in Links
      BY <1>7, <3>1, <3>2
    <3>4. n \in 0..N
      BY <1>0
    <3> QED
      BY <3>3, <3>4
  <2>3. R = 0..N
    <3>1. R \in SUBSET (0..N)
      OBVIOUS
    <3> HIDE DEF R
    <3> QED
      BY <1>0, <2>1, <2>2, <3>1, UpTo
  <2> QED
    BY <2>3
<1> QED
  BY <1>6, <1>7, <1>8 DEF after, N

\* A link that is cleared stays cleared, and no other changes.
LEMMA AfterCuts ==
    ASSUME IsFiniteSet(Docs), NEW parent \in Links, NEW rows \in Orders,
           NEW m \in 0..Cardinality(Docs)
    PROVE  \A n \in m..Cardinality(Docs) : \A d \in Docs :
              After(parent, rows)[n][d] \in {After(parent, rows)[m][d], NoDoc}
<1> DEFINE N == Cardinality(Docs) - m
           after == After(parent, rows)
           R == {k \in 0..N : \A d \in Docs : after[m + k][d] \in {after[m][d], NoDoc}}
<1>0. Cardinality(Docs) \in Nat /\ N \in Nat
  BY FS_CardinalityType
<1>1. /\ \A n \in 0..Cardinality(Docs) : after[n] \in Links
      /\ \A n \in 1..Cardinality(Docs) :
            after[n] \in {after[n - 1], [after[n - 1] EXCEPT ![rows[n]] = NoDoc]}
  BY AfterIs
<1> HIDE DEF after
<1>2. 0 \in R
  BY <1>0
<1>3. ASSUME NEW k \in 1..N, k - 1 \in R PROVE k \in R
  <2>1. PICK n \in 1..Cardinality(Docs) : n = m + k
    BY <1>0
  <2>2. n - 1 = m + (k - 1) /\ n - 1 \in 0..Cardinality(Docs) /\ k \in 0..N
    BY <1>0, <2>1
  <2>3. after[n] \in {after[n - 1], [after[n - 1] EXCEPT ![rows[n]] = NoDoc]}
    BY <1>1
  <2>4. \A d \in Docs : after[n - 1][d] \in {after[m][d], NoDoc}
    BY <1>3, <2>2
  <2>5. \A d \in Docs : after[n][d] \in {after[n - 1][d], NoDoc}
    BY <1>1, <2>2, <2>3 DEF Links
  <2>6. \A d \in Docs : after[n][d] \in {after[m][d], NoDoc}
    BY <2>4, <2>5
  <2> QED
    BY <2>1, <2>2, <2>6
<1>4. R = 0..N
  <2>1. R \in SUBSET (0..N)
    OBVIOUS
  <2> HIDE DEF R, N
  <2> QED
    BY <1>0, <1>2, <1>3, <2>1, UpTo
<1>5. ASSUME NEW n \in m..Cardinality(Docs)
      PROVE  \A d \in Docs : after[n][d] \in {after[m][d], NoDoc}
  <2>1. n - m \in 0..N /\ m + (n - m) = n
    BY <1>0
  <2> QED
    BY <1>4, <2>1
<1> QED
  BY <1>5 DEF after

-----------------------------------------------------------------------------
\* What the repair leaves

\* No document is left above itself: the link of the last row that is reached on a
\* cycle is rejected, since a walk on the cycle meets no root.
LEMMA CyclesEnd ==
    ASSUME IsFiniteSet(Docs), NEW parent \in Links, NEW rows \in Orders
    PROVE  Rootless(Repaired(parent, rows)) = {}
<1> DEFINE N == Cardinality(Docs)
           K == MaxDepth + 1
           after == After(parent, rows)
           repaired == Repaired(parent, rows)
<1>0. N \in Nat /\ K \in Nat /\ repaired = after[N]
  BY FS_CardinalityType, DepthAssumption, RepairedIs
<1> SUFFICES ASSUME NEW D \in SUBSET Docs, \A d \in D : repaired[d] \in D, NEW d \in D
             PROVE  FALSE
  BY DEF Rootless
<1>1. PICK n \in 1..N : rows[n] = d
  BY DEF Orders, Bijection, Surjection
<1>2. PICK before \in Links : before = after[n - 1]
  BY <1>0, AfterIs
<1>3. ASSUME NEW x \in D PROVE before[x] \in D
  <2>1. n - 1 \in 0..N /\ N \in (n - 1)..N
    BY <1>0
  <2>2. after[N][x] \in {after[n - 1][x], NoDoc}
    BY <2>1, AfterCuts
  <2>3. repaired[x] \in {before[x], NoDoc} /\ repaired[x] \in D
    BY <1>0, <1>2, <2>2
  <2> QED
    BY <2>3, DocsAssumption
<1>4. Up(before, d)[K] \in D
  <2> DEFINE up == Up(before, d)
             R == {k \in 0..K : up[k] \in D}
  <2>1. up[0] = d /\ \A k \in 1..K : up[k - 1] # NoDoc => up[k] = before[up[k - 1]]
    BY UpIs
  <2> HIDE DEF up
  <2>2. 0 \in R
    BY <1>0, <2>1
  <2>3. ASSUME NEW k \in 1..K, k - 1 \in R PROVE k \in R
    <3>1. up[k - 1] \in D /\ up[k - 1] # NoDoc
      BY <2>3, DocsAssumption
    <3>2. up[k] \in D
      BY <1>3, <2>1, <3>1
    <3> QED
      BY <1>0, <3>2
  <2>4. R \in SUBSET (0..K)
    OBVIOUS
  <2>5. R = 0..K
    <3> HIDE DEF R, K
    <3> QED
      BY <1>0, <2>2, <2>3, <2>4, UpTo
  <2> QED
    BY <1>0, <2>5 DEF up
<1>5. Rejected(before, d)
  BY <1>4, RejectedIs, DocsAssumption
<1>6. after[n] = [before EXCEPT ![d] = NoDoc]
  BY <1>1, <1>2, <1>5, AfterIs
<1>7. after[n][d] = NoDoc
  BY <1>2, <1>6 DEF Links
<1>8. n \in 0..N /\ N \in n..N
  BY <1>0
<1>9. after[N][d] \in {after[n][d], NoDoc}
  BY <1>8, AfterCuts
<1> QED
  BY <1>0, <1>7, <1>9, DocsAssumption

\* The walk from a rejected document comes back to where it was: it makes one round
\* more than there are documents.
LEMMA RejectedIsRootless ==
    ASSUME IsFiniteSet(Docs), Cardinality(Docs) <= MaxDepth + 1,
           NEW parent \in Links, NEW d \in Docs, Rejected(parent, d)
    PROVE  \E D \in SUBSET Docs : d \in D /\ \A x \in D : parent[x] \in D
<1> DEFINE K == MaxDepth + 1
           up == Up(parent, d)
<1>0. K \in Nat /\ Cardinality(Docs) \in Nat
  BY DepthAssumption, FS_CardinalityType
<1>1. /\ up[0] = d /\ up[K] # NoDoc
      /\ \A n \in 1..K : up[n - 1] = NoDoc => up[n] = NoDoc
      /\ \A n \in 1..K : up[n - 1] # NoDoc => up[n] = parent[up[n - 1]]
      /\ \A n \in 0..K : up[n] \in Docs \cup {NoDoc}
  BY UpIs, RejectedIs
<1> HIDE DEF up
<1>2. \A k \in 0..K : up[k] \in Docs
  <2> DEFINE R == {k \in 0..K : (\E j \in 0..k : up[j] = NoDoc) => up[k] = NoDoc}
  <2>1. 0 \in R
    BY <1>0
  <2>2. ASSUME NEW k \in 1..K, k - 1 \in R PROVE k \in R
    <3>1. k \in 0..K /\ \A j \in 0..k : j = k \/ j \in 0..(k - 1)
      BY <1>0
    <3>2. (\E j \in 0..(k - 1) : up[j] = NoDoc) => up[k] = NoDoc
      BY <1>1, <2>2
    <3> QED
      BY <3>1, <3>2
  <2>3. R \in SUBSET (0..K)
    OBVIOUS
  <2>4. R = 0..K
    <3> HIDE DEF R, K
    <3> QED
      BY <1>0, <2>1, <2>2, <2>3, UpTo
  <2>5. K \in R
    BY <1>0, <2>4
  <2> QED
    BY <1>1, <2>5
<1>3. \E i, j \in 0..K : i # j /\ up[i] = up[j]
  <2> DEFINE f == [k \in 0..K |-> up[k]]
  <2>1. f \in [0..K -> Docs]
    BY <1>2
  <2>2. IsFiniteSet(0..K) /\ Cardinality(0..K) = K + 1
    BY <1>0, FS_Interval
  <2>3. Cardinality(Docs) < Cardinality(0..K)
    BY <1>0, <2>2
  <2>4. PICK i, j \in 0..K : i # j /\ f[i] = f[j]
    <3> HIDE DEF f, K
    <3> QED
      BY <2>1, <2>2, <2>3, FS_PigeonHole
  <2> QED
    BY <2>4
<1>4. PICK i \in 0..K, j \in 0..K : i < j /\ up[i] = up[j]
  <2>1. PICK i, j \in 0..K : i # j /\ up[i] = up[j]
    BY <1>3
  <2>2. i < j \/ j < i
    BY <1>0, <2>1
  <2> QED
    BY <2>1, <2>2
<1> DEFINE D == {up[k] : k \in 0..j}
<1>5. D \in SUBSET Docs /\ d \in D
  BY <1>0, <1>1, <1>2
<1>6. ASSUME NEW x \in D PROVE parent[x] \in D
  <2>1. PICK k \in 0..j : x = up[k]
    OBVIOUS
  <2>2. \E m \in 0..(j - 1) : x = up[m]
    <3>1. CASE k = j
      BY <1>0, <1>4, <2>1, <3>1
    <3>2. CASE k # j
      BY <1>0, <2>1, <3>2
    <3> QED
      BY <3>1, <3>2
  <2>3. PICK m \in 0..(j - 1) : x = up[m]
    BY <2>2
  <2>4. m + 1 \in 1..K /\ m + 1 \in 0..j /\ (m + 1) - 1 = m /\ m \in 0..K
    BY <1>0
  <2>5. up[m] # NoDoc
    BY <1>2, <2>4, DocsAssumption
  <2>6. up[m + 1] = parent[up[m]]
    BY <1>1, <2>4, <2>5
  <2> QED
    BY <2>3, <2>4, <2>6
<1> QED
  BY <1>5, <1>6

\* Only a link that is rejected when its row comes is cleared.
LEMMA OnlyRejected ==
    ASSUME IsFiniteSet(Docs), NEW parent \in Links, NEW rows \in Orders, NEW d \in Docs,
           Repaired(parent, rows)[d] # parent[d]
    PROVE  \E before \in Links : /\ Rejected(before, d)
                                 /\ \A x \in Docs : before[x] \in {parent[x], NoDoc}
<1> DEFINE N == Cardinality(Docs)
           after == After(parent, rows)
<1>0. N \in Nat /\ Repaired(parent, rows) = after[N]
  BY FS_CardinalityType, RepairedIs
<1>1. /\ after[0] = parent
      /\ \A n \in 0..N : after[n] \in Links
      /\ \A n \in 1..N : after[n] = IF Rejected(after[n - 1], rows[n])
                                      THEN [after[n - 1] EXCEPT ![rows[n]] = NoDoc]
                                      ELSE after[n - 1]
  BY AfterIs
<1>2. PICK n \in 1..N : after[n][d] # after[n - 1][d]
  <2> SUFFICES ASSUME \A n \in 1..N : after[n][d] = after[n - 1][d] PROVE FALSE
    OBVIOUS
  <2> HIDE DEF after
  <2> DEFINE R == {n \in 0..N : after[n][d] = parent[d]}
  <2>1. 0 \in R
    BY <1>0, <1>1
  <2>2. ASSUME NEW n \in 1..N, n - 1 \in R PROVE n \in R
    BY <1>0, <2>2
  <2>3. R \in SUBSET (0..N)
    OBVIOUS
  <2>4. R = 0..N
    <3> HIDE DEF R, N
    <3> QED
      BY <1>0, <2>1, <2>2, <2>3, UpTo
  <2> QED
    BY <1>0, <2>4
<1>3. PICK before \in Links : before = after[n - 1]
  BY <1>0, <1>1
<1>4. Rejected(before, rows[n]) /\ after[n] = [before EXCEPT ![rows[n]] = NoDoc]
  <2> HIDE DEF after
  <2> QED
    BY <1>1, <1>2, <1>3
<1>5. rows[n] = d
  <2> HIDE DEF after
  <2> QED
    BY <1>2, <1>3, <1>4 DEF Links
<1>6. 0 \in 0..N /\ n - 1 \in 0..N
  BY <1>0
<1>7. \A x \in Docs : after[n - 1][x] \in {after[0][x], NoDoc}
  BY <1>6, AfterCuts
<1> QED
  BY <1>1, <1>3, <1>4, <1>5, <1>7

\* No valid link is cleared.
LEMMA ValidIsSpared ==
    ASSUME IsFiniteSet(Docs), Cardinality(Docs) <= MaxDepth + 1,
           NEW parent \in Links, NEW rows \in Orders, NEW d \in Docs,
           Repaired(parent, rows)[d] # parent[d]
    PROVE  d \in Rootless(parent)
<1>1. PICK before \in Links : /\ Rejected(before, d)
                              /\ \A x \in Docs : before[x] \in {parent[x], NoDoc}
  BY OnlyRejected
<1>2. PICK D \in SUBSET Docs : d \in D /\ \A x \in D : before[x] \in D
  BY <1>1, RejectedIsRootless
<1>3. \A x \in D : parent[x] \in D
  BY <1>1, <1>2, DocsAssumption
<1> QED
  BY <1>2, <1>3 DEF Rootless

LEMMA LinksAre == TypeOK => Parents \in Links
<1> SUFFICES ASSUME TypeOK PROVE Parents \in Links
  OBVIOUS
<1>1. \A d \in Docs : (IF d \in Live THEN doc[d].parent ELSE NoDoc) \in Docs \cup {NoDoc}
  BY DEF TypeOK, Doc
<1> QED
  BY <1>1 DEF Parents, Links

LEMMA TypesOfEditing == EditingSpec => []TypeOK
<1>1. EditingInit => DocumentsRun
  BY DocumentsRunInit
<1>2. DocumentsRun /\ [EditingNext]_editingVars => DocumentsRun'
  BY DocumentsRunStep
<1>3. DocumentsRun => TypeOK
  BY DEF DocumentsRun, VersionInv
<1> QED
  BY <1>1, <1>2, <1>3, PTL DEF EditingSpec, editingVars

\* For any finite number of documents, any depth of chains and any order of the rows,
\* the repair leaves no document above itself (repair_parent_integrity).
THEOREM RepairEndsCycles ==
    EditingSpec => [](\A rows \in Orders : Rootless(Repaired(Parents, rows)) = {})
<1>1. TypeOK => \A rows \in Orders : Rootless(Repaired(Parents, rows)) = {}
  BY PresenceAssumption, LinksAre, CyclesEnd
<1> QED
  BY <1>1, TypesOfEditing, PTL

\* Where no chain can be deeper than MAX_DEPTH, it moves only what was on or under a
\* cycle, too (the "else" of its walk's loop rejects chains that are too deep, as well).
THEOREM RepairOfEditing ==
    ASSUME Cardinality(Docs) <= MaxDepth + 1
    PROVE  EditingSpec => []RepairConverges
<1>1. TypeOK => RepairConverges
  BY PresenceAssumption, LinksAre, CyclesEnd, ValidIsSpared DEF RepairConverges
<1> QED
  BY <1>1, TypesOfEditing, PTL

-----------------------------------------------------------------------------
(***************************************************************************)
(* Who has a document open                                                 *)
(***************************************************************************)

LEMMA PresenceCounts == \A S : V!Cardinality(S) = Cardinality(S)
BY Zenon DEF V!Cardinality, Cardinality

\* An order of some documents, each of them once.
Ordered(o) == o \in Seq(Requests) /\ V!IsInjective(o)

AmongIs(o, kept) ==
    CHOOSE upTo : upTo = [n \in 0..Len(o) |->
        IF n = 0 THEN <<>>
        ELSE IF o[n] \in kept THEN Append(upTo[n - 1], o[n]) ELSE upTo[n - 1]]

LEMMA AmongUnfolds == \A o, kept : V!Among(o, kept) = AmongIs(o, kept)[Len(o)]
BY Zenon DEF V!Among, AmongIs

LEMMA PresenceAmong ==
    ASSUME NEW o, Ordered(o), NEW kept
    PROVE  /\ Ordered(V!Among(o, kept))
           /\ V!Range(V!Among(o, kept)) = V!Range(o) \cap kept
<1> DEFINE N == Len(o)
           T == Seq(Requests)
           one(n) == [q \in T |-> IF o[n] \in kept THEN Append(q, o[n]) ELSE q]
           h == [n \in 1..N |-> one(n)]
<1>0. N \in Nat /\ (\A n \in 1..N : o[n] \in Requests) /\ DOMAIN o = 1..N /\ <<>> \in T
  BY DEF Ordered
<1>1. h \in [1..N -> [T -> T]]
  <2>1. \A n \in 1..N : \A q \in T : Append(q, o[n]) \in T
    BY <1>0
  <2>2. \A n \in 1..N : one(n) \in [T -> T]
    BY <2>1
  <2> HIDE DEF one, T, N
  <2> QED
    BY <2>2
<1>2. \A n \in 1..N : \A q \in T : h[n][q] = IF o[n] \in kept THEN Append(q, o[n]) ELSE q
  OBVIOUS
<1>3. PICK g \in [0..N -> T] : Recurs(g, N, <<>>, h)
  <2> HIDE DEF h, N, T
  <2> QED
    BY <1>0, <1>1, RecursionExists
<1> HIDE DEF h, N, T
<1>4. g = [n \in 0..N |-> IF n = 0 THEN <<>>
                         ELSE IF o[n] \in kept THEN Append(g[n - 1], o[n]) ELSE g[n - 1]]
  <2>1. ASSUME NEW n \in 0..N
        PROVE  g[n] = IF n = 0 THEN <<>>
                      ELSE IF o[n] \in kept THEN Append(g[n - 1], o[n]) ELSE g[n - 1]
    <3>1. CASE n = 0
      BY <1>3, <3>1 DEF Recurs
    <3>2. CASE n # 0
      <4>1. n \in 1..N /\ n - 1 \in 0..N
        BY <1>0, <3>2
      <4>2. g[n - 1] \in T /\ g[n] = h[n][g[n - 1]]
        BY <1>3, <4>1 DEF Recurs
      <4> QED
        BY <1>2, <3>2, <4>1, <4>2
    <3> QED
      BY <3>1, <3>2
  <2> QED
    BY <2>1
<1> DEFINE a == AmongIs(o, kept)
<1>5. a = [n \in 0..N |-> IF n = 0 THEN <<>>
                         ELSE IF o[n] \in kept THEN Append(a[n - 1], o[n]) ELSE a[n - 1]]
  BY <1>4, Zenon DEF AmongIs, N
<1> HIDE DEF a
<1>6. a[0] = <<>>
  BY <1>0, <1>5
<1>7. ASSUME NEW n \in 1..N
      PROVE  a[n] = IF o[n] \in kept THEN Append(a[n - 1], o[n]) ELSE a[n - 1]
  <2>1. n \in 0..N /\ n # 0
    BY <1>0
  <2> QED
    BY <1>5, <2>1
<1> DEFINE Those(n) == {o[i] : i \in 1..n} \cap kept
           Good(n) == Ordered(a[n]) /\ V!Range(a[n]) = Those(n)
           R == {n \in 0..N : Good(n)}
<1>8. R = 0..N
  <2>1. 0 \in R
    <3>1. Ordered(<<>>) /\ V!Range(<<>>) = {} /\ Those(0) = {}
      BY DEF Ordered, V!IsInjective, V!Range
    <3> QED
      BY <1>0, <1>6, <3>1
  <2>2. ASSUME NEW n \in 1..N, n - 1 \in R PROVE n \in R
    <3>1. Ordered(a[n - 1]) /\ V!Range(a[n - 1]) = Those(n - 1) /\ n \in 0..N
      BY <1>0, <2>2
    <3>2. \A i \in 1..n : i \in 1..(n - 1) \/ i = n
      BY <1>0
    <3>3. \A i \in 1..(n - 1) : i \in 1..N /\ i \in 1..n /\ i # n
      BY <1>0
    <3>4. n \in 1..n
      BY <1>0
    <3>5. CASE o[n] \notin kept
      <4>1. Those(n) = Those(n - 1)
        BY <3>2, <3>3, <3>5
      <4> QED
        BY <1>7, <3>1, <3>5, <4>1
    <3>6. CASE o[n] \in kept
      <4>1. Those(n) = Those(n - 1) \cup {o[n]}
        BY <3>2, <3>3, <3>4, <3>6
      <4>2. o[n] \notin Those(n - 1)
        BY <1>0, <3>3 DEF Ordered, V!IsInjective
      <4>3. o[n] \in Requests
        BY <1>0
      <4> DEFINE q == a[n - 1]
      <4>4. q \in Seq(Requests) /\ V!IsInjective(q) /\ o[n] \notin V!Range(q)
        BY <3>1, <4>2 DEF Ordered
      <4> HIDE DEF q
      <4>5. /\ Append(q, o[n]) \in Seq(Requests) /\ DOMAIN Append(q, o[n]) = 1..(Len(q) + 1)
            /\ DOMAIN q = 1..Len(q) /\ Len(q) \in Nat
            /\ \A i \in 1..Len(q) : Append(q, o[n])[i] = q[i]
            /\ Append(q, o[n])[Len(q) + 1] = o[n]
        BY <4>3, <4>4
      <4>6. V!IsInjective(Append(q, o[n]))
        BY <4>4, <4>5 DEF V!IsInjective, V!Range
      <4>7. V!Range(Append(q, o[n])) = V!Range(q) \cup {o[n]}
        BY <4>4, <4>5 DEF V!Range
      <4> QED
        BY <1>7, <3>1, <3>6, <4>1, <4>5, <4>6, <4>7 DEF Ordered, q
    <3> QED
      BY <3>5, <3>6
  <2>3. R \in SUBSET (0..N)
    OBVIOUS
  <2> HIDE DEF R
  <2> QED
    BY <1>0, <2>1, <2>2, <2>3, UpTo
<1>9. Good(N)
  <2>1. N \in R
    BY <1>0, <1>8
  <2> QED
    BY <2>1
<1>10. Those(N) = V!Range(o) \cap kept
  BY <1>0 DEF V!Range
<1> QED
  BY <1>9, <1>10, AmongUnfolds DEF a, N

\* As many other documents as are stored are open.
PresenceFull(d) == MaxDocs <= Cardinality({e \in Requests \ {d} : V!Open(store'[e]) # {}})
Entries == [Docs -> V!Entry \cup {V!None}]

LEMMA PresenceCut ==
    ASSUME NEW kept, Ordered(kept)
    PROVE  LET out == Len(kept) - MaxDocs
               last_ == IF out > 0 THEN SubSeq(kept, out + 1, Len(kept)) ELSE kept
           IN  /\ Ordered(last_) /\ V!Range(last_) \subseteq V!Range(kept)
               /\ V!Range(last_) # V!Range(kept) => last_ \in [1..MaxDocs -> V!Range(last_)]
               /\ kept # <<>> => kept[Len(kept)] \in V!Range(last_)
<1> DEFINE N == Len(kept)
           out == N - MaxDocs
           cut == SubSeq(kept, out + 1, N)
<1>1. N \in Nat /\ kept \in [1..N -> Requests] /\ MaxDocs \in Nat \ {0} /\ V!IsInjective(kept)
  BY PresenceAssumption DEF Ordered
<1>2. CASE out > 0
  <2>1. out \in Nat /\ out + MaxDocs = N
    BY <1>1, <1>2
  <2>2. /\ cut \in Seq(Requests) /\ Len(cut) = MaxDocs /\ cut \in [1..MaxDocs -> Requests]
        /\ \A i \in 1..MaxDocs : cut[i] = kept[out + i]
    <3>1. \A i \in 1..MaxDocs : out + 1 + i - 1 = out + i
      BY <2>1, <1>1
    <3>2. out + 1 \in Int /\ N \in Int /\ N - (out + 1) + 1 = MaxDocs /\ out + 1 <= N
      BY <1>1, <2>1
    <3>3. \A i \in (out + 1)..N : kept[i] \in Requests
      BY <1>1, <2>1
    <3> HIDE DEF out, N
    <3>4. /\ cut \in Seq(Requests) /\ Len(cut) = MaxDocs
          /\ \A i \in 1..MaxDocs : cut[i] = kept[out + 1 + i - 1]
      BY <3>2, <3>3, SubSeqProperties
    <3> HIDE DEF cut
    <3> QED
      BY <3>1, <3>4
  <2> HIDE DEF cut
  <2>3. V!IsInjective(cut)
    <3>1. \A i \in 1..MaxDocs : out + i \in 1..N
      BY <1>1, <2>1
    <3> HIDE DEF out, N
    <3>2. \A i, j \in 1..MaxDocs : cut[i] = cut[j] => out + i = out + j
      BY <1>1, <2>2, <3>1 DEF V!IsInjective
    <3>3. DOMAIN cut = 1..MaxDocs
      BY <2>2
    <3> QED
      BY <1>1, <2>1, <3>2, <3>3 DEF V!IsInjective
  <2>4. V!Range(cut) \subseteq V!Range(kept) /\ cut \in [1..MaxDocs -> V!Range(cut)]
    BY <1>1, <2>1, <2>2 DEF V!Range
  <2>5. kept[N] \in V!Range(cut)
    <3>1. cut[MaxDocs] = kept[N] /\ MaxDocs \in 1..MaxDocs
      BY <1>1, <2>1, <2>2
    <3> QED
      BY <2>2, <3>1 DEF V!Range
  <2> QED
    BY <1>2, <2>2, <2>3, <2>4, <2>5 DEF Ordered, cut
<1>3. CASE ~(out > 0)
  <2>1. kept # <<>> => kept[N] \in V!Range(kept)
    BY <1>1 DEF V!Range, Ordered
  <2> QED
    BY <1>3, <2>1
<1> QED
  BY <1>2, <1>3

LEMMA PresenceBecomes ==
    ASSUME NEW s \in [Requests -> Entries], NEW o, Ordered(o), V!Becomes(s, o),
           \A d \in Requests : V!Open(s[d]) # {} => d \in V!Range(o)
    PROVE  /\ Ordered(order') /\ store' \in [Requests -> Entries]
           /\ \A d \in Requests : V!Open(store'[d]) # {} => d \in V!Range(order')
           /\ \A d \in Requests : store'[d] = s[d] \/ (store'[d] = V!Empty /\ PresenceFull(d))
<1> DEFINE opened == {d \in Requests : V!Open(s[d]) # {}}
           kept == V!Stored(s, o)
           out == Len(kept) - MaxDocs
           cut == IF out > 0 THEN SubSeq(kept, out + 1, Len(kept)) ELSE kept
<1>1. Ordered(kept) /\ V!Range(kept) = opened
  <2>1. kept = V!Among(o, opened)
    BY DEF V!Stored
  <2>2. V!Range(o) \cap opened = opened
    OBVIOUS
  <2> QED
    BY <2>1, <2>2, PresenceAmong
<1>2. order' = cut /\ store' = [d \in Requests |-> IF d \in V!Range(cut) THEN s[d] ELSE V!Empty]
  BY DEF V!Becomes
<1> HIDE DEF kept
<1>3. /\ Ordered(cut) /\ V!Range(cut) \subseteq opened
      /\ V!Range(cut) # opened => cut \in [1..MaxDocs -> V!Range(cut)]
  BY <1>1, PresenceCut
<1> HIDE DEF cut
<1>4. V!Empty \in Entries /\ V!Open(V!Empty) = {}
  BY DEF V!Empty, Entries, V!Open
<1>5. \A d \in Requests : V!Open(s[d]) = {} => s[d] = V!Empty
  <2> SUFFICES ASSUME NEW d \in Requests, V!Open(s[d]) = {} PROVE s[d] = V!Empty
    OBVIOUS
  <2>1. s[d] \in Entries
    OBVIOUS
  <2> QED
    BY <2>1 DEF Entries, V!Open, V!Empty
<1>6. \A d \in Requests : V!Open(store'[d]) # {} <=> d \in V!Range(cut)
  BY <1>2, <1>3, <1>4
<1>7. ASSUME NEW d \in Requests, store'[d] # s[d] PROVE store'[d] = V!Empty /\ PresenceFull(d)
  <2>1. d \notin V!Range(cut) /\ store'[d] = V!Empty
    BY <1>2, <1>7
  <2>2. d \in opened
    BY <1>5, <1>7, <2>1
  <2>3. cut \in [1..MaxDocs -> V!Range(cut)]
    BY <1>3, <2>1, <2>2
  <2> DEFINE others == {e \in Requests \ {d} : V!Open(store'[e]) # {}}
  <2>4. V!Range(cut) \subseteq others
    BY <1>3, <1>6, <2>1
  <2>5. cut \in Injection(1..MaxDocs, others)
    <3>1. cut \in [1..MaxDocs -> others]
      <4> HIDE DEF others
      <4> QED
        BY <2>3, <2>4
    <3> QED
      BY <1>3, <3>1 DEF Injection, IsInjective, Ordered, V!IsInjective
  <2>6. IsFiniteSet(others)
    BY RequestsAssumption, FS_Subset
  <2>7. Cardinality(1..MaxDocs) = MaxDocs
    BY PresenceAssumption, FS_Interval
  <2>8. MaxDocs <= Cardinality(others)
    <3> HIDE DEF others
    <3> QED
      BY <2>5, <2>6, <2>7, FS_Injection
  <2> QED
    BY <2>1, <2>8 DEF PresenceFull
<1>8. store' \in [Requests -> Entries]
  BY <1>2, <1>4
<1>9. \A d \in Requests : V!Open(store'[d]) # {} => d \in V!Range(order')
  BY <1>2, <1>6
<1> QED
  BY <1>2, <1>3, <1>7, <1>8, <1>9

Unique(users) ==
    \A u, v \in V!Claims(users) : users[u].claim = users[v].claim => u = v
PresenceInv ==
    /\ V!TypeOK
    /\ \A d \in Requests : V!Open(store[d]) # {} => d \in V!Range(order)
    /\ \A d \in Requests : Unique(store[d]) /\ \A u \in Docs : store[d][u].claim <= seq

\* What a step does to the users of a document, before the cap on documents.
PresenceSince(before, after, u) ==
    {v \in Docs \ {u} : /\ after[v] # V!None
                        /\ before[v] = V!None \/ after[v].seen >= before[u].seen}
PresenceLeft(before, after, u) ==
    \/ after[u] = V!None /\ after = [before EXCEPT ![u] = V!None]
    \/ after[u] # V!None /\ after[u].claim = 0
    \/ V!Stale(before[u], now)
    \/ MaxUsers <= Cardinality(PresenceSince(before, after, u))
PresenceMoves(before, after) ==
    /\ Unique(after) /\ \A u \in Docs : after[u].claim <= seq'
    /\ \A u \in V!Editor(before) \ V!Editor(after) : PresenceLeft(before, after, u)

LEMMA PresenceOne ==
    ASSUME NEW users \in Entries, Unique(users)
    PROVE  Cardinality(V!Editor(users)) <= 1
<1>1. \A u, v \in V!Editor(users) : u = v
  <2> SUFFICES ASSUME NEW u \in V!Editor(users), NEW v \in V!Editor(users) PROVE u = v
    OBVIOUS
  <2>1. u \in V!Claims(users) /\ v \in V!Claims(users)
    BY DEF V!Editor
  <2>2. users[u].claim <= users[v].claim /\ users[v].claim <= users[u].claim
    BY <2>1 DEF V!Editor
  <2>3. users[u] \in V!Entry /\ users[v] \in V!Entry
    BY <2>1 DEF V!Claims, V!Open, Entries
  <2>4. users[u].claim \in Nat /\ users[v].claim \in Nat
    BY <2>3 DEF V!Entry
  <2> QED
    BY <2>1, <2>2, <2>4 DEF Unique
<1>2. CASE V!Editor(users) = {}
  BY <1>2, FS_EmptySet
<1>3. CASE V!Editor(users) # {}
  <2>1. PICK u : V!Editor(users) = {u}
    BY <1>1, <1>3
  <2> QED
    BY <2>1, FS_Singleton
<1> QED
  BY <1>2, <1>3

\* Each document either moves as the step says, or is dropped for others.
LEMMA PresenceStored ==
    ASSUME PresenceInv, seq' \in Nat, NEW s \in [Requests -> Entries],
           \A d \in Requests : PresenceMoves(store[d], s[d]),
           \A d \in Requests : store'[d] = s[d] \/ (store'[d] = V!Empty /\ PresenceFull(d)),
           store' \in [Requests -> Entries]
    PROVE  /\ \A d \in Requests : Unique(store'[d]) /\ \A u \in Docs : store'[d][u].claim <= seq'
           /\ V!EditorsAreSafe
<1>0. Unique(V!Empty) /\ V!Editor(V!Empty) = {} /\ \A u \in Docs : V!Empty[u].claim = 0
  BY DEF Unique, V!Editor, V!Claims, V!Open, V!Empty, V!None
<1>1. ASSUME NEW d \in Requests
      PROVE  Unique(store'[d]) /\ \A u \in Docs : store'[d][u].claim <= seq'
  <2>1. CASE store'[d] = s[d]
    BY <2>1 DEF PresenceMoves
  <2>2. CASE store'[d] = V!Empty
    BY <1>0, <2>2
  <2> QED
    BY <2>1, <2>2
<1>2. ASSUME NEW d \in Requests PROVE V!Cardinality(V!Editor(store'[d])) <= 1
  BY <1>1, PresenceOne, PresenceCounts
<1>3. ASSUME NEW d \in Requests, NEW u \in V!Editor(store[d]) \ V!Editor(store'[d])
      PROVE  \/ store'[d][u] = V!None /\ store'[d] = [store[d] EXCEPT ![u] = V!None]
             \/ store'[d][u] # V!None /\ store'[d][u].claim = 0
             \/ V!Stale(store[d][u], now)
             \/ V!Cardinality(V!UsersSince(d, u)) >= MaxUsers
             \/ V!Cardinality(V!DocsSince(d)) >= MaxDocs
  <2>1. CASE store'[d] = s[d]
    <3>1. PresenceLeft(store[d], store'[d], u)
      BY <1>3, <2>1 DEF PresenceMoves
    <3>2. V!UsersSince(d, u) = PresenceSince(store[d], store'[d], u)
      BY DEF V!UsersSince, PresenceSince
    <3>3. MaxUsers <= Cardinality(PresenceSince(store[d], store'[d], u)) =>
              V!Cardinality(V!UsersSince(d, u)) >= MaxUsers
      BY <3>2, PresenceCounts
    <3> QED
      BY <3>1, <3>3 DEF PresenceLeft
  <2>2. CASE PresenceFull(d)
    <3>1. V!DocsSince(d) = {e \in Requests \ {d} : V!Open(store'[e]) # {}}
      BY DEF V!DocsSince
    <3>2. V!Cardinality(V!DocsSince(d)) >= MaxDocs
      BY <2>2, <3>1, PresenceCounts DEF PresenceFull
    <3> QED
      BY <3>2
  <2> QED
    BY <2>1, <2>2
<1> QED
  BY <1>1, <1>2, <1>3 DEF V!EditorsAreSafe

\* A document that a step does not touch.
LEMMA PresenceRests ==
    ASSUME PresenceInv, seq' \in Nat, seq <= seq', NEW d \in Requests
    PROVE  PresenceMoves(store[d], store[d])
<1>1. \A u \in Docs : store[d][u].claim <= seq /\ store[d][u].claim \in Nat
  BY DEF PresenceInv, V!TypeOK, V!Entry, V!None
<1>2. seq \in Nat
  BY DEF PresenceInv, V!TypeOK
<1> QED
  BY <1>1, <1>2 DEF PresenceInv, PresenceMoves

\* What pruning leaves.
LEMMA PresencePrunes ==
    ASSUME NEW users \in Entries, NEW t
    PROVE  /\ V!Pruned(users, t) \in Entries
           /\ \A u \in Docs :
                 V!Pruned(users, t)[u] = IF V!Stale(users[u], t) THEN V!None ELSE users[u]
BY DEF V!Pruned, Entries

\* Nobody but those who were silent leaves a document that is looked at.
LEMMA PresenceSnapshot ==
    ASSUME PresenceInv, NEW d0 \in Requests, NEW t \in V!Times, V!Snapshot(d0, t)
    PROVE  PresenceInv' /\ V!EditorsAreSafe
<1> DEFINE before == store[d0]
           after == V!Pruned(before, t)
           s == [store EXCEPT ![d0] = after]
<1>0. /\ store \in [Requests -> Entries] /\ Ordered(order) /\ seq \in 0..MaxSeq /\ now \in 0..MaxClock
      /\ before \in Entries /\ t \in Nat /\ t <= now
  BY PresenceAssumption DEF PresenceInv, V!TypeOK, Entries, Ordered, V!Times
<1>1. /\ after \in Entries
      /\ \A u \in Docs : after[u] = IF V!Stale(before[u], t) THEN V!None ELSE before[u]
  BY <1>0, PresencePrunes
<1> HIDE DEF after
<1>2. s \in [Requests -> Entries] /\ \A d \in Requests : s[d] = IF d = d0 THEN after ELSE store[d]
  BY <1>0, <1>1
<1>3. V!Becomes(s, order) /\ UNCHANGED <<seq, now>>
  BY DEF V!Snapshot, after
<1> HIDE DEF s
<1>4. V!Claims(after) \subseteq V!Claims(before) /\ \A u \in V!Claims(after) : after[u] = before[u]
  BY <1>1 DEF V!Claims, V!Open, V!None
<1>5. PresenceMoves(before, after)
  <2>1. Unique(after)
    BY <1>4 DEF PresenceInv, Unique
  <2>2. \A u \in Docs : after[u].claim <= seq'
    BY <1>0, <1>1, <1>3 DEF PresenceInv, V!None
  <2>3. ASSUME NEW u \in V!Editor(before) \ V!Editor(after) PROVE PresenceLeft(before, after, u)
    <3>1. u \in V!Claims(before) /\ u \in Docs /\ before[u] \in V!Entry
      BY <1>0 DEF V!Editor, V!Claims, V!Open, Entries
    <3>2. CASE V!Stale(before[u], t)
      <4>1. before[u].seen + Ttl \in Nat
        BY <3>1, PresenceAssumption DEF V!Entry
      <4>2. V!Stale(before[u], now)
        BY <1>0, <3>2, <4>1 DEF V!Stale
      <4> QED
        BY <4>2 DEF PresenceLeft
    <3>3. CASE ~V!Stale(before[u], t)
      <4>1. after[u] = before[u] /\ u \in V!Claims(after)
        BY <1>1, <3>1, <3>3 DEF V!Claims, V!Open
      <4>2. u \in V!Editor(after)
        BY <1>4, <4>1 DEF V!Editor
      <4> QED
        BY <4>2
    <3> QED
      BY <3>2, <3>3
  <2> QED
    BY <2>1, <2>2, <2>3 DEF PresenceMoves
<1>6. \A d \in Requests : PresenceMoves(store[d], s[d])
  <2>1. seq' \in Nat /\ seq <= seq'
    BY <1>0, <1>3
  <2> QED
    BY <1>2, <1>5, <2>1, PresenceRests
<1>7. \A d \in Requests : V!Open(s[d]) # {} => d \in V!Range(order)
  <2>1. V!Open(after) \subseteq V!Open(before)
    BY <1>1 DEF V!Open
  <2> QED
    BY <1>2, <2>1 DEF PresenceInv
<1>8. /\ Ordered(order') /\ store' \in [Requests -> Entries]
      /\ \A d \in Requests : V!Open(store'[d]) # {} => d \in V!Range(order')
      /\ \A d \in Requests : store'[d] = s[d] \/ (store'[d] = V!Empty /\ PresenceFull(d))
  BY <1>0, <1>2, <1>3, <1>7, PresenceBecomes
<1>9. /\ \A d \in Requests : Unique(store'[d]) /\ \A u \in Docs : store'[d][u].claim <= seq'
      /\ V!EditorsAreSafe
  BY <1>0, <1>2, <1>3, <1>6, <1>8, PresenceStored
<1> QED
  BY <1>0, <1>3, <1>8, <1>9 DEF PresenceInv, V!TypeOK, Entries, Ordered, Unique

LEMMA PresenceLeave ==
    ASSUME PresenceInv, NEW d0 \in Requests, NEW u0 \in Docs, V!Leave(d0, u0)
    PROVE  PresenceInv' /\ V!EditorsAreSafe
<1> DEFINE before == store[d0]
           after == [before EXCEPT ![u0] = V!None]
           s == [store EXCEPT ![d0] = after]
<1>0. /\ store \in [Requests -> Entries] /\ Ordered(order) /\ seq \in 0..MaxSeq /\ now \in 0..MaxClock
      /\ before \in Entries
  BY DEF PresenceInv, V!TypeOK, Entries, Ordered
<1>1. /\ after \in Entries
      /\ \A u \in Docs : after[u] = IF u = u0 THEN V!None ELSE before[u]
  BY <1>0 DEF Entries
<1>2. V!Becomes(s, order) /\ UNCHANGED <<seq, now>>
  <2>1. s = [store EXCEPT ![d0][u0] = V!None]
    BY <1>0 DEF Entries
  <2> QED
    BY <2>1 DEF V!Leave
<1>3. s \in [Requests -> Entries] /\ \A d \in Requests : s[d] = IF d = d0 THEN after ELSE store[d]
  BY <1>0, <1>1
<1>4. /\ V!Claims(after) \subseteq V!Claims(before)
      /\ \A u \in V!Claims(after) : after[u] = before[u] /\ u # u0
  BY <1>1 DEF V!Claims, V!Open, V!None
<1> HIDE DEF s
<1>5. PresenceMoves(before, after)
  <2>1. Unique(after)
    BY <1>4 DEF PresenceInv, Unique
  <2>2. \A u \in Docs : after[u].claim <= seq'
    BY <1>0, <1>1, <1>2 DEF PresenceInv, V!None
  <2>3. ASSUME NEW u \in V!Editor(before) \ V!Editor(after) PROVE PresenceLeft(before, after, u)
    <3>1. u \in V!Claims(before) /\ u \in Docs
      BY DEF V!Editor, V!Claims, V!Open
    <3>2. CASE u = u0
      BY <1>1, <3>1, <3>2 DEF PresenceLeft
    <3>3. CASE u # u0
      <4>1. after[u] = before[u] /\ u \in V!Claims(after)
        BY <1>1, <3>1, <3>3 DEF V!Claims, V!Open
      <4>2. u \in V!Editor(after)
        BY <1>4, <4>1 DEF V!Editor
      <4> QED
        BY <4>2
    <3> QED
      BY <3>2, <3>3
  <2> QED
    BY <2>1, <2>2, <2>3 DEF PresenceMoves
<1>6. \A d \in Requests : PresenceMoves(store[d], s[d])
  <2>1. seq' \in Nat /\ seq <= seq'
    BY <1>0, <1>2
  <2> QED
    BY <1>3, <1>5, <2>1, PresenceRests
<1>7. \A d \in Requests : V!Open(s[d]) # {} => d \in V!Range(order)
  <2>1. V!Open(after) \subseteq V!Open(before)
    BY <1>1 DEF V!Open
  <2> QED
    BY <1>3, <2>1 DEF PresenceInv
<1>8. /\ Ordered(order') /\ store' \in [Requests -> Entries]
      /\ \A d \in Requests : V!Open(store'[d]) # {} => d \in V!Range(order')
      /\ \A d \in Requests : store'[d] = s[d] \/ (store'[d] = V!Empty /\ PresenceFull(d))
  BY <1>0, <1>2, <1>3, <1>7, PresenceBecomes
<1>9. /\ \A d \in Requests : Unique(store'[d]) /\ \A u \in Docs : store'[d][u].claim <= seq'
      /\ V!EditorsAreSafe
  BY <1>0, <1>2, <1>3, <1>6, <1>8, PresenceStored
<1> QED
  BY <1>0, <1>2, <1>8, <1>9 DEF PresenceInv, V!TypeOK, Entries, Ordered, Unique

\* Who was there: the one who beats, and those who are not silent, but for the one
\* who makes room.
LEMMA PresenceEvicts ==
    ASSUME NEW before \in Entries, NEW after \in Entries, NEW u \in V!Open(before), NEW u0 \in Docs,
           NEW t \in Nat, t <= now, now \in Nat,
           before[u0] = V!None, after[u0] # V!None,
           \A x \in V!Open(before) : before[u].seen <= before[x].seen,
           ~(V!Cardinality(V!Open(before)) < MaxUsers),
           \A x \in Docs \ {u, u0} : after[x] = IF V!Stale(before[x], t) THEN V!None ELSE before[x]
    PROVE  PresenceLeft(before, after, u)
<1>0. \A x \in V!Open(before) : x \in Docs /\ before[x] \in V!Entry /\ before[x].seen \in Nat
  BY DEF V!Open, Entries, V!Entry
<1>1. u0 # u /\ u0 \notin V!Open(before)
  BY DEF V!Open
<1>2. CASE \E x \in V!Open(before) \ {u} : V!Stale(before[x], t)
  <2>1. PICK x \in V!Open(before) : V!Stale(before[x], t)
    BY <1>2
  <2>2. t >= before[x].seen + Ttl /\ before[u].seen <= before[x].seen /\ before[u] # V!None
    BY <2>1 DEF V!Stale, V!Open
  <2>3. now >= before[u].seen + Ttl
    BY <1>0, <2>2, PresenceAssumption
  <2> QED
    BY <2>2, <2>3 DEF PresenceLeft, V!Stale
<1>3. CASE ~\E x \in V!Open(before) \ {u} : V!Stale(before[x], t)
  <2> DEFINE rest == V!Open(before) \ {u}
             since == PresenceSince(before, after, u)
  <2>1. \A x \in rest : after[x] = before[x] /\ x \in Docs \ {u}
    BY <1>0, <1>1, <1>3
  <2>2. rest \cup {u0} \subseteq since
    BY <1>0, <1>1, <2>1 DEF PresenceSince, V!Open
  <2>3. IsFiniteSet(V!Open(before)) /\ Cardinality(V!Open(before)) \in Nat
    BY PresenceAssumption, FS_Subset, FS_CardinalityType DEF V!Open
  <2>4. IsFiniteSet(rest) /\ Cardinality(rest) = Cardinality(V!Open(before)) - 1
    BY <2>3, FS_RemoveElement
  <2>5. Cardinality(rest \cup {u0}) = Cardinality(V!Open(before))
    <3>1. u0 \notin rest
      BY <1>1
    <3> HIDE DEF rest
    <3>2. Cardinality(rest \cup {u0}) = Cardinality(rest) + 1
      BY <2>4, <3>1, FS_AddElement
    <3> QED
      BY <2>3, <2>4, <3>2
  <2>6. IsFiniteSet(since)
    BY PresenceAssumption, FS_Subset DEF PresenceSince
  <2>7. Cardinality(rest \cup {u0}) <= Cardinality(since) /\ Cardinality(since) \in Nat
    <3>1. \A S, T : IsFiniteSet(T) /\ S \subseteq T =>
              Cardinality(S) <= Cardinality(T) /\ Cardinality(T) \in Nat
      BY FS_Subset, FS_CardinalityType
    <3> HIDE DEF rest, since
    <3> QED
      BY <2>2, <2>6, <3>1
  <2>8. MaxUsers <= Cardinality(since)
    BY <2>3, <2>5, <2>7, PresenceAssumption, PresenceCounts
  <2> QED
    BY <2>8 DEF PresenceLeft
<1> QED
  BY <1>2, <1>3

\* What a heartbeat makes of a document's users.
PresenceBeat(before, after, u0, c, t) ==
    \E users \in V!Admitting(before, u0) :
        after = V!Pruned([users EXCEPT ![u0] = [claim |-> c, seen |-> t]], t)

LEMMA PresenceBeats ==
    ASSUME PresenceInv, NEW d0 \in Requests, NEW u0 \in Docs, NEW t \in Nat, t <= now,
           NEW editing \in BOOLEAN, NEW after,
           V!Claim(store[d0][u0], editing) <= MaxSeq,
           seq' = (IF V!Claim(store[d0][u0], editing) > seq
                   THEN V!Claim(store[d0][u0], editing) ELSE seq),
           PresenceBeat(store[d0], after, u0, V!Claim(store[d0][u0], editing), t)
    PROVE  after \in Entries /\ PresenceMoves(store[d0], after) /\ seq' \in 0..MaxSeq /\ seq <= seq'
<1> DEFINE before == store[d0]
           e == before[u0]
           c == V!Claim(before[u0], editing)
           new == [claim |-> c, seen |-> t]
<1>0. before \in Entries /\ seq \in 0..MaxSeq /\ now \in 0..MaxClock
  BY DEF PresenceInv, V!TypeOK, Entries
<1>1. \A u \in Docs : before[u].claim \in Nat /\ before[u].claim <= seq
  BY <1>0 DEF PresenceInv, Entries, V!Entry, V!None
<1>2. \/ c = 0 /\ ~editing
      \/ c = e.claim /\ c # 0
      \/ c = seq + 1 /\ e.claim = 0
  BY DEF V!Claim
<1>3. c \in 0..MaxSeq /\ seq' \in 0..MaxSeq /\ seq <= seq' /\ c <= seq'
  BY <1>0, <1>1, <1>2, PresenceAssumption
<1>4. new \in V!Entry /\ new # V!None /\ ~V!Stale(new, t) /\ new.claim = c
  BY <1>0, <1>3, PresenceAssumption DEF V!Entry, V!None, V!Stale
<1>5. PICK users \in V!Admitting(before, u0) :
          after = V!Pruned([users EXCEPT ![u0] = new], t)
  BY DEF PresenceBeat
<1> HIDE DEF new, c
<1>6. \/ users = before
      \/ /\ before[u0] = V!None /\ ~(V!Cardinality(V!Open(before)) < MaxUsers)
         /\ \E v \in V!Open(before) : /\ users = [before EXCEPT ![v] = V!None]
                                     /\ \A x \in V!Open(before) : before[v].seen <= before[x].seen
  BY DEF V!Admitting
<1>7. users \in Entries /\ \A u \in Docs : users[u] \in {before[u], V!None}
  BY <1>0, <1>6 DEF Entries
<1>8. /\ after \in Entries /\ after[u0] = new
      /\ \A u \in Docs \ {u0} : after[u] = IF V!Stale(users[u], t) THEN V!None ELSE users[u]
  <2> DEFINE full == [users EXCEPT ![u0] = new]
  <2>1. full \in Entries /\ full[u0] = new /\ \A u \in Docs \ {u0} : full[u] = users[u]
    BY <1>4, <1>7 DEF Entries
  <2>2. after = V!Pruned(full, t)
    BY <1>5
  <2> HIDE DEF full
  <2>3. \A u \in Docs : after[u] = IF V!Stale(full[u], t) THEN V!None ELSE full[u]
    BY <2>1, <2>2, PresencePrunes
  <2>4. after \in Entries
    BY <2>1, <2>2, PresencePrunes
  <2> QED
    BY <1>4, <2>1, <2>3, <2>4
<1>9. \A u \in Docs \ {u0} : after[u] \in {before[u], V!None}
  BY <1>7, <1>8
<1>10. \A u \in V!Claims(after) :
          \/ u # u0 /\ u \in V!Claims(before) /\ after[u] = before[u]
          \/ u = u0 /\ after[u].claim = c /\ c # 0
  BY <1>4, <1>8, <1>9 DEF V!Claims, V!Open, V!None
<1>11. Unique(after)
  <2> SUFFICES ASSUME NEW u \in V!Claims(after), NEW v \in V!Claims(after),
                      after[u].claim = after[v].claim, u # v
               PROVE  FALSE
    BY DEF Unique
  <2>1. Unique(before)
    BY DEF PresenceInv
  <2>2. CASE u # u0 /\ v # u0
    BY <1>10, <2>1, <2>2 DEF Unique
  <2>3. ASSUME NEW w \in V!Claims(before), w # u0, before[w].claim = c, c # 0 PROVE FALSE
    <3>1. w \in Docs
      BY DEF V!Claims, V!Open
    <3>2. c = e.claim
      BY <1>0, <1>1, <1>2, <2>3, <3>1
    <3>3. u0 \in V!Claims(before)
      BY <1>2, <2>3, <3>2 DEF V!Claims, V!Open, V!None
    <3> QED
      BY <2>1, <2>3, <3>2, <3>3 DEF Unique
  <2> QED
    BY <1>10, <2>2, <2>3
<1>12. \A u \in Docs : after[u].claim <= seq'
  <2>1. \A u \in Docs \ {u0} : after[u].claim <= seq
    BY <1>0, <1>1, <1>9 DEF V!None
  <2>2. \A u \in Docs : after[u].claim \in Nat
    BY <1>8 DEF Entries, V!Entry, V!None
  <2>3. after[u0].claim <= seq'
    BY <1>3, <1>4, <1>8
  <2> QED
    BY <1>0, <1>3, <2>1, <2>2, <2>3
<1>13. ASSUME NEW u \in V!Editor(before) \ V!Editor(after) PROVE PresenceLeft(before, after, u)
  <2>1. u \in V!Claims(before) /\ u \in Docs /\ u \in V!Open(before) /\ before[u] \in V!Entry
    BY <1>0 DEF V!Editor, V!Claims, V!Open, Entries
  <2>2. \A v \in V!Claims(before) : before[u].claim <= before[v].claim
    BY DEF V!Editor
  <2>3. CASE u = u0
    <3>1. c = e.claim \/ c = 0
      BY <1>2, <2>1, <2>3 DEF V!Claims
    <3>2. CASE c = 0
      BY <1>4, <1>8, <2>3, <3>2 DEF PresenceLeft
    <3>3. CASE c # 0
      <4>1. u \in V!Claims(after) /\ after[u].claim = before[u].claim
        BY <1>4, <1>8, <2>1, <2>3, <3>1, <3>3 DEF V!Claims, V!Open
      <4>2. \A v \in V!Claims(after) : after[u].claim <= after[v].claim
        BY <1>1, <1>10, <2>1, <2>2, <2>3, <4>1
      <4> QED
        BY <4>1, <4>2 DEF V!Editor
    <3> QED
      BY <3>2, <3>3
  <2>4. CASE u # u0 /\ users[u] = before[u]
    <3>1. CASE V!Stale(before[u], t)
      <4>1. before[u].seen + Ttl \in Nat
        BY <2>1, PresenceAssumption DEF V!Entry
      <4>2. V!Stale(before[u], now)
        BY <1>0, <3>1, <4>1 DEF V!Stale
      <4> QED
        BY <4>2 DEF PresenceLeft
    <3>2. CASE ~V!Stale(before[u], t)
      <4>1. after[u] = before[u] /\ u \in V!Claims(after)
        BY <1>8, <2>1, <2>4, <3>2 DEF V!Claims, V!Open
      <4>2. ASSUME NEW v \in V!Claims(after) PROVE after[u].claim <= after[v].claim
        <5>1. CASE v # u0
          BY <1>10, <2>2, <4>1, <5>1
        <5>2. CASE v = u0
          <6>1. after[v].claim = c /\ c # 0
            BY <1>10, <5>2
          <6>2. CASE c = e.claim
            <7>1. u0 \in V!Claims(before)
              BY <6>1, <6>2 DEF V!Claims, V!Open, V!None
            <7> QED
              BY <2>2, <4>1, <6>1, <6>2, <7>1
          <6>3. CASE c = seq + 1
            BY <1>0, <1>1, <2>1, <4>1, <6>1, <6>3
          <6> QED
            BY <1>2, <6>1, <6>2, <6>3
        <5> QED
          BY <5>1, <5>2
      <4> QED
        BY <4>1, <4>2 DEF V!Editor
    <3> QED
      BY <3>1, <3>2
  <2>5. CASE u # u0 /\ users[u] # before[u]
    <3>1. /\ before[u0] = V!None /\ ~(V!Cardinality(V!Open(before)) < MaxUsers)
          /\ users = [before EXCEPT ![u] = V!None]
          /\ \A x \in V!Open(before) : before[u].seen <= before[x].seen
      <4>1. PICK v \in V!Open(before) :
                /\ users = [before EXCEPT ![v] = V!None]
                /\ \A x \in V!Open(before) : before[v].seen <= before[x].seen
        BY <1>6, <2>5
      <4>2. v = u
        BY <1>0, <2>1, <2>5, <4>1 DEF Entries
      <4> QED
        BY <1>6, <2>5, <4>1, <4>2
    <3>2. \A x \in Docs \ {u, u0} : after[x] = IF V!Stale(before[x], t) THEN V!None ELSE before[x]
      BY <1>0, <1>8, <3>1 DEF Entries
    <3>3. after[u0] # V!None /\ now \in Nat
      BY <1>0, <1>4, <1>8
    <3> QED
      BY <1>0, <1>8, <2>1, <3>1, <3>2, <3>3, PresenceEvicts
  <2> QED
    BY <2>3, <2>4, <2>5
<1> QED
  BY <1>3, <1>8, <1>11, <1>12, <1>13 DEF PresenceMoves

LEMMA PresenceHeartbeat ==
    ASSUME PresenceInv, NEW d0 \in Requests, NEW u0 \in Docs, NEW editing \in BOOLEAN,
           NEW t \in V!Times, V!Heartbeat(d0, u0, editing, t)
    PROVE  PresenceInv' /\ V!EditorsAreSafe
<1> DEFINE before == store[d0]
           c == V!Claim(before[u0], editing)
           o == Append(V!Among(order, Requests \ {d0}), d0)
<1>0. /\ store \in [Requests -> Entries] /\ Ordered(order) /\ seq \in 0..MaxSeq /\ now \in 0..MaxClock
      /\ before \in Entries /\ t \in Nat /\ t <= now
  BY PresenceAssumption DEF PresenceInv, V!TypeOK, Entries, Ordered, V!Times
<1>1. c <= MaxSeq /\ seq' = (IF c > seq THEN c ELSE seq) /\ now' = now
  BY DEF V!Heartbeat
<1>2. PICK users \in V!Admitting(before, u0) :
          V!Becomes([store EXCEPT ![d0] =
                        V!Pruned([users EXCEPT ![u0] = [claim |-> c, seen |-> t]], t)], o)
  BY DEF V!Heartbeat
<1> DEFINE after == V!Pruned([users EXCEPT ![u0] = [claim |-> c, seen |-> t]], t)
           s == [store EXCEPT ![d0] = after]
<1>3. PresenceBeat(before, after, u0, c, t)
  BY DEF PresenceBeat
<1>4. V!Becomes(s, o)
  BY <1>2
<1> HIDE DEF after
<1>5. after \in Entries /\ PresenceMoves(before, after) /\ seq' \in 0..MaxSeq /\ seq <= seq'
  BY <1>0, <1>1, <1>3, PresenceBeats
<1>6. s \in [Requests -> Entries] /\ \A d \in Requests : s[d] = IF d = d0 THEN after ELSE store[d]
  BY <1>0, <1>5
<1> HIDE DEF s
<1>7. Ordered(o) /\ V!Range(o) = V!Range(order) \cup {d0}
  <2> DEFINE q == V!Among(order, Requests \ {d0})
  <2>1. Ordered(q) /\ V!Range(q) = V!Range(order) \cap (Requests \ {d0})
    BY <1>0, PresenceAmong
  <2>2. V!Range(order) \subseteq Requests
    BY <1>0 DEF Ordered, V!Range
  <2> HIDE DEF q
  <2>3. /\ o \in Seq(Requests) /\ DOMAIN o = 1..(Len(q) + 1)
        /\ DOMAIN q = 1..Len(q) /\ Len(q) \in Nat
        /\ \A i \in 1..Len(q) : o[i] = q[i]
        /\ o[Len(q) + 1] = d0
    BY <2>1 DEF Ordered, q
  <2> HIDE DEF o
  <2>4. d0 \notin V!Range(q)
    BY <2>1
  <2>5. V!IsInjective(o)
    BY <2>1, <2>3, <2>4 DEF Ordered, V!IsInjective, V!Range
  <2>6. V!Range(o) = V!Range(q) \cup {d0}
    BY <2>3 DEF V!Range
  <2> QED
    BY <2>1, <2>2, <2>3, <2>5, <2>6 DEF Ordered
<1> HIDE DEF o
<1>8. \A d \in Requests : PresenceMoves(store[d], s[d])
  <2>1. seq' \in Nat
    BY <1>5, PresenceAssumption
  <2> QED
    BY <1>5, <1>6, <2>1, PresenceRests
<1>9. \A d \in Requests : V!Open(s[d]) # {} => d \in V!Range(o)
  BY <1>6, <1>7 DEF PresenceInv
<1>10. /\ Ordered(order') /\ store' \in [Requests -> Entries]
       /\ \A d \in Requests : V!Open(store'[d]) # {} => d \in V!Range(order')
       /\ \A d \in Requests : store'[d] = s[d] \/ (store'[d] = V!Empty /\ PresenceFull(d))
  BY <1>4, <1>6, <1>7, <1>9, PresenceBecomes
<1>11. /\ \A d \in Requests : Unique(store'[d]) /\ \A u \in Docs : store'[d][u].claim <= seq'
       /\ V!EditorsAreSafe
  BY <1>5, <1>6, <1>8, <1>10, PresenceStored
<1> QED
  BY <1>0, <1>1, <1>5, <1>10, <1>11 DEF PresenceInv, V!TypeOK, Entries, Ordered, Unique

LEMMA PresenceInit == V!Init => PresenceInv
<1> SUFFICES ASSUME V!Init PROVE PresenceInv
  OBVIOUS
<1>1. store = [d \in Requests |-> V!Empty] /\ order = <<>> /\ seq = 0 /\ now = 0
  BY DEF V!Init
<1>2. V!TypeOK
  BY <1>1, PresenceAssumption DEF V!TypeOK, V!Empty, V!IsInjective
<1>3. V!Open(V!Empty) = {} /\ Unique(V!Empty) /\ \A u \in Docs : V!Empty[u].claim = 0
  BY DEF V!Open, V!Empty, Unique, V!Claims, V!None
<1> QED
  BY <1>1, <1>2, <1>3 DEF PresenceInv

LEMMA PresenceStep == PresenceInv /\ [V!Next]_(V!vars) => PresenceInv' /\ V!EditorsAreSafe
<1> SUFFICES ASSUME PresenceInv, [V!Next]_(V!vars) PROVE PresenceInv' /\ V!EditorsAreSafe
  OBVIOUS
<1>1. CASE V!Tick \/ UNCHANGED V!vars
  <2>1. UNCHANGED <<store, order, seq>>
    BY <1>1 DEF V!Tick, V!vars
  <2>2. /\ store \in [Requests -> Entries] /\ Ordered(order) /\ seq \in 0..MaxSeq
        /\ now \in 0..MaxClock /\ now' \in 0..MaxClock
    BY <1>1, PresenceAssumption DEF PresenceInv, V!TypeOK, Entries, Ordered, V!Tick, V!vars
  <2>3. \A d \in Requests : PresenceMoves(store[d], store[d])
    BY <2>1, <2>2, PresenceRests
  <2>4. /\ \A d \in Requests : Unique(store'[d]) /\ \A u \in Docs : store'[d][u].claim <= seq'
        /\ V!EditorsAreSafe
    BY <2>1, <2>2, <2>3, PresenceStored
  <2>5. \A d \in Requests : V!Open(store'[d]) # {} => d \in V!Range(order')
    BY <2>1 DEF PresenceInv
  <2> QED
    BY <2>1, <2>2, <2>4, <2>5 DEF PresenceInv, V!TypeOK, Entries, Ordered, Unique
<1> QED
  BY <1>1, PresenceHeartbeat, PresenceLeave, PresenceSnapshot DEF V!Next

-----------------------------------------------------------------------------
(***************************************************************************)
(* The editor in the browser                                               *)
(***************************************************************************)

EdCalls == {s \in Slots : asked[s] # E!Idle}
EdUpdate(c) == c.op \in {"save", "colour"}

\* What somebody knows of document d of the server st who looked at a version of
\* it: if it is the newest one, then nobody else wrote it unseen.
EdKnows(st, unread, d, version) ==
    /\ version <= st[d].version
    /\ version = st[d].version => st[d].text \notin unread

\* A request tells the truth about the server st; "there": the editor has loaded a
\* document.
EdCall(st, texts, unread, there, c) ==
    /\ c.at # "sent" => c.heard
    /\ c.op = "load" =>
          /\ c.heard
          /\ c.at = "ok" =>
                /\ c.text \in texts /\ c.version <= st[c.doc].version
                /\ c.version = st[c.doc].version => c.text = st[c.doc].text
    /\ EdUpdate(c) =>
          /\ c.heard => there
          /\ c.op = "save" => c.text \in E!Text /\ c.text \notin unread
          /\ c.at = "sent" => EdKnows(st, unread, c.doc, c.version)
          /\ c.at = "ok" =>
                /\ EdKnows(st, unread, c.doc, c.version + 1)
                /\ c.op = "save" => c.text \in texts

EdHold(calls, st, texts, unread, there) ==
    \A s \in Slots : calls[s] # E!Idle => EdCall(st, texts, unread, there, calls[s])

EdCurrent == current.doc # NoDoc =>
    buffer \in E!Text /\ EdKnows(stored, unseen, current.doc, current.version)

EditorInv ==
    /\ E!TypeOK
    /\ \A d \in Requests : stored[d].text \in held
    /\ buffer \notin unseen
    /\ view = "shown" => current.doc # NoDoc
    /\ EdCurrent
    /\ EdHold(asked, stored, held, unseen, current.doc # NoDoc)
    /\ E!SavedIsStored

LEMMA EdQueued ==
    ASSUME NEW calls, NEW c, E!Free(calls) # {}
    PROVE  \E s \in E!Free(calls) : E!Queued(calls, c) = [calls EXCEPT ![s] = c]
<1>1. E!Free(calls) \in SUBSET Nat
  BY EditorAssumption DEF E!Free
<1>2. \E s \in E!Free(calls) : \A t \in E!Free(calls) : s <= t
  BY <1>1, LeastIs
<1> DEFINE s0 == CHOOSE s \in E!Free(calls) : \A t \in E!Free(calls) : s <= t
<1>3. s0 \in E!Free(calls)
  BY <1>2
<1>4. E!Queued(calls, c) = [calls EXCEPT ![s0] = c]
  BY DEF E!Queued
<1> QED
  BY <1>3, <1>4

\* A new text has a new number.
LEMMA EdNextText ==
    ASSUME E!TypeOK
    PROVE  E!NextText \in Nat \ {0} /\ E!NextText \notin E!Typed
<1> DEFINE Fresh == (1..(Typings + 1)) \ E!Typed
           n == E!NextText
<1>1. E!Typed \subseteq 0..Typings
  <2>1. \A s \in Slots \ E!Free(asked) : asked[s].text \in E!Text \cup {E!NoText}
    BY DEF E!TypeOK, E!Free, E!Call
  <2>2. E!Sent \subseteq E!Text \cup {E!NoText}
    BY <2>1 DEF E!Sent
  <2>3. held \cup {last[d] : d \in Requests} \cup {buffer} \cup E!Sent \subseteq E!Text \cup {E!NoText}
    BY <2>2 DEF E!TypeOK
  <2>4. \A t \in E!Text \cup {E!NoText} : t.n \in 0..Typings
    BY EditorAssumption DEF E!Text, E!NoText
  <2> QED
    BY <2>3, <2>4 DEF E!Typed
<1>2. Fresh # {} /\ Fresh \in SUBSET Nat
  <2>1. Typings + 1 \in Fresh
    BY <1>1, EditorAssumption
  <2> QED
    BY <2>1, EditorAssumption
<1>3. PICK x \in Fresh : \A y \in Fresh : x <= y
  <2> HIDE DEF Fresh
  <2> QED
    BY <1>2, LeastIs
<1>4. x \in 1..(Typings + 1) /\ x \notin E!Typed /\ \A m \in 1..(x - 1) : m \in E!Typed
  BY <1>3, EditorAssumption
<1>5. n \in 1..(Typings + 1) /\ n \notin E!Typed
  <2> HIDE DEF Fresh
  <2> QED
    BY <1>4 DEF E!NextText
<1> QED
  BY <1>5, EditorAssumption

EdStores == [Requests -> [version : 1..Versions, text : E!Text]]

LEMMA EdTypes ==
    ASSUME E!TypeOK
    PROVE  /\ stored \in EdStores /\ EdCalls = Slots \ E!Free(asked)
           /\ \A s \in EdCalls : asked[s] \in E!Call
           /\ \A c \in E!Call : /\ c # E!Idle /\ c.version \in Nat /\ c.doc \in Requests
                                /\ c.op \in {"load", "save", "colour"}
           /\ \A st \in EdStores : \A d \in Requests : st[d].version \in Nat /\ st[d].text \in E!Text
           /\ \A t \in held : t.n \in E!Typed
           /\ buffer.n \in E!Typed
           /\ \A s \in EdCalls : asked[s].text.n \in E!Typed
<1>1. /\ \A s \in EdCalls : asked[s] \in E!Call
      /\ EdCalls = Slots \ E!Free(asked)
  BY DEF E!TypeOK, EdCalls, E!Free
<1>2. \A c \in E!Call : /\ c # E!Idle /\ c.version \in Nat /\ c.doc \in Requests
                        /\ c.op \in {"load", "save", "colour"}
  BY EditorAssumption DEF E!Call, E!Idle
<1>3. \A st \in EdStores : \A d \in Requests : st[d].version \in Nat /\ st[d].text \in E!Text
  BY EditorAssumption DEF EdStores
<1>4. \A s \in EdCalls : asked[s].text \in E!Sent
  BY <1>1 DEF E!Sent
<1>5. stored \in EdStores
  BY DEF E!TypeOK, EdStores
<1> QED
  BY <1>1, <1>2, <1>3, <1>4, <1>5 DEF E!Typed

\* The server goes on: to new versions, and to texts of others that are new.
EdGoes ==
    /\ stored' \in EdStores
    /\ \A d \in Requests : stored'[d] = stored[d] \/ stored[d].version < stored'[d].version
    /\ held \subseteq held'
    /\ \A t \in unseen' : t \in unseen \/ t.n \notin E!Typed

LEMMA EdStays ==
    ASSUME EditorInv, EdGoes
    PROVE  /\ \A d \in Requests : \A v \in Nat :
                 EdKnows(stored, unseen, d, v) => EdKnows(stored', unseen', d, v)
           /\ \A t : t.n \in E!Typed /\ t \notin unseen => t \notin unseen'
           /\ \A s \in EdCalls : \A there \in BOOLEAN :
                 (EdUpdate(asked[s]) /\ asked[s].heard => there) =>
                    EdCall(stored', held', unseen', there, asked[s])
           /\ EdHold(asked, stored', held', unseen', current.doc # NoDoc)
           /\ EdHold(asked, stored', held', unseen', TRUE)
<1>0. E!TypeOK /\ stored' \in EdStores
  BY DEF EditorInv, EdGoes
<1>1. \A t : t.n \in E!Typed /\ t \notin unseen => t \notin unseen'
  BY DEF EdGoes
<1>2. ASSUME NEW d \in Requests, NEW v \in Nat, EdKnows(stored, unseen, d, v)
      PROVE  EdKnows(stored', unseen', d, v)
  <2>1. /\ stored[d].version \in Nat /\ stored'[d].version \in Nat
        /\ stored[d].text \in held /\ stored[d].text.n \in E!Typed
    BY <1>0, EdTypes DEF EditorInv
  <2>2. CASE stored'[d] = stored[d]
    BY <1>1, <1>2, <2>1, <2>2 DEF EdKnows
  <2>3. CASE stored[d].version < stored'[d].version
    BY <1>2, <2>1, <2>3 DEF EdKnows
  <2> QED
    BY <2>2, <2>3 DEF EdGoes
<1>3. ASSUME NEW s \in EdCalls, NEW there \in BOOLEAN,
             EdUpdate(asked[s]) /\ asked[s].heard => there
      PROVE  EdCall(stored', held', unseen', there, asked[s])
  <2> DEFINE c == asked[s]
  <2>1. /\ c.version \in Nat /\ c.doc \in Requests /\ c.text.n \in E!Typed
        /\ c.op \in {"load", "save", "colour"} /\ c.version + 1 \in Nat
    BY <1>0, EdTypes
  <2>2. EdCall(stored, held, unseen, current.doc # NoDoc, c)
    BY DEF EditorInv, EdHold, EdCalls
  <2> HIDE DEF c
  <2>3. ASSUME c.op = "load", c.at = "ok"
        PROVE  /\ c.text \in held' /\ c.version <= stored'[c.doc].version
               /\ c.version = stored'[c.doc].version => c.text = stored'[c.doc].text
    <3>1. /\ c.text \in held /\ c.version <= stored[c.doc].version
          /\ c.version = stored[c.doc].version => c.text = stored[c.doc].text
      BY <2>2, <2>3 DEF EdCall
    <3>2. stored[c.doc].version \in Nat /\ stored'[c.doc].version \in Nat
      BY <1>0, <2>1, EdTypes
    <3> QED
      BY <2>1, <3>1, <3>2 DEF EdGoes
  <2>4. EdUpdate(c) => /\ c.heard => there
                       /\ c.op = "save" => c.text \in E!Text /\ c.text \notin unseen'
                       /\ c.at = "sent" => EdKnows(stored', unseen', c.doc, c.version)
                       /\ c.at = "ok" => /\ EdKnows(stored', unseen', c.doc, c.version + 1)
                                         /\ c.op = "save" => c.text \in held'
    BY <1>1, <1>2, <1>3, <2>1, <2>2 DEF EdCall, EdGoes, c
  <2> QED
    BY <2>2, <2>3, <2>4 DEF EdCall, c
<1>4. \A s \in EdCalls : EdUpdate(asked[s]) /\ asked[s].heard => current.doc # NoDoc
  BY DEF EditorInv, EdHold, EdCalls, EdCall
<1>5. EdHold(asked, stored', held', unseen', current.doc # NoDoc)
  BY <1>3, <1>4 DEF EdHold, EdCalls
<1>6. EdHold(asked, stored', held', unseen', TRUE)
  BY <1>3 DEF EdHold, EdCalls
<1> QED
  BY <1>1, <1>2, <1>3, <1>5, <1>6

EdArrays == [Slots -> E!Call \cup {E!Idle}]

LEMMA EdPut ==
    ASSUME NEW calls \in EdArrays, NEW s \in Slots, NEW c \in E!Call \cup {E!Idle},
           NEW st, NEW texts, NEW unread, NEW there,
           EdHold(calls, st, texts, unread, there),
           c # E!Idle => EdCall(st, texts, unread, there, c)
    PROVE  /\ [calls EXCEPT ![s] = c] \in EdArrays
           /\ EdHold([calls EXCEPT ![s] = c], st, texts, unread, there)
<1> DEFINE after == [calls EXCEPT ![s] = c]
<1>1. after \in EdArrays /\ \A t \in Slots : after[t] = IF t = s THEN c ELSE calls[t]
  BY DEF EdArrays
<1> HIDE DEF after
<1>2. EdHold(after, st, texts, unread, there)
  BY <1>1 DEF EdHold
<1> QED
  BY <1>1, <1>2 DEF after

LEMMA EdQueue ==
    ASSUME NEW calls \in EdArrays, E!Free(calls) # {}, NEW c \in E!Call,
           NEW st, NEW texts, NEW unread, NEW there,
           EdHold(calls, st, texts, unread, there), EdCall(st, texts, unread, there, c)
    PROVE  /\ E!Queued(calls, c) \in EdArrays
           /\ EdHold(E!Queued(calls, c), st, texts, unread, there)
<1>1. PICK s \in E!Free(calls) : E!Queued(calls, c) = [calls EXCEPT ![s] = c]
  BY EdQueued
<1>2. s \in Slots
  BY DEF E!Free
<1>3. c \in E!Call \cup {E!Idle}
  OBVIOUS
<1>4. /\ [calls EXCEPT ![s] = c] \in EdArrays
      /\ EdHold([calls EXCEPT ![s] = c], st, texts, unread, there)
  BY <1>2, <1>3, EdPut
<1> QED
  BY <1>1, <1>4

LEMMA EdInit == E!Init => EditorInv
<1> SUFFICES ASSUME E!Init PROVE EditorInv
  OBVIOUS
<1>1. /\ 1 \in 1..Versions /\ 0 \in 0..Typings
      /\ \A d \in Requests : E!First(d) \in E!Text
  BY EditorAssumption DEF E!First, E!Text
<1>2. E!TypeOK
  BY <1>1 DEF E!Init, E!TypeOK
<1>3. EdHold(asked, stored, held, unseen, current.doc # NoDoc)
  BY DEF EdHold, E!Init
<1>4. current.doc = NoDoc /\ unseen = {} /\ view = "loading" /\ \A d \in Requests : stored[d].text \in held
  BY DEF E!Init
<1> QED
  BY <1>2, <1>3, <1>4 DEF EditorInv, EdCurrent, E!SavedIsStored

LEMMA EdTyping ==
    ASSUME EditorInv, E!Type
    PROVE  EditorInv' /\ E!OthersAreSeen
<1> DEFINE n == E!NextText
<1>0. E!TypeOK
  BY DEF EditorInv
<1>1. n \in 1..Typings /\ n \notin E!Typed
  BY <1>0, EdNextText, EditorAssumption DEF E!Type
<1>2. /\ buffer' = [buffer EXCEPT !.n = n] /\ last' = [last EXCEPT ![buffer.of] = buffer']
      /\ label' = "unsaved" /\ view = "shown"
      /\ UNCHANGED <<stored, shown, view, current, locked, asked, held, unseen>>
  BY DEF E!Type
<1> HIDE DEF n
<1>3. buffer \in E!Text /\ current.doc # NoDoc
  BY <1>2 DEF EditorInv, EdCurrent
<1>4. buffer' \in E!Text /\ buffer'.n = n /\ buffer.of \in Requests
  BY <1>1, <1>2, <1>3 DEF E!Text
<1>5. buffer' \notin unseen
  BY <1>0, <1>1, <1>4, EdTypes DEF E!TypeOK
<1>6. E!TypeOK'
  BY <1>0, <1>2, <1>4 DEF E!TypeOK
<1> QED
  BY <1>2, <1>4, <1>5, <1>6 DEF EditorInv, EdCurrent, E!SavedIsStored, E!OthersAreSeen, EdHold, EdKnows

\* The requests: nothing but the editor itself moves, and the store stays.
LEMMA EdSaving ==
    ASSUME EditorInv, current.doc # NoDoc
    PROVE  /\ E!Saving \in E!Call /\ E!Colouring \in E!Call
           /\ \A there \in BOOLEAN :
                /\ EdCall(stored, held, unseen, there, [E!Saving EXCEPT !.heard = FALSE])
                /\ EdCall(stored, held, unseen, TRUE, E!Saving)
                /\ EdCall(stored, held, unseen, TRUE, E!Colouring)
           /\ [E!Saving EXCEPT !.heard = FALSE] \in E!Call
<1>1. /\ current.doc \in Requests /\ current.version \in 1..Versions
      /\ buffer \in E!Text /\ buffer \notin unseen
      /\ EdKnows(stored, unseen, current.doc, current.version)
  BY DEF EditorInv, E!TypeOK, EdCurrent
<1> QED
  BY <1>1 DEF E!Saving, E!Colouring, E!Call, EdCall, EdUpdate

LEMMA EdLoading ==
    ASSUME NEW d \in Requests
    PROVE  /\ E!Loading(d) \in E!Call
           /\ \A st, texts, unread, there : EdCall(st, texts, unread, there, E!Loading(d))
BY EditorAssumption DEF E!Loading, E!Call, EdCall, EdUpdate

LEMMA EdSaveAndColour ==
    ASSUME EditorInv, E!Save \/ E!Colour
    PROVE  EditorInv' /\ E!OthersAreSeen
<1>1. /\ UNCHANGED <<stored, shown, view, current, buffer, locked, last, held, unseen>>
      /\ label' \in {"saving", label} /\ current.doc # NoDoc /\ E!Free(asked) # {}
      /\ asked' = E!Queued(asked, E!Saving) \/ asked' = E!Queued(asked, E!Colouring)
  BY DEF E!Save, E!Colour, E!editor, E!history
<1>2. asked \in EdArrays /\ EdHold(asked, stored, held, unseen, current.doc # NoDoc)
  BY DEF EditorInv, E!TypeOK, EdArrays
<1>3. asked' \in EdArrays /\ EdHold(asked', stored, held, unseen, current.doc # NoDoc)
  BY <1>1, <1>2, EdQueue, EdSaving
<1>4. E!TypeOK'
  BY <1>1, <1>3 DEF EditorInv, E!TypeOK, EdArrays
<1> QED
  BY <1>1, <1>3, <1>4 DEF EditorInv, EdCurrent, E!SavedIsStored, E!OthersAreSeen, EdKnows

\* Without its loads, and with what is still to be saved.
LEMMA EdCancels ==
    ASSUME EditorInv
    PROVE  /\ E!Cancelled \in EdArrays
           /\ EdHold(E!Cancelled, stored, held, unseen, current.doc # NoDoc)
           /\ \A s \in Slots : E!Cancelled[s] # E!Idle =>
                 E!Cancelled[s] = asked[s] /\ asked[s].op # "load"
<1>1. asked \in EdArrays
  BY DEF EditorInv, E!TypeOK, EdArrays
<1> DEFINE calls == E!Cancelled
<1>2. calls = [s \in Slots |-> IF asked[s] # E!Idle /\ asked[s].op = "load" THEN E!Idle ELSE asked[s]]
  BY DEF E!Cancelled
<1> HIDE DEF calls
<1>3. calls \in EdArrays
  BY <1>1, <1>2 DEF EdArrays
<1>4. \A s \in Slots : calls[s] # E!Idle => calls[s] = asked[s] /\ asked[s].op # "load"
  BY <1>2
<1>5. EdHold(calls, stored, held, unseen, current.doc # NoDoc)
  BY <1>4 DEF EdHold, EditorInv
<1> QED
  BY <1>3, <1>4, <1>5 DEF calls

LEMMA EdFlushes ==
    ASSUME EditorInv, E!Pending => E!Free(E!Cancelled) # {}
    PROVE  /\ E!Flushed(E!Cancelled) \in EdArrays
           /\ EdHold(E!Flushed(E!Cancelled), stored, held, unseen, current.doc # NoDoc)
           /\ \A s \in Slots : E!Flushed(E!Cancelled)[s] # E!Idle =>
                 E!Flushed(E!Cancelled)[s].op # "load"
<1> DEFINE calls == E!Cancelled
           c == [E!Saving EXCEPT !.heard = FALSE]
<1>1. /\ calls \in EdArrays /\ EdHold(calls, stored, held, unseen, current.doc # NoDoc)
      /\ \A s \in Slots : calls[s] # E!Idle => calls[s].op # "load"
  BY EdCancels
<1>2. CASE ~E!Pending
  BY <1>1, <1>2 DEF E!Flushed
<1>3. CASE E!Pending
  <2>1. E!Flushed(calls) = E!Queued(calls, c)
    BY <1>3 DEF E!Flushed
  <2>2. c \in E!Call /\ EdCall(stored, held, unseen, current.doc # NoDoc, c) /\ c.op = "save"
    BY <1>3, EdSaving DEF E!Pending, E!Saving
  <2> HIDE DEF calls, c
  <2>3. PICK s \in E!Free(calls) : E!Queued(calls, c) = [calls EXCEPT ![s] = c]
    BY <1>3, EdQueued DEF calls
  <2>4. \A t \in Slots : E!Queued(calls, c)[t] = IF t = s THEN c ELSE calls[t]
    BY <1>1, <2>3 DEF EdArrays
  <2> QED
    BY <1>1, <1>3, <2>1, <2>2, <2>4, EdQueue DEF calls
<1> QED
  BY <1>2, <1>3

LEMMA EdCounts == \A S : E!Cardinality(S) = Cardinality(S)
BY Zenon DEF E!Cardinality, Cardinality

LEMMA EdRoom ==
    ASSUME EditorInv, E!Cardinality(E!Free(E!Cancelled)) >= (IF E!Pending THEN 2 ELSE 1)
    PROVE  E!Free(E!Cancelled) # {} /\ E!Free(E!Flushed(E!Cancelled)) # {}
<1> DEFINE calls == E!Cancelled
           F == E!Free(calls)
           c == [E!Saving EXCEPT !.heard = FALSE]
<1>1. IsFiniteSet(F) /\ Cardinality(F) >= (IF E!Pending THEN 2 ELSE 1)
  <2>1. F \subseteq Slots
    BY DEF E!Free
  <2> QED
    BY <2>1, EditorAssumption, FS_Subset, EdCounts
<1>2. calls \in EdArrays
  BY EdCancels
<1>3. E!Pending => c # E!Idle /\ E!Flushed(calls) = E!Queued(calls, c)
  BY DEF E!Pending, E!Flushed, E!Saving, E!Idle
<1>4. ~E!Pending => E!Flushed(calls) = calls
  BY DEF E!Flushed
<1> HIDE DEF calls, c
<1>5. F # {} /\ (E!Pending => \A s \in F : F # {s})
  <2> HIDE DEF F
  <2>1. Cardinality({}) = 0 /\ \A s : Cardinality({s}) = 1
    BY FS_EmptySet, FS_Singleton
  <2>2. ASSUME F = {} PROVE FALSE
    BY <1>1, <2>1, <2>2
  <2>3. ASSUME E!Pending, NEW s \in F, F = {s} PROVE FALSE
    <3>1. Cardinality(F) = 1
      BY <2>1, <2>3
    <3>2. Cardinality(F) >= 2
      BY <1>1, <2>3
    <3> QED
      BY <3>1, <3>2
  <2> QED
    BY <2>2, <2>3
<1>6. ASSUME E!Pending PROVE E!Free(E!Flushed(calls)) # {}
  <2>1. PICK s \in F : E!Queued(calls, c) = [calls EXCEPT ![s] = c]
    BY <1>5, EdQueued
  <2>2. PICK t \in F : t # s
    <3> HIDE DEF F
    <3> QED
      BY <1>5, <1>6
  <2>3. t \in Slots /\ calls[t] = E!Idle
    BY DEF E!Free
  <2>4. E!Queued(calls, c)[t] = E!Idle
    BY <1>2, <2>1, <2>2, <2>3 DEF EdArrays
  <2> QED
    BY <1>3, <1>6, <2>3, <2>4 DEF E!Free
<1> QED
  BY <1>4, <1>5, <1>6 DEF calls

LEMMA EdSwitches ==
    ASSUME EditorInv, NEW d \in Requests, E!Switch(d)
    PROVE  EditorInv' /\ E!OthersAreSeen
<1>1. /\ UNCHANGED <<stored, current, buffer, label, locked, last, held, unseen>>
      /\ shown' = d /\ view' = "loading"
      /\ asked' = E!Queued(E!Flushed(E!Cancelled), E!Loading(d))
      /\ E!Cardinality(E!Free(E!Cancelled)) >= (IF E!Pending THEN 2 ELSE 1)
  BY DEF E!Switch, E!history
<1>2. E!Free(E!Cancelled) # {} /\ E!Free(E!Flushed(E!Cancelled)) # {}
  BY <1>1, EdRoom
<1>3. asked' \in EdArrays /\ EdHold(asked', stored, held, unseen, current.doc # NoDoc)
  BY <1>1, <1>2, EdFlushes, EdLoading, EdQueue
<1>4. E!TypeOK'
  BY <1>1, <1>3 DEF EditorInv, E!TypeOK, EdArrays
<1> QED
  BY <1>1, <1>3, <1>4 DEF EditorInv, EdCurrent, E!SavedIsStored, E!OthersAreSeen, EdKnows

LEMMA EdCloses ==
    ASSUME EditorInv, E!Close
    PROVE  EditorInv' /\ E!OthersAreSeen
<1> DEFINE calls == E!Flushed(E!Cancelled)
           after == [s \in Slots |-> IF calls[s] = E!Idle \/ calls[s].at # "sent" THEN E!Idle
                                     ELSE [calls[s] EXCEPT !.heard = FALSE]]
<1>1. /\ UNCHANGED <<stored, last, held, unseen>>
      /\ shown' = NoDoc /\ view' = "loading" /\ current' = [doc |-> NoDoc, version |-> 1]
      /\ buffer' = E!NoText /\ label' = "saved" /\ locked' = FALSE
      /\ asked' = after
      /\ E!Pending => E!Free(E!Cancelled) # {}
  BY DEF E!Close, E!history
<1>2. /\ calls \in EdArrays /\ EdHold(calls, stored, held, unseen, current.doc # NoDoc)
      /\ \A s \in Slots : calls[s] # E!Idle => calls[s].op # "load"
  BY <1>1, EdFlushes
<1> HIDE DEF calls
<1>3. ASSUME NEW s \in Slots, after[s] # E!Idle
      PROVE  after[s] \in E!Call /\ EdCall(stored, held, unseen, FALSE, after[s])
  <2>1. calls[s] # E!Idle /\ calls[s].at = "sent" /\ after[s] = [calls[s] EXCEPT !.heard = FALSE]
    BY <1>3
  <2> DEFINE c == calls[s]
  <2>2. c \in E!Call /\ EdCall(stored, held, unseen, current.doc # NoDoc, c) /\ c.op # "load"
    BY <1>2, <2>1 DEF EdArrays, EdHold
  <2> HIDE DEF c
  <2> DEFINE b == [c EXCEPT !.heard = FALSE]
  <2>3. /\ b \in E!Call /\ b.op = c.op /\ b.doc = c.doc /\ b.version = c.version
        /\ b.text = c.text /\ b.at = c.at /\ ~b.heard
    BY <2>2 DEF E!Call
  <2> HIDE DEF b
  <2>4. EdCall(stored, held, unseen, FALSE, b)
    BY <2>1, <2>2, <2>3 DEF EdCall, EdUpdate, c
  <2> QED
    BY <2>1, <2>3, <2>4 DEF b, c
<1>4. after \in EdArrays
  BY <1>3 DEF EdArrays
<1>5. EdHold(after, stored, held, unseen, FALSE)
  BY <1>3 DEF EdHold
<1> HIDE DEF after
<1>6. E!NoText \notin E!Text /\ 1 \in 1..Versions
  BY EditorAssumption DEF E!NoText, E!Text
<1>7. E!TypeOK'
  BY <1>1, <1>4, <1>6 DEF EditorInv, E!TypeOK, EdArrays
<1>8. buffer' \notin unseen
  BY <1>1, <1>6 DEF EditorInv, E!TypeOK
<1>9. (current.doc # NoDoc)' = FALSE
  BY <1>1
<1> QED
  BY <1>1, <1>5, <1>7, <1>8, <1>9 DEF EditorInv, EdCurrent, E!SavedIsStored, E!OthersAreSeen

LEMMA EdOpens ==
    ASSUME EditorInv, NEW d \in Requests, E!Open(d)
    PROVE  EditorInv' /\ E!OthersAreSeen
<1>1. /\ UNCHANGED <<stored, view, current, buffer, label, locked, last, held, unseen>>
      /\ shown' = d /\ E!Free(asked) # {} /\ asked' = E!Queued(asked, E!Loading(d))
  BY DEF E!Open, E!history
<1>2. asked \in EdArrays /\ EdHold(asked, stored, held, unseen, current.doc # NoDoc)
  BY DEF EditorInv, E!TypeOK, EdArrays
<1>3. asked' \in EdArrays /\ EdHold(asked', stored, held, unseen, current.doc # NoDoc)
  BY <1>1, <1>2, EdLoading, EdQueue
<1>4. E!TypeOK'
  BY <1>1, <1>3 DEF EditorInv, E!TypeOK, EdArrays
<1> QED
  BY <1>1, <1>3, <1>4 DEF EditorInv, EdCurrent, E!SavedIsStored, E!OthersAreSeen, EdKnows

LEMMA EdTroubles ==
    ASSUME EditorInv, E!OtherFails \/ E!Beat \/ UNCHANGED E!vars
    PROVE  EditorInv' /\ E!OthersAreSeen
<1>1. /\ UNCHANGED <<stored, shown, view, current, buffer, asked, last, held, unseen>>
      /\ locked' \in BOOLEAN /\ label' \in {"error", label}
  BY DEF E!OtherFails, E!Beat, E!editor, E!history, E!vars, EditorInv, E!TypeOK
<1>2. E!TypeOK'
  BY <1>1 DEF EditorInv, E!TypeOK
<1> QED
  BY <1>1, <1>2 DEF EditorInv, EdCurrent, E!SavedIsStored, E!OthersAreSeen, EdKnows, EdHold

LEMMA EdOtherSaves ==
    ASSUME EditorInv, NEW d \in Requests, E!OtherSaves(d)
    PROVE  EditorInv' /\ E!OthersAreSeen
<1> DEFINE text0 == [of |-> d, n |-> E!NextText]
<1>0. E!TypeOK /\ \A e \in Requests : stored[e].text \in held
  BY DEF EditorInv
<1>1. /\ UNCHANGED <<shown, view, current, buffer, label, locked, asked, last>>
      /\ stored' = [stored EXCEPT ![d] = [version |-> stored[d].version + 1, text |-> text0]]
      /\ held' = held \cup {text0} /\ unseen' = unseen \cup {text0}
      /\ E!NextText <= Typings /\ stored[d].version < Versions
  BY DEF E!OtherSaves, E!editor
<1>2. text0 \in E!Text /\ text0.n \notin E!Typed
  BY <1>0, <1>1, EdNextText, EditorAssumption DEF E!Text
<1> HIDE DEF text0
<1>3. stored \in EdStores /\ stored[d].version + 1 \in 1..Versions /\ stored[d].version \in Nat
  BY <1>0, <1>1, EdTypes, EditorAssumption DEF EdStores
<1>4. /\ stored' \in EdStores
      /\ stored'[d] = [version |-> stored[d].version + 1, text |-> text0]
      /\ \A e \in Requests \ {d} : stored'[e] = stored[e]
  BY <1>1, <1>2, <1>3 DEF EdStores
<1>5. EdGoes
  BY <1>1, <1>2, <1>3, <1>4 DEF EdGoes
<1>6. /\ EdHold(asked, stored', held', unseen', current.doc # NoDoc)
      /\ \A e \in Requests : \A v \in Nat :
            EdKnows(stored, unseen, e, v) => EdKnows(stored', unseen', e, v)
      /\ buffer \notin unseen'
  BY <1>0, <1>5, EdStays, EdTypes DEF EditorInv
<1>7. E!TypeOK'
  BY <1>0, <1>1, <1>2, <1>4 DEF E!TypeOK, EdStores
<1>8. \A e \in Requests : stored'[e].text \in held'
  BY <1>0, <1>1, <1>4
<1>9. current.doc # NoDoc => current.doc \in Requests /\ current.version \in Nat
  BY <1>0, EditorAssumption DEF E!TypeOK
<1>10. EdCurrent'
  BY <1>1, <1>6, <1>9 DEF EditorInv, EdCurrent
<1>11. E!OthersAreSeen
  BY <1>1, <1>4 DEF E!OthersAreSeen
<1> QED
  BY <1>1, <1>6, <1>7, <1>8, <1>10, <1>11 DEF EditorInv, E!SavedIsStored

\* What the calls of this editor become when the server answers.
LEMMA EdServesLoad ==
    ASSUME EditorInv, NEW s \in EdCalls, asked[s].at = "sent", E!ServeLoad(s),
           UNCHANGED <<E!editor, locked, last, unseen>>
    PROVE  EditorInv' /\ E!OthersAreSeen
<1> DEFINE c == asked[s]
           b == [c EXCEPT !.at = "ok", !.version = stored[c.doc].version,
                          !.text = stored[c.doc].text]
<1>0. E!TypeOK /\ \A e \in Requests : stored[e].text \in held
  BY DEF EditorInv
<1>1. /\ UNCHANGED <<stored, shown, view, current, buffer, label, locked, last, held, unseen>>
      /\ asked' = [asked EXCEPT ![s] = b] /\ c.op = "load"
  BY DEF E!ServeLoad, E!editor
<1>2. /\ c \in E!Call /\ s \in Slots /\ asked \in EdArrays
      /\ EdCall(stored, held, unseen, current.doc # NoDoc, c)
      /\ EdHold(asked, stored, held, unseen, current.doc # NoDoc)
  BY <1>0, EdTypes DEF EditorInv, E!TypeOK, EdArrays, EdHold, EdCalls
<1> HIDE DEF c
<1>3. stored[c.doc].version \in 1..Versions /\ stored[c.doc].text \in E!Text /\ stored[c.doc].text \in held
  BY <1>0, <1>2 DEF E!Call, E!TypeOK
<1>4. /\ b \in E!Call /\ b.op = "load" /\ b.doc = c.doc /\ b.at = "ok" /\ b.heard = c.heard
      /\ b.version = stored[c.doc].version /\ b.text = stored[c.doc].text
  BY <1>1, <1>2, <1>3 DEF E!Call
<1> HIDE DEF b
<1>5. EdCall(stored, held, unseen, current.doc # NoDoc, b)
  BY <1>1, <1>2, <1>3, <1>4 DEF EdCall, EdUpdate
<1>6. asked' \in EdArrays /\ EdHold(asked', stored, held, unseen, current.doc # NoDoc)
  <2>1. b \in E!Call \cup {E!Idle}
    BY <1>4
  <2> QED
    BY <1>1, <1>2, <1>5, <2>1, EdPut
<1>7. E!TypeOK'
  BY <1>0, <1>1, <1>6 DEF E!TypeOK, EdArrays
<1> QED
  BY <1>1, <1>6, <1>7 DEF EditorInv, EdCurrent, E!SavedIsStored, E!OthersAreSeen, EdKnows

LEMMA EdAnswered ==
    ASSUME NEW s \in Slots, asked \in EdArrays, NEW b \in E!Call, E!Answered(s, b),
           NEW st, NEW texts, NEW unread, NEW there,
           EdHold(asked, st, texts, unread, there), b.heard => EdCall(st, texts, unread, there, b)
    PROVE  asked' \in EdArrays /\ EdHold(asked', st, texts, unread, there)
<1> DEFINE a == IF b.heard THEN b ELSE E!Idle
<1>1. asked' = [asked EXCEPT ![s] = a]
  BY DEF E!Answered
<1>2. a \in E!Call \cup {E!Idle} /\ (a # E!Idle => EdCall(st, texts, unread, there, a))
  OBVIOUS
<1> HIDE DEF a
<1> QED
  BY <1>1, <1>2, EdPut

LEMMA EdServesUpdate ==
    ASSUME EditorInv, NEW s \in EdCalls, asked[s].at = "sent",
           NEW outcome \in {"ok", "failed"}, E!ServeUpdate(s, outcome),
           UNCHANGED <<E!editor, locked, last, unseen>>
    PROVE  EditorInv' /\ E!OthersAreSeen
<1> DEFINE c == asked[s]
<1>0. E!TypeOK /\ \A e \in Requests : stored[e].text \in held
  BY DEF EditorInv
<1>1. UNCHANGED <<shown, view, current, buffer, label, locked, last, unseen>> /\ EdUpdate(c)
  BY DEF E!ServeUpdate, E!editor, EdUpdate
<1>2. /\ c \in E!Call /\ s \in Slots /\ asked \in EdArrays
      /\ EdCall(stored, held, unseen, current.doc # NoDoc, c)
      /\ EdHold(asked, stored, held, unseen, current.doc # NoDoc)
      /\ c.doc \in Requests /\ c.version \in Nat \ {0} /\ c.op # "load"
  BY <1>0, <1>1, EdTypes, EditorAssumption DEF EditorInv, E!TypeOK, EdArrays, EdHold, EdCalls, E!Call, EdUpdate
<1>3. ASSUME c.version # stored[c.doc].version PROVE EditorInv' /\ E!OthersAreSeen
  <2> DEFINE b == [c EXCEPT !.at = "stale"]
  <2>1. UNCHANGED <<stored, held>> /\ E!Answered(s, b)
    BY <1>3 DEF E!ServeUpdate
  <2> HIDE DEF c
  <2>2. /\ b \in E!Call /\ b.op = c.op /\ b.doc = c.doc /\ b.at = "stale" /\ b.heard = c.heard
        /\ b.version = c.version /\ b.text = c.text
    BY <1>2 DEF E!Call
  <2> HIDE DEF b
  <2>3. b.heard => EdCall(stored, held, unseen, current.doc # NoDoc, b)
    BY <1>2, <2>2 DEF EdCall, EdUpdate
  <2>4. asked' \in EdArrays /\ EdHold(asked', stored, held, unseen, current.doc # NoDoc)
    BY <1>2, <2>1, <2>2, <2>3, EdAnswered
  <2>5. E!TypeOK'
    BY <1>0, <1>1, <2>1, <2>4 DEF E!TypeOK, EdArrays
  <2> QED
    BY <1>1, <2>1, <2>4, <2>5 DEF EditorInv, EdCurrent, E!SavedIsStored, E!OthersAreSeen, EdKnows
<1>4. ASSUME c.version = stored[c.doc].version PROVE EditorInv' /\ E!OthersAreSeen
  <2> DEFINE b == [c EXCEPT !.at = outcome]
             new == E!Stored(c)
  <2>1. /\ c.version < Versions /\ stored' = [stored EXCEPT ![c.doc] = new]
        /\ held' = held \cup {new.text} /\ E!Answered(s, b)
    BY <1>4 DEF E!ServeUpdate
  <2>2. /\ new.version = c.version + 1
        /\ new.text = IF c.op = "save" THEN c.text ELSE stored[c.doc].text
        /\ new = [version |-> c.version + 1, text |-> new.text]
    BY DEF E!Stored
  <2> HIDE DEF c, new
  <2>3. /\ b \in E!Call /\ b.op = c.op /\ b.doc = c.doc /\ b.at = outcome /\ b.heard = c.heard
        /\ b.version = c.version /\ b.text = c.text
    BY <1>2 DEF E!Call
  <2> HIDE DEF b
  <2>4. stored[c.doc].text \notin unseen /\ stored[c.doc].text \in E!Text
    BY <1>1, <1>2, <1>4, <1>0 DEF EdCall, EdKnows, c, E!TypeOK
  <2>5. new.text \in E!Text /\ new.text \notin unseen
    BY <1>1, <1>2, <2>2, <2>4 DEF EdCall
  <2>6. c.version + 1 \in 1..Versions
    BY <1>2, <2>1, EditorAssumption
  <2>7. /\ stored' \in EdStores /\ stored'[c.doc] = new
        /\ \A e \in Requests \ {c.doc} : stored'[e] = stored[e]
    BY <1>0, <1>2, <2>1, <2>2, <2>5, <2>6, EdTypes DEF EdStores
  <2>8. EdGoes
    BY <1>1, <1>2, <1>4, <2>1, <2>2, <2>7 DEF EdGoes
  <2>9. /\ EdHold(asked, stored', held', unseen', current.doc # NoDoc)
        /\ \A e \in Requests : \A v \in Nat :
              EdKnows(stored, unseen, e, v) => EdKnows(stored', unseen', e, v)
    BY <2>8, EdStays
  <2>10. b.heard => EdCall(stored', held', unseen', current.doc # NoDoc, b)
    <3>1. b.heard => current.doc # NoDoc
      BY <1>1, <1>2, <2>3 DEF EdCall
    <3>2. EdKnows(stored', unseen', b.doc, b.version + 1)
      BY <1>1, <1>2, <2>2, <2>3, <2>5, <2>7 DEF EdKnows
    <3>3. b.op = "save" => b.text \in held' /\ b.text \in E!Text /\ b.text \notin unseen'
      BY <1>1, <2>1, <2>2, <2>3, <2>5
    <3> QED
      BY <1>1, <1>2, <2>3, <3>1, <3>2, <3>3 DEF EdCall, EdUpdate
  <2>11. asked' \in EdArrays /\ EdHold(asked', stored', held', unseen', current.doc # NoDoc)
    BY <1>2, <2>1, <2>3, <2>9, <2>10, EdAnswered
  <2>12. E!TypeOK'
    BY <1>0, <1>1, <2>1, <2>5, <2>7, <2>11 DEF E!TypeOK, EdArrays, EdStores
  <2>13. \A e \in Requests : stored'[e].text \in held'
    BY <1>0, <2>1, <2>7
  <2>14. current.doc # NoDoc => current.doc \in Requests /\ current.version \in Nat
    BY <1>0, EditorAssumption DEF E!TypeOK
  <2>15. EdCurrent'
    BY <1>1, <2>9, <2>14 DEF EditorInv, EdCurrent
  <2>16. E!OthersAreSeen
    BY <1>1, <1>2, <2>4, <2>7 DEF E!OthersAreSeen
  <2> QED
    BY <1>1, <2>1, <2>11, <2>12, <2>13, <2>15, <2>16 DEF EditorInv, E!SavedIsStored
<1> QED
  BY <1>3, <1>4

LEMMA EdFails ==
    ASSUME EditorInv, NEW s \in EdCalls, asked[s].at = "sent",
           E!Answered(s, [asked[s] EXCEPT !.at = "failed"]), UNCHANGED <<stored, held>>,
           UNCHANGED <<E!editor, locked, last, unseen>>
    PROVE  EditorInv' /\ E!OthersAreSeen
<1> DEFINE c == asked[s]
           b == [c EXCEPT !.at = "failed"]
<1>0. E!TypeOK
  BY DEF EditorInv
<1>1. UNCHANGED <<stored, shown, view, current, buffer, label, locked, last, held, unseen>>
  BY DEF E!editor
<1>2. /\ c \in E!Call /\ s \in Slots /\ asked \in EdArrays
      /\ EdCall(stored, held, unseen, current.doc # NoDoc, c)
      /\ EdHold(asked, stored, held, unseen, current.doc # NoDoc)
  BY <1>0, EdTypes DEF EditorInv, E!TypeOK, EdArrays, EdHold, EdCalls
<1>3. E!Answered(s, b)
  OBVIOUS
<1> HIDE DEF c
<1>4. /\ b \in E!Call /\ b.op = c.op /\ b.doc = c.doc /\ b.at = "failed" /\ b.heard = c.heard
      /\ b.version = c.version /\ b.text = c.text
  BY <1>2 DEF E!Call
<1> HIDE DEF b
<1>5. b.heard => EdCall(stored, held, unseen, current.doc # NoDoc, b)
  BY <1>2, <1>4 DEF EdCall, EdUpdate
<1>6. asked' \in EdArrays /\ EdHold(asked', stored, held, unseen, current.doc # NoDoc)
  BY <1>2, <1>3, <1>4, <1>5, EdAnswered
<1>7. E!TypeOK'
  BY <1>0, <1>1, <1>6 DEF E!TypeOK, EdArrays
<1> QED
  BY <1>1, <1>6, <1>7 DEF EditorInv, EdCurrent, E!SavedIsStored, E!OthersAreSeen, EdKnows

LEMMA EdDone ==
    ASSUME NEW s \in Slots, asked \in EdArrays, E!Done(s),
           NEW st, NEW texts, NEW unread, NEW there, EdHold(asked, st, texts, unread, there)
    PROVE  asked' \in EdArrays /\ EdHold(asked', st, texts, unread, there)
<1>1. asked' = [asked EXCEPT ![s] = E!Idle] /\ E!Idle \in E!Call \cup {E!Idle}
  BY DEF E!Done
<1> QED
  BY <1>1, EdPut

LEMMA EdHearsLoad ==
    ASSUME EditorInv, NEW s \in Slots, E!HearLoad(s)
    PROVE  EditorInv' /\ E!OthersAreSeen
<1> DEFINE c == asked[s]
<1>0. E!TypeOK /\ \A e \in Requests : stored[e].text \in held
  BY DEF EditorInv
<1>1. /\ UNCHANGED <<stored, shown, locked, last, held>> /\ E!Done(s)
      /\ c # E!Idle /\ c.op = "load" /\ c.at \in {"ok", "failed"}
  BY DEF E!HearLoad
<1>2. /\ c \in E!Call /\ s \in EdCalls /\ asked \in EdArrays
      /\ EdCall(stored, held, unseen, current.doc # NoDoc, c)
      /\ EdHold(asked, stored, held, unseen, current.doc # NoDoc)
  BY <1>0, <1>1, EdTypes DEF EditorInv, E!TypeOK, EdArrays, EdHold, EdCalls
<1>3. ASSUME c.at # "ok" PROVE EditorInv' /\ E!OthersAreSeen
  <2>1. view' = "failed" /\ UNCHANGED <<current, buffer, label, unseen>>
    BY <1>3 DEF E!HearLoad
  <2>2. asked' \in EdArrays /\ EdHold(asked', stored, held, unseen, current.doc # NoDoc)
    BY <1>1, <1>2, EdDone
  <2>3. E!TypeOK'
    BY <1>0, <1>1, <2>1, <2>2 DEF E!TypeOK, EdArrays
  <2> QED
    BY <1>1, <2>1, <2>2, <2>3 DEF EditorInv, EdCurrent, E!SavedIsStored, E!OthersAreSeen, EdKnows
<1>4. ASSUME c.at = "ok" PROVE EditorInv' /\ E!OthersAreSeen
  <2>1. /\ view' = "shown" /\ label' = "saved" /\ buffer' = c.text
        /\ current' = [doc |-> c.doc, version |-> c.version]
        /\ unseen' = unseen \ {c.text}
    BY <1>4 DEF E!HearLoad
  <2> HIDE DEF c
  <2>2. /\ c.text \in held /\ c.version <= stored[c.doc].version
        /\ c.version = stored[c.doc].version => c.text = stored[c.doc].text
        /\ c.doc \in Requests /\ c.version \in 1..Versions
    BY <1>1, <1>2, <1>4 DEF EdCall, E!Call
  <2>3. c.text \in E!Text /\ unseen' \subseteq held /\ NoDoc \notin Requests
    BY <1>0, <2>1, <2>2, EditorAssumption DEF E!TypeOK
  <2>4. EdGoes
    BY <1>0, <1>1, <2>1, EdTypes DEF EdGoes
  <2>5. EdHold(asked, stored, held, unseen', TRUE)
    BY <1>1, <2>4, EdStays
  <2>6. asked' \in EdArrays /\ EdHold(asked', stored, held, unseen', TRUE)
    BY <1>1, <1>2, <2>5, EdDone
  <2>7. E!TypeOK'
    BY <1>0, <1>1, <2>1, <2>2, <2>3, <2>6 DEF E!TypeOK, EdArrays
  <2>8. (current.doc # NoDoc)' = TRUE
    BY <2>1, <2>2, <2>3
  <2>9. EdCurrent'
    BY <1>1, <2>1, <2>2, <2>3 DEF EdCurrent, EdKnows
  <2> QED
    BY <1>0, <1>1, <2>1, <2>2, <2>6, <2>7, <2>8, <2>9 DEF EditorInv, E!SavedIsStored, E!OthersAreSeen
<1> QED
  BY <1>3, <1>4

LEMMA EdHearsUpdate ==
    ASSUME EditorInv, NEW s \in Slots, E!HearSave(s) \/ E!HearColour(s)
    PROVE  EditorInv' /\ E!OthersAreSeen
<1> DEFINE c == asked[s]
<1>0. E!TypeOK /\ \A e \in Requests : stored[e].text \in held
  BY DEF EditorInv
<1>1. /\ UNCHANGED <<stored, shown, view, buffer, locked, last, held, unseen>> /\ E!Done(s)
      /\ c # E!Idle /\ EdUpdate(c) /\ c.at # "sent"
      /\ current' = (IF c.at = "ok" THEN [doc |-> c.doc, version |-> c.version + 1] ELSE current)
      /\ label' \in {"saved", "unsaved", "saving", "conflict", "error"}
      /\ label' = "saved" => \/ label = "saved"
                             \/ c.at = "ok" /\ c.op = "save" /\ buffer = c.text
  BY <1>0 DEF E!HearSave, E!HearColour, E!history, EdUpdate, E!LabelAfter, E!TypeOK
<1>2. /\ c \in E!Call /\ s \in EdCalls /\ asked \in EdArrays
      /\ EdCall(stored, held, unseen, current.doc # NoDoc, c)
      /\ EdHold(asked, stored, held, unseen, current.doc # NoDoc)
  BY <1>0, <1>1, EdTypes DEF EditorInv, E!TypeOK, EdArrays, EdHold, EdCalls
<1> HIDE DEF c
<1>3. current.doc # NoDoc /\ buffer \in E!Text
  BY <1>1, <1>2 DEF EdCall, EditorInv, EdCurrent
<1>4. c.doc \in Requests /\ c.doc # NoDoc /\ c.version \in Nat \ {0}
  BY <1>2, EditorAssumption DEF E!Call
<1>5. c.at = "ok" => EdKnows(stored, unseen, c.doc, c.version + 1) /\ c.version + 1 \in 1..Versions
  <2>1. c.at = "ok" => EdKnows(stored, unseen, c.doc, c.version + 1)
    BY <1>1, <1>2 DEF EdCall
  <2>2. stored[c.doc].version \in 1..Versions
    BY <1>0, <1>4 DEF E!TypeOK
  <2> QED
    BY <1>4, <2>1, <2>2, EditorAssumption DEF EdKnows
<1>6. asked' \in EdArrays /\ EdHold(asked', stored, held, unseen, current.doc # NoDoc)
  BY <1>1, <1>2, <1>3, EdDone
<1>7. current' \in [doc : Requests \cup {NoDoc}, version : 1..Versions] /\ current'.doc # NoDoc
  BY <1>0, <1>1, <1>3, <1>4, <1>5 DEF E!TypeOK
<1>8. E!TypeOK'
  BY <1>0, <1>1, <1>6, <1>7 DEF E!TypeOK, EdArrays
<1>9. EdCurrent'
  <2>1. CASE c.at = "ok"
    BY <1>1, <1>3, <1>5, <2>1 DEF EdCurrent, EdKnows
  <2>2. CASE c.at # "ok"
    BY <1>1, <2>2 DEF EdCurrent, EditorInv, EdKnows
  <2> QED
    BY <2>1, <2>2
<1>10. (current.doc # NoDoc)' = (current.doc # NoDoc)
  BY <1>3, <1>7
<1>11. E!SavedIsStored'
  <2>1. c.at = "ok" /\ c.op = "save" => c.text \in held
    BY <1>1, <1>2 DEF EdCall
  <2> QED
    BY <1>1, <2>1 DEF EditorInv, E!SavedIsStored
<1> QED
  BY <1>1, <1>3, <1>6, <1>8, <1>9, <1>10, <1>11 DEF EditorInv, E!OthersAreSeen

LEMMA EditorStep == EditorInv /\ [E!Next]_(E!vars) => EditorInv' /\ E!OthersAreSeen
<1> SUFFICES ASSUME EditorInv, [E!Next]_(E!vars) PROVE EditorInv' /\ E!OthersAreSeen
  OBVIOUS
<1>1. CASE E!Type
  BY <1>1, EdTyping
<1>2. CASE E!Save \/ E!Colour
  BY <1>2, EdSaveAndColour
<1>3. CASE \E d \in Requests : E!Switch(d) \/ E!Open(d)
  BY <1>3, EdSwitches, EdOpens
<1>4. CASE E!Close
  BY <1>4, EdCloses
<1>5. ASSUME NEW s \in Slots, E!Serve(s) \/ E!Fail(s) PROVE EditorInv' /\ E!OthersAreSeen
  <2>1. s \in EdCalls /\ asked[s].at = "sent" /\ UNCHANGED <<E!editor, locked, last, unseen>>
    BY <1>5 DEF E!Serve, E!Fail, EdCalls
  <2>2. \/ E!ServeLoad(s) \/ E!ServeUpdate(s, "ok") \/ E!ServeUpdate(s, "failed")
        \/ E!Answered(s, [asked[s] EXCEPT !.at = "failed"]) /\ UNCHANGED <<stored, held>>
    BY <1>5 DEF E!Serve, E!Fail
  <2> QED
    BY <2>1, <2>2, EdServesLoad, EdServesUpdate, EdFails
<1>6. CASE \E s \in Slots : E!HearLoad(s) \/ E!HearSave(s) \/ E!HearColour(s)
  BY <1>6, EdHearsLoad, EdHearsUpdate
<1>7. CASE \E d \in Requests : E!OtherSaves(d)
  BY <1>7, EdOtherSaves
<1>8. CASE E!OtherFails \/ E!Beat \/ UNCHANGED E!vars
  BY <1>8, EdTroubles
<1> QED
  BY <1>1, <1>2, <1>3, <1>4, <1>5, <1>6, <1>7, <1>8 DEF E!Next, E!Ask, E!Answer, E!Trouble

\* One request at a time, and nobody else: the update and the load that may be under way.
EdOne == \A s, t \in EdCalls : (EdUpdate(asked[s]) <=> EdUpdate(asked[t])) => s = t

\* A load is for the document that is shown, and finds what was typed into it.  An
\* update that is awaited is of the document on the screen and succeeds; one that is not
\* succeeds only on a document that was left, with the text last typed into it.
EdSerialCall(st, typed, on, screen, cur, c) ==
    /\ c.op = "load" =>
          /\ c.doc = on /\ screen = "loading" /\ c.at \in {"sent", "ok"}
          /\ c.at = "ok" => c.version = st[on].version /\ c.text = typed[on]
    /\ EdUpdate(c) /\ c.heard =>
          /\ c.doc = cur.doc /\ c.version = cur.version /\ screen = "shown"
          /\ \/ c.at = "sent" /\ c.version = st[c.doc].version
             \/ /\ c.at = "ok" /\ c.version + 1 = st[c.doc].version
                /\ c.op = "save" => st[c.doc].text = c.text
    /\ EdUpdate(c) /\ ~c.heard =>
          /\ c.op = "save" /\ c.at = "sent" /\ c.version <= st[c.doc].version
          /\ c.version = st[c.doc].version => c.doc # on /\ c.text = typed[c.doc]

EdSerialCalls == \A s \in EdCalls : EdSerialCall(stored, last, shown, view, current, asked[s])

EdQuiet == ~locked /\ label \notin {"conflict", "error"} /\ view # "failed"

EdAwaited == \E s \in EdCalls : EdUpdate(asked[s]) /\ asked[s].heard

EdScreen ==
    /\ view = "shown" =>
          /\ shown # NoDoc /\ current.doc = shown /\ buffer = last[shown]
          /\ ~EdAwaited => current.version = stored[shown].version
    /\ view = "shown" \/ shown = NoDoc \/ \E s \in EdCalls : asked[s].op = "load"

\* What was unsaved when its document was left is saved, or on its way.
EdLeft ==
    view = "loading" /\ label = "unsaved" /\ current.doc # NoDoc =>
        \/ current.version < stored[current.doc].version
        \/ \E s \in EdCalls : /\ EdUpdate(asked[s]) /\ ~asked[s].heard
                              /\ asked[s].doc = current.doc /\ asked[s].version = current.version

\* The save that is under way will succeed and is of the text last typed.
EdSaves(st, d, text0, c) ==
    c.op = "save" /\ c.at = "sent" /\ c.version = st[d].version /\ c.doc = d /\ c.text = text0

EdKept ==
    \A d \in Requests :
        /\ last[d].of = d
        /\ \/ stored[d].text = last[d]
           \/ d = shown /\ view = "shown" /\ label = "unsaved"
           \/ \E s \in EdCalls : EdSaves(stored, d, last[d], asked[s])

\* What a save that is awaited does not contain is unsaved.
EdTyped == \A s \in EdCalls :
    asked[s].op = "save" /\ asked[s].heard => label = "unsaved" \/ asked[s].text = buffer

EditorSerial == EdOne /\ EdSerialCalls /\ EdQuiet /\ EdScreen /\ EdLeft /\ EdKept /\ EdTyped

LEMMA EdSerialIsKept == EditorInv /\ EditorSerial => E!NothingIsForgotten
<1> SUFFICES ASSUME EditorInv, EditorSerial PROVE E!NothingIsForgotten
  OBVIOUS
<1>1. ASSUME \A s \in Slots : asked[s] = E!Idle, NEW d \in Requests
      PROVE  stored[d].text = last[d] \/ (d = shown /\ label = "unsaved" /\ buffer = last[d])
  <2>1. EdCalls = {}
    BY <1>1 DEF EdCalls
  <2> QED
    BY <2>1 DEF EditorSerial, EdKept, EdScreen
<1> QED
  BY <1>1 DEF EditorSerial, EdQuiet, E!NothingIsForgotten

LEMMA EdSerialInit == E!Init => EditorSerial
<1> SUFFICES ASSUME E!Init PROVE EditorSerial
  OBVIOUS
<1>1. EdCalls = {}
  BY DEF E!Init, EdCalls
<1>2. /\ \A d \in Requests : last[d].of = d /\ stored[d].text = last[d]
      /\ view = "loading" /\ label = "saved" /\ locked = FALSE /\ shown = NoDoc
  BY DEF E!Init, E!First
<1> QED
  BY <1>1, <1>2 DEF EditorSerial, EdOne, EdSerialCalls, EdQuiet, EdScreen, EdLeft, EdKept, EdTyped

LEMMA EdSerialTypes ==
    ASSUME EditorInv, EditorSerial, E!Type
    PROVE  EditorSerial'
<1>0. E!TypeOK
  BY DEF EditorInv
<1> DEFINE n == E!NextText
<1>1. /\ buffer' = [buffer EXCEPT !.n = n] /\ last' = [last EXCEPT ![buffer.of] = buffer']
      /\ label' = "unsaved" /\ view = "shown"
      /\ UNCHANGED <<stored, shown, view, current, locked, asked, held, unseen>>
  BY DEF E!Type
<1> HIDE DEF n
<1>2. /\ shown # NoDoc /\ shown \in Requests /\ current.doc = shown
      /\ buffer = last[shown] /\ buffer.of = shown /\ buffer \in E!Text
  BY <1>0, <1>1 DEF EditorSerial, EdScreen, EdKept, E!TypeOK
<1>3. /\ buffer'.of = shown /\ last'[shown] = buffer'
      /\ \A d \in Requests \ {shown} : last'[d] = last[d]
  BY <1>0, <1>1, <1>2 DEF E!Text, E!TypeOK
<1>4. EdCalls' = EdCalls
  BY <1>1 DEF EdCalls
<1>5. \A s \in EdCalls : asked[s].op # "load" /\ asked[s].doc \in Requests
  BY <1>0, <1>1, EdTypes DEF EditorSerial, EdSerialCalls, EdSerialCall
<1>6. EdSerialCalls'
  BY <1>1, <1>3, <1>4, <1>5 DEF EditorSerial, EdSerialCalls, EdSerialCall
<1>7. EdKept'
  <2>1. \A d \in Requests \ {shown} :
           stored[d].text = last[d] \/ \E s \in EdCalls : EdSaves(stored, d, last[d], asked[s])
    BY DEF EditorSerial, EdKept
  <2> QED
    BY <1>1, <1>2, <1>3, <1>4, <2>1 DEF EditorSerial, EdKept
<1>8. EdScreen'
  BY <1>1, <1>2, <1>3, <1>4 DEF EditorSerial, EdScreen, EdAwaited
<1> QED
  BY <1>1, <1>4, <1>6, <1>7, <1>8 DEF EditorSerial, EdOne, EdQuiet, EdLeft, EdTyped

LEMMA EdWaits ==
    /\ Waiting({}) => EdCalls = {}
    /\ Waiting({"load"}) => \A s \in EdCalls : asked[s].op = "load"
BY DEF Waiting, EdCalls

LEMMA EdSerialAsks ==
    ASSUME EditorInv, EditorSerial, Waiting({}), E!Save \/ E!Colour
    PROVE  EditorSerial'
<1>0. E!TypeOK /\ EdCalls = {}
  BY EdWaits DEF EditorInv
<1>1. /\ UNCHANGED <<stored, shown, view, current, buffer, locked, last, held, unseen>>
      /\ shown # NoDoc /\ current.doc # NoDoc /\ E!Free(asked) # {}
  BY DEF E!Save, E!Colour, E!editor, E!history
<1>2. /\ view = "shown" /\ current.doc = shown /\ buffer = last[shown] /\ shown \in Requests
      /\ current.version = stored[shown].version
  BY <1>0, <1>1 DEF EditorSerial, EdScreen, EdAwaited, E!TypeOK
<1>3. PICK c \in {E!Saving, E!Colouring} :
         /\ asked' = E!Queued(asked, c)
         /\ c = E!Saving => label' = "saving"
         /\ c = E!Colouring => label' = label
  <2>1. E!Saving # E!Colouring
    BY DEF E!Saving, E!Colouring
  <2> QED
    BY <2>1 DEF E!Save, E!Colour, E!editor
<1>4. /\ c.doc = shown /\ c.version = current.version /\ c.at = "sent" /\ c.heard /\ c # E!Idle
      /\ c.op \in {"save", "colour"} /\ (c.op = "save" <=> c = E!Saving)
      /\ c.op = "save" => c.text = buffer
  BY <1>2 DEF E!Saving, E!Colouring, E!Idle
<1> HIDE DEF E!Saving, E!Colouring
<1>5. PICK s \in E!Free(asked) : asked' = [asked EXCEPT ![s] = c]
  BY <1>1, <1>3, EdQueued
<1>6. EdCalls' = {s} /\ asked'[s] = c
  BY <1>0, <1>4, <1>5 DEF EdCalls, E!Free, E!TypeOK
<1>7. EdSerialCall(stored, last, shown, view, current, c)
  BY <1>2, <1>4 DEF EdSerialCall, EdUpdate
<1>8. EdAwaited'
  BY <1>4, <1>6 DEF EdAwaited, EdUpdate
<1>9. EdKept'
  <2>1. CASE c.op = "save"
    <3>1. EdSaves(stored, shown, last[shown], c)
      BY <1>2, <1>4, <2>1 DEF EdSaves
    <3>2. \A d \in Requests \ {shown} : stored[d].text = last[d]
      BY <1>0 DEF EditorSerial, EdKept
    <3> QED
      BY <1>1, <1>6, <3>1, <3>2 DEF EditorSerial, EdKept
  <2>2. CASE c.op # "save"
    <3>1. label' = label
      BY <1>3, <1>4, <2>2
    <3> QED
      BY <1>0, <1>1, <3>1 DEF EditorSerial, EdKept
  <2> QED
    BY <2>1, <2>2
<1>10. label' \in {"saving", label}
  BY <1>3
<1>11. EdQuiet' /\ EdScreen' /\ EdLeft'
  BY <1>1, <1>2, <1>8, <1>10 DEF EditorSerial, EdQuiet, EdScreen, EdLeft
<1> QED
  BY <1>1, <1>4, <1>6, <1>7, <1>9, <1>11 DEF EditorSerial, EdOne, EdSerialCalls, EdTyped

LEMMA EdSerialOpens ==
    ASSUME EditorInv, EditorSerial, Waiting({}), NEW d \in Requests, E!Open(d)
    PROVE  EditorSerial'
<1>0. E!TypeOK /\ EdCalls = {}
  BY EdWaits DEF EditorInv
<1>1. /\ UNCHANGED <<stored, view, current, buffer, label, locked, last, held, unseen>>
      /\ shown = NoDoc /\ shown' = d /\ E!Free(asked) # {} /\ asked' = E!Queued(asked, E!Loading(d))
  BY DEF E!Open, E!history
<1> DEFINE c == E!Loading(d)
<1>2. c.doc = d /\ c.at = "sent" /\ c.op = "load" /\ c # E!Idle
  BY DEF E!Loading, E!Idle
<1> HIDE DEF c
<1>3. PICK s \in E!Free(asked) : asked' = [asked EXCEPT ![s] = c]
  BY <1>1, EdQueued DEF c
<1>4. EdCalls' = {s} /\ asked'[s] = c
  BY <1>0, <1>2, <1>3 DEF EdCalls, E!Free, E!TypeOK
<1>5. view = "loading"
  BY <1>0, <1>1 DEF EditorSerial, EdQuiet, EdScreen, E!TypeOK
<1>6. EdSerialCall(stored, last, d, view, current, c)
  BY <1>2, <1>5 DEF EdSerialCall, EdUpdate
<1>7. EdKept'
  BY <1>0, <1>1, <1>5 DEF EditorSerial, EdKept
<1>8. EdQuiet' /\ EdScreen' /\ EdLeft'
  BY <1>0, <1>1, <1>2, <1>4, <1>5 DEF EditorSerial, EdQuiet, EdScreen, EdLeft
<1> QED
  BY <1>1, <1>2, <1>4, <1>6, <1>7, <1>8 DEF EditorSerial, EdOne, EdSerialCalls, EdTyped

EdFlushed == E!Flushed(E!Cancelled)
EdUnheard == [E!Saving EXCEPT !.heard = FALSE]

\* A document is left while no update is under way: the document "on" is shown next.
LEMMA EdLeaves ==
    ASSUME EditorInv, EditorSerial, \A s \in EdCalls : asked[s].op = "load",
           shown # NoDoc, NEW on, on # shown,
           E!Pending => E!Free(E!Cancelled) # {}
    PROVE  /\ EdFlushed \in EdArrays
           /\ \A s, t \in Slots : EdFlushed[s] # E!Idle /\ EdFlushed[t] # E!Idle => s = t
           /\ \A s \in Slots : EdFlushed[s] # E!Idle => EdFlushed[s] = EdUnheard
           /\ EdUnheard.op = "save" /\ ~EdUnheard.heard /\ EdUnheard.at = "sent" /\ EdUnheard # E!Idle
           /\ EdUnheard.doc = current.doc /\ EdUnheard.version = current.version
           /\ (\E s \in Slots : EdFlushed[s] # E!Idle) =>
                 \A screen, cur : EdSerialCall(stored, last, on, screen, cur, EdUnheard)
           /\ E!Pending => \E s \in Slots : EdFlushed[s] = EdUnheard
           /\ \A d \in Requests : \/ stored[d].text = last[d]
                                  \/ \E s \in Slots : /\ EdFlushed[s] = EdUnheard
                                                       /\ EdSaves(stored, d, last[d], EdUnheard)
<1> DEFINE c == EdUnheard
           calls == E!Cancelled
<1>0. E!TypeOK
  BY DEF EditorInv
<1>1. calls = [s \in Slots |-> E!Idle]
  BY DEF E!Cancelled, EdCalls
<1>2. /\ c.op = "save" /\ ~c.heard /\ c.at = "sent" /\ c # E!Idle
      /\ c.doc = current.doc /\ c.version = current.version /\ c.text = buffer
  BY DEF EdUnheard, E!Saving, E!Idle
<1> HIDE DEF c, calls
<1> DEFINE Alone ==
              /\ \A s, t \in Slots : EdFlushed[s] # E!Idle /\ EdFlushed[t] # E!Idle => s = t
              /\ \A s \in Slots : EdFlushed[s] # E!Idle => EdFlushed[s] = c
              /\ (\E s \in Slots : EdFlushed[s] # E!Idle) =>
                    \A screen, cur : EdSerialCall(stored, last, on, screen, cur, c)
              /\ E!Pending => \E s \in Slots : EdFlushed[s] = c
<1>3. ASSUME ~E!Pending PROVE Alone
  <2>1. EdFlushed = calls /\ \A s \in Slots : EdFlushed[s] = E!Idle
    BY <1>1, <1>3 DEF EdFlushed, E!Flushed, calls
  <2> QED
    BY <1>3, <2>1
<1>4. ASSUME E!Pending PROVE Alone
  <2>1. EdFlushed = E!Queued(calls, c) /\ E!Free(calls) # {}
    BY <1>4 DEF EdFlushed, E!Flushed, calls, c, EdUnheard
  <2>2. PICK s \in E!Free(calls) : EdFlushed = [calls EXCEPT ![s] = c]
    BY <2>1, EdQueued
  <2>3. s \in Slots /\ EdFlushed[s] = c /\ \A t \in Slots \ {s} : EdFlushed[t] = E!Idle
    BY <1>1, <2>2 DEF E!Free
  <2>4. /\ current.doc \in Requests /\ label = "unsaved" /\ stored[current.doc].version \in Nat
        /\ current.version \in Nat /\ current.version <= stored[current.doc].version
    <3>1. current.doc \in Requests /\ label = "unsaved" /\ current.doc # NoDoc /\ current.version \in Nat
      BY <1>0, <1>4, EditorAssumption DEF E!Pending, E!TypeOK
    <3> QED
      BY <1>0, <3>1, EdTypes DEF EditorInv, EdCurrent, EdKnows
  <2>5. current.version = stored[current.doc].version =>
           current.doc = shown /\ view = "shown" /\ buffer = last[shown]
    <3>1. CASE view = "shown"
      BY <3>1 DEF EditorSerial, EdScreen
    <3>2. CASE view = "loading"
      <4>1. current.version < stored[current.doc].version
        BY <1>4, <2>4, <3>2 DEF EditorSerial, EdLeft, EdUpdate, E!Pending
      <4> QED
        BY <2>4, <4>1
    <3> QED
      BY <1>0, <3>1, <3>2 DEF E!TypeOK, EditorSerial, EdQuiet
  <2>6. \A screen, cur : EdSerialCall(stored, last, on, screen, cur, c)
    BY <1>2, <2>4, <2>5 DEF EdSerialCall, EdUpdate
  <2> QED
    BY <2>3, <2>6
<1>5. ASSUME NEW d \in Requests, stored[d].text # last[d]
      PROVE  E!Pending /\ EdSaves(stored, d, last[d], c)
  <2>1. d = shown /\ view = "shown" /\ label = "unsaved"
    BY <1>5 DEF EditorSerial, EdKept, EdSaves
  <2>2. /\ current.doc = shown /\ buffer = last[shown] /\ ~locked
        /\ current.version = stored[shown].version
    BY <2>1 DEF EditorSerial, EdScreen, EdQuiet, EdAwaited, EdUpdate
  <2> QED
    BY <1>2, <2>1, <2>2 DEF E!Pending, EdSaves
<1>6. Alone
  BY <1>3, <1>4
<1>7. EdFlushed \in EdArrays
  BY EdFlushes DEF EdFlushed
<1> QED
  BY <1>2, <1>5, <1>6, <1>7 DEF c

LEMMA EdSerialSwitches ==
    ASSUME EditorInv, EditorSerial, \A s \in EdCalls : asked[s].op = "load",
           NEW d \in Requests, E!Switch(d)
    PROVE  EditorSerial'
<1> DEFINE c == EdUnheard
           b == E!Loading(d)
<1>1. /\ UNCHANGED <<stored, current, buffer, label, locked, last, held, unseen>>
      /\ shown # NoDoc /\ shown # d /\ shown' = d /\ view' = "loading"
      /\ asked' = E!Queued(EdFlushed, b)
      /\ E!Free(E!Cancelled) # {} /\ E!Free(EdFlushed) # {}
  BY EdRoom DEF E!Switch, E!history, EdFlushed
<1>2. /\ EdFlushed \in EdArrays
      /\ \A s, t \in Slots : EdFlushed[s] # E!Idle /\ EdFlushed[t] # E!Idle => s = t
      /\ \A s \in Slots : EdFlushed[s] # E!Idle => EdFlushed[s] = c
      /\ c.op = "save" /\ ~c.heard /\ c.at = "sent" /\ c # E!Idle
      /\ c.doc = current.doc /\ c.version = current.version
      /\ (\E s \in Slots : EdFlushed[s] # E!Idle) =>
            \A screen, cur : EdSerialCall(stored, last, d, screen, cur, c)
      /\ E!Pending => \E s \in Slots : EdFlushed[s] = c
      /\ \A e \in Requests : \/ stored[e].text = last[e]
                             \/ \E s \in Slots : /\ EdFlushed[s] = c
                                                  /\ EdSaves(stored, e, last[e], c)
  BY <1>1, EdLeaves
<1>3. b.op = "load" /\ b.doc = d /\ b.at = "sent" /\ b # E!Idle
  BY DEF E!Loading, E!Idle
<1> HIDE DEF b, c
<1>4. PICK s \in E!Free(EdFlushed) : asked' = [EdFlushed EXCEPT ![s] = b]
  BY <1>1, EdQueued
<1>5. s \in Slots /\ EdFlushed[s] = E!Idle /\ \A t \in Slots : asked'[t] = IF t = s THEN b ELSE EdFlushed[t]
  BY <1>2, <1>4 DEF E!Free, EdArrays
<1>6. s \in EdCalls' /\ asked'[s] = b
  BY <1>3, <1>5 DEF EdCalls
<1>7. \A t \in EdCalls' : t = s \/ (t \in Slots /\ asked'[t] = c /\ EdFlushed[t] # E!Idle)
  BY <1>2, <1>5 DEF EdCalls
<1>8. \A t \in Slots : EdFlushed[t] = c => t \in EdCalls' /\ asked'[t] = c
  BY <1>2, <1>5 DEF EdCalls
<1>9. EdOne'
  BY <1>2, <1>3, <1>6, <1>7 DEF EdOne, EdUpdate
<1>10. EdSerialCalls'
  <2>1. EdSerialCall(stored, last, d, "loading", current, b)
    BY <1>3 DEF EdSerialCall, EdUpdate
  <2>2. ASSUME NEW t \in EdCalls', t # s
        PROVE  EdSerialCall(stored, last, d, "loading", current, c)
    BY <1>2, <1>7, <2>2
  <2> QED
    BY <1>1, <1>6, <1>7, <2>1, <2>2 DEF EdSerialCalls
<1>11. EdScreen'
  BY <1>1, <1>3, <1>6 DEF EdScreen
<1>12. EdLeft'
  <2> SUFFICES ASSUME label = "unsaved", current.doc # NoDoc
               PROVE  \E t \in EdCalls' : /\ EdUpdate(asked'[t]) /\ ~asked'[t].heard
                                         /\ asked'[t].doc = current.doc /\ asked'[t].version = current.version
    BY <1>1 DEF EdLeft
  <2>1. E!Pending
    BY DEF E!Pending, EditorSerial, EdQuiet
  <2> QED
    BY <1>2, <1>8, <2>1 DEF EdUpdate
<1>13. EdKept'
  BY <1>1, <1>2, <1>8 DEF EditorSerial, EdKept
<1>14. EdTyped'
  BY <1>2, <1>3, <1>6, <1>7 DEF EdTyped
<1> QED
  BY <1>1, <1>9, <1>10, <1>11, <1>12, <1>13, <1>14 DEF EditorSerial, EdQuiet

LEMMA EdSerialCloses ==
    ASSUME EditorInv, EditorSerial, \A s \in EdCalls : asked[s].op = "load", E!Close
    PROVE  EditorSerial'
<1> DEFINE c == EdUnheard
           after == [s \in Slots |->
                        IF EdFlushed[s] = E!Idle \/ EdFlushed[s].at # "sent" THEN E!Idle
                        ELSE [EdFlushed[s] EXCEPT !.heard = FALSE]]
<1>1. /\ UNCHANGED <<stored, last, held, unseen>>
      /\ shown # NoDoc /\ shown' = NoDoc /\ view' = "loading"
      /\ current' = [doc |-> NoDoc, version |-> 1] /\ label' = "saved" /\ locked' = FALSE
      /\ asked' = after
      /\ E!Pending => E!Free(E!Cancelled) # {}
  BY DEF E!Close, E!history, EdFlushed
<1>2. /\ EdFlushed \in EdArrays
      /\ \A s, t \in Slots : EdFlushed[s] # E!Idle /\ EdFlushed[t] # E!Idle => s = t
      /\ \A s \in Slots : EdFlushed[s] # E!Idle => EdFlushed[s] = c
      /\ c.op = "save" /\ ~c.heard /\ c.at = "sent" /\ c # E!Idle
      /\ c.doc = current.doc /\ c.version = current.version
      /\ (\E s \in Slots : EdFlushed[s] # E!Idle) =>
            \A screen, cur : EdSerialCall(stored, last, NoDoc, screen, cur, c)
      /\ E!Pending => \E s \in Slots : EdFlushed[s] = c
      /\ \A e \in Requests : \/ stored[e].text = last[e]
                             \/ \E s \in Slots : /\ EdFlushed[s] = c
                                                  /\ EdSaves(stored, e, last[e], c)
  <2>1. NoDoc # shown /\ shown # NoDoc
    BY <1>1
  <2> QED
    BY <1>1, <2>1, EdLeaves
<1> HIDE DEF c
<1>4. ASSUME NEW s \in Slots PROVE asked'[s] = EdFlushed[s]
  <2>1. CASE EdFlushed[s] = E!Idle
    BY <1>1, <2>1
  <2>2. CASE EdFlushed[s] # E!Idle
    <3>1. EdFlushed[s] = c /\ EdFlushed[s].at = "sent"
      BY <1>2, <2>2
    <3>2. asked'[s] = [EdFlushed[s] EXCEPT !.heard = FALSE]
      BY <1>1, <2>2, <3>1
    <3> DEFINE r == EdFlushed[s]
               q == [r EXCEPT !.heard = FALSE]
    <3>3. r \in E!Call /\ r.heard = FALSE
      BY <1>2, <2>2, <3>1 DEF EdArrays, E!Call
    <3> HIDE DEF r
    <3>4. /\ q \in E!Call /\ q.op = r.op /\ q.doc = r.doc /\ q.version = r.version
          /\ q.text = r.text /\ q.at = r.at /\ q.heard = r.heard
      BY <3>3 DEF E!Call
    <3> HIDE DEF q
    <3>5. q = r
      BY <3>3, <3>4 DEF E!Call
    <3> QED
      BY <3>2, <3>5 DEF q, r
  <2> QED
    BY <2>1, <2>2
<1>5. \A t \in EdCalls' : t \in Slots /\ asked'[t] = c /\ EdFlushed[t] # E!Idle
  BY <1>2, <1>4 DEF EdCalls
<1>6. \A t \in Slots : EdFlushed[t] = c => t \in EdCalls' /\ asked'[t] = c
  BY <1>2, <1>4 DEF EdCalls
<1> HIDE DEF after
<1>7. EdOne'
  BY <1>2, <1>5 DEF EdOne
<1>8. EdSerialCalls'
  <2>1. ASSUME NEW t \in EdCalls'
        PROVE  EdSerialCall(stored, last, NoDoc, "loading", current', c)
    BY <1>2, <1>5, <2>1
  <2> QED
    BY <1>1, <1>5, <2>1 DEF EdSerialCalls
<1>9. EdScreen' /\ EdLeft' /\ EdQuiet'
  BY <1>1 DEF EdScreen, EdLeft, EdQuiet
<1>10. EdKept'
  BY <1>1, <1>2, <1>6 DEF EditorSerial, EdKept
<1>11. EdTyped'
  BY <1>2, <1>5 DEF EdTyped
<1> QED
  BY <1>7, <1>8, <1>9, <1>10, <1>11 DEF EditorSerial

LEMMA EdSerialServesLoad ==
    ASSUME EditorInv, EditorSerial, NEW s \in EdCalls, asked[s].at = "sent", E!ServeLoad(s),
           UNCHANGED <<E!editor, locked, last, unseen>>
    PROVE  EditorSerial'
<1> DEFINE c == asked[s]
           b == [c EXCEPT !.at = "ok", !.version = stored[c.doc].version,
                          !.text = stored[c.doc].text]
<1>0. E!TypeOK
  BY DEF EditorInv
<1>1. /\ UNCHANGED <<stored, shown, view, current, buffer, label, locked, last, held, unseen>>
      /\ asked' = [asked EXCEPT ![s] = b] /\ c.op = "load"
  BY DEF E!ServeLoad, E!editor
<1>2. /\ c \in E!Call /\ s \in Slots /\ asked \in EdArrays /\ c.doc = shown /\ view = "loading"
      /\ shown \in Requests
  BY <1>0, <1>1, EdTypes DEF E!TypeOK, EdArrays, EdCalls, EditorSerial, EdSerialCalls, EdSerialCall
<1> HIDE DEF c
<1>3. stored[c.doc].version \in 1..Versions /\ stored[c.doc].text \in E!Text
  BY <1>0, <1>2 DEF E!TypeOK
<1>4. /\ b \in E!Call /\ b.op = "load" /\ b.doc = c.doc /\ b.at = "ok" /\ b # E!Idle
      /\ b.version = stored[c.doc].version /\ b.text = stored[c.doc].text
  BY <1>0, <1>1, <1>2, <1>3, EdTypes DEF E!Call
<1> HIDE DEF b
<1>5. EdCalls' = EdCalls /\ asked'[s] = b /\ \A t \in EdCalls \ {s} : asked'[t] = asked[t]
  BY <1>1, <1>2, <1>4 DEF EdCalls, EdArrays
<1>6. stored[shown].text = last[shown]
  <2>1. ASSUME NEW t \in EdCalls, EdSaves(stored, shown, last[shown], asked[t]) PROVE FALSE
    <3>1. EdSerialCall(stored, last, shown, view, current, asked[t])
      BY DEF EditorSerial, EdSerialCalls
    <3> QED
      BY <1>2, <2>1, <3>1 DEF EdSerialCall, EdSaves, EdUpdate
  <2> QED
    BY <1>2, <2>1 DEF EditorSerial, EdKept
<1>7. EdSerialCall(stored, last, shown, view, current, b)
  BY <1>2, <1>4, <1>6 DEF EdSerialCall, EdUpdate
<1>8. EdSerialCalls'
  BY <1>1, <1>5, <1>7 DEF EditorSerial, EdSerialCalls
<1>9. EdOne'
  BY <1>1, <1>4, <1>5 DEF EditorSerial, EdOne, EdUpdate, c
<1>10. EdScreen' /\ EdQuiet'
  BY <1>1, <1>2, <1>4, <1>5 DEF EditorSerial, EdScreen, EdQuiet
<1>11. EdLeft'
  <2>1. ASSUME NEW t \in EdCalls, EdUpdate(asked[t]) PROVE asked'[t] = asked[t] /\ t \in EdCalls'
    BY <1>1, <1>5, <2>1 DEF EdUpdate, c
  <2> QED
    BY <1>1, <2>1 DEF EditorSerial, EdLeft
<1>12. EdKept'
  <2>1. ASSUME NEW t \in EdCalls, asked[t].op = "save" PROVE asked'[t] = asked[t] /\ t \in EdCalls'
    BY <1>1, <1>5, <2>1 DEF c
  <2> QED
    BY <1>1, <2>1 DEF EditorSerial, EdKept, EdSaves
<1>13. EdTyped'
  BY <1>1, <1>4, <1>5 DEF EditorSerial, EdTyped
<1> QED
  BY <1>8, <1>9, <1>10, <1>11, <1>12, <1>13 DEF EditorSerial

LEMMA EdSerialHearsLoad ==
    ASSUME EditorInv, EditorSerial, NEW s \in Slots, E!HearLoad(s)
    PROVE  EditorSerial'
<1> DEFINE c == asked[s]
<1>0. E!TypeOK
  BY DEF EditorInv
<1>1. /\ UNCHANGED <<stored, shown, locked, last, held>> /\ E!Done(s)
      /\ c # E!Idle /\ c.op = "load" /\ c.at # "sent"
  BY DEF E!HearLoad
<1>2. /\ s \in EdCalls /\ c \in E!Call /\ EdSerialCall(stored, last, shown, view, current, c)
      /\ asked \in EdArrays
  BY <1>0, <1>1, EdTypes DEF EdCalls, EditorSerial, EdSerialCalls, E!TypeOK, EdArrays
<1>3. /\ c.at = "ok" /\ c.doc = shown /\ view = "loading" /\ shown \in Requests
      /\ c.version = stored[shown].version /\ c.text = last[shown]
  BY <1>0, <1>1, <1>2, EdTypes DEF EdSerialCall
<1>4. /\ view' = "shown" /\ label' = "saved" /\ buffer' = c.text
      /\ current' = [doc |-> c.doc, version |-> c.version]
  BY <1>3 DEF E!HearLoad
<1>5. EdCalls' = EdCalls \ {s} /\ \A t \in EdCalls \ {s} : asked'[t] = asked[t]
  BY <1>1, <1>2 DEF E!Done, EdCalls, EdArrays
<1>6. \A t \in EdCalls \ {s} : EdUpdate(asked[t])
  BY <1>0, <1>1, <1>2, EdTypes DEF EditorSerial, EdOne, EdUpdate
<1> HIDE DEF c
<1>7. EdOne'
  BY <1>5 DEF EditorSerial, EdOne
<1>8. EdSerialCalls'
  <2>1. ASSUME NEW t \in EdCalls \ {s}
        PROVE  EdSerialCall(stored, last, shown, "shown", current', asked[t])
    <3>1. EdSerialCall(stored, last, shown, view, current, asked[t]) /\ EdUpdate(asked[t])
      BY <1>6 DEF EditorSerial, EdSerialCalls
    <3> QED
      BY <1>3, <3>1 DEF EdSerialCall, EdUpdate
  <2> QED
    BY <1>1, <1>4, <1>5, <2>1 DEF EdSerialCalls
<1>9. NoDoc # shown
  BY <1>3, EditorAssumption
<1>10. EdScreen' /\ EdQuiet' /\ EdLeft'
  BY <1>1, <1>3, <1>4, <1>9 DEF EditorSerial, EdScreen, EdQuiet, EdLeft
<1>11. EdKept'
  <2>1. ASSUME NEW t \in EdCalls, asked[t].op = "save" PROVE asked'[t] = asked[t] /\ t \in EdCalls'
    BY <1>1, <1>5, <2>1 DEF c
  <2> QED
    BY <1>1, <1>3, <2>1 DEF EditorSerial, EdKept, EdSaves
<1>12. EdTyped'
  <2>1. \A t \in EdCalls \ {s} : ~asked[t].heard
    BY <1>3, <1>6 DEF EditorSerial, EdSerialCalls, EdSerialCall
  <2> QED
    BY <1>5, <2>1 DEF EdTyped
<1> QED
  BY <1>7, <1>8, <1>10, <1>11, <1>12 DEF EditorSerial

LEMMA EdSerialHearsUpdate ==
    ASSUME EditorInv, EditorSerial, NEW s \in Slots, E!HearSave(s) \/ E!HearColour(s)
    PROVE  EditorSerial'
<1> DEFINE c == asked[s]
<1>0. E!TypeOK
  BY DEF EditorInv
<1>1. /\ UNCHANGED <<stored, shown, view, buffer, locked, last, held, unseen>> /\ E!Done(s)
      /\ c # E!Idle /\ EdUpdate(c) /\ c.at # "sent"
  BY DEF E!HearSave, E!HearColour, E!history, EdUpdate
<1>2. /\ s \in EdCalls /\ EdSerialCall(stored, last, shown, view, current, c)
      /\ asked \in EdArrays
  BY <1>0, <1>1, EdTypes DEF EdCalls, EditorSerial, EdSerialCalls, E!TypeOK, EdArrays
<1>3. /\ c.at = "ok" /\ c.heard /\ c.doc = current.doc /\ view = "shown"
      /\ c.version + 1 = stored[c.doc].version
      /\ c.op = "save" => stored[c.doc].text = c.text
  BY <1>1, <1>2 DEF EdSerialCall
<1>4. /\ shown # NoDoc /\ current.doc = shown /\ buffer = last[shown] /\ shown \in Requests
  BY <1>0, <1>3 DEF EditorSerial, EdScreen, E!TypeOK
<1>5. /\ current' = [doc |-> c.doc, version |-> c.version + 1]
      /\ \/ c.op = "save" /\ label' = (IF buffer = c.text THEN "saved" ELSE "unsaved")
         \/ c.op = "colour" /\ label' = label
  BY <1>3 DEF E!HearSave, E!HearColour, E!LabelAfter
<1>6. EdCalls = {s}
  BY <1>0, <1>1, <1>2, <1>3, EdTypes DEF EditorSerial, EdOne, EdUpdate, EdSerialCalls, EdSerialCall
<1>7. EdCalls' = {}
  BY <1>1, <1>2, <1>6 DEF E!Done, EdCalls, EdArrays
<1>8. ASSUME NEW d \in Requests
      PROVE  stored[d].text = last[d] \/ (d = shown /\ label' = "unsaved")
  <2>1. ~EdSaves(stored, d, last[d], c)
    BY <1>3 DEF EdSaves
  <2>2. stored[d].text = last[d] \/ (d = shown /\ label = "unsaved")
    BY <1>6, <2>1 DEF EditorSerial, EdKept
  <2>3. CASE c.op = "save"
    BY <1>3, <1>4, <1>5, <2>2, <2>3
  <2>4. CASE c.op = "colour"
    BY <1>5, <2>2, <2>4
  <2> QED
    BY <1>1, <2>3, <2>4 DEF EdUpdate
<1>9. EdKept'
  BY <1>1, <1>3, <1>8 DEF EditorSerial, EdKept
<1> HIDE DEF c
<1>10. EdScreen' /\ EdQuiet' /\ EdLeft'
  BY <1>1, <1>3, <1>4, <1>5 DEF EditorSerial, EdScreen, EdQuiet, EdLeft
<1> QED
  BY <1>7, <1>9, <1>10 DEF EditorSerial, EdOne, EdSerialCalls, EdTyped

LEMMA EdSerialServesUpdate ==
    ASSUME EditorInv, EditorSerial, NEW s \in EdCalls, asked[s].at = "sent", E!ServeUpdate(s, "ok"),
           UNCHANGED <<E!editor, locked, last, unseen>>
    PROVE  EditorSerial'
<1> DEFINE c == asked[s]
           new == E!Stored(c)
           b == IF c.version = stored[c.doc].version THEN [c EXCEPT !.at = "ok"]
                ELSE [c EXCEPT !.at = "stale"]
           a == IF c.heard THEN b ELSE E!Idle
<1>0. E!TypeOK
  BY DEF EditorInv
<1>1. UNCHANGED <<shown, view, current, buffer, label, locked, last, unseen>> /\ EdUpdate(c)
  BY DEF E!ServeUpdate, E!editor, EdUpdate
<1>2. /\ c \in E!Call /\ s \in Slots /\ asked \in EdArrays
      /\ EdSerialCall(stored, last, shown, view, current, c)
      /\ c.doc \in Requests /\ c.version \in Nat /\ c.at = "sent" /\ c.op # "load"
  BY <1>0, <1>1, EdTypes DEF E!TypeOK, EdArrays, EditorSerial, EdSerialCalls, EdUpdate
<1>3. asked' = [asked EXCEPT ![s] = a]
  BY DEF E!ServeUpdate, E!Answered
<1>4. \/ /\ c.version # stored[c.doc].version /\ stored' = stored
      \/ /\ c.version = stored[c.doc].version /\ stored' = [stored EXCEPT ![c.doc] = new]
  BY DEF E!ServeUpdate
<1>5. /\ new.version = c.version + 1
      /\ new.text = IF c.op = "save" THEN c.text ELSE stored[c.doc].text
  BY DEF E!Stored
<1> HIDE DEF new
<1>6. /\ \A d \in Requests \ {c.doc} : stored'[d] = stored[d]
      /\ c.version = stored[c.doc].version => stored'[c.doc] = new
      /\ c.version # stored[c.doc].version => stored'[c.doc] = stored[c.doc]
  BY <1>0, <1>2, <1>4 DEF E!TypeOK
<1>7. c.heard => /\ c.version = stored[c.doc].version /\ view = "shown"
                 /\ c.doc = current.doc /\ c.version = current.version
  BY <1>1, <1>2 DEF EdSerialCall
<1>8. c.heard => /\ a.op = c.op /\ a.doc = c.doc /\ a.version = c.version /\ a.text = c.text
                 /\ a.heard /\ a.at = "ok" /\ a # E!Idle
  <2>1. ASSUME c.heard PROVE a = [c EXCEPT !.at = "ok"]
    BY <1>7, <2>1
  <2> HIDE DEF c, a
  <2> DEFINE q == [c EXCEPT !.at = "ok"]
  <2>2. /\ q \in E!Call /\ q.op = c.op /\ q.doc = c.doc /\ q.version = c.version /\ q.text = c.text
        /\ q.heard = c.heard /\ q.at = "ok"
    BY <1>2 DEF E!Call
  <2> HIDE DEF q
  <2>3. q # E!Idle
    BY <1>0, <2>2, EdTypes
  <2> QED
    BY <2>1, <2>2, <2>3 DEF q
<1>9. ~c.heard => a = E!Idle
  OBVIOUS
<1>10. ~c.heard => /\ c.op = "save" /\ c.version <= stored[c.doc].version
                   /\ c.version = stored[c.doc].version => c.doc # shown /\ c.text = last[c.doc]
  BY <1>1, <1>2 DEF EdSerialCall
<1> HIDE DEF a
\* The other call, if there is one, is a load: then this one is not heard.
<1>11. ASSUME NEW t \in EdCalls, t # s
       PROVE  /\ asked[t].op = "load" /\ asked[t].doc = shown /\ view = "loading" /\ ~c.heard
              /\ shown \in Requests /\ stored'[shown] = stored[shown]
              /\ EdSerialCall(stored, last, shown, view, current, asked[t])
  <2>1. asked[t].op = "load" /\ asked[t].doc \in Requests
    BY <1>0, <1>1, <1>11, EdTypes DEF EditorSerial, EdOne, EdUpdate
  <2>2. EdSerialCall(stored, last, shown, view, current, asked[t])
    BY DEF EditorSerial, EdSerialCalls
  <2>3. asked[t].doc = shown /\ view = "loading"
    BY <2>1, <2>2 DEF EdSerialCall
  <2> HIDE DEF c
  <2> QED
    BY <1>6, <1>7, <1>10, <2>1, <2>2, <2>3
<1>12. /\ EdCalls' = (IF c.heard THEN EdCalls ELSE EdCalls \ {s}) /\ asked'[s] = a
       /\ \A t \in EdCalls \ {s} : asked'[t] = asked[t]
  <2> HIDE DEF c
  <2> QED
    BY <1>2, <1>3, <1>8, <1>9 DEF EdCalls, EdArrays
<1>13. EdOne'
  <2>1. \A t \in EdCalls' : t \in EdCalls /\ (t # s => asked'[t] = asked[t])
    BY <1>12
  <2>2. \A t \in EdCalls' : asked'[t].op = asked[t].op
    <3> HIDE DEF c
    <3> QED
      BY <1>8, <1>12 DEF c
  <2> QED
    BY <2>1, <2>2 DEF EditorSerial, EdOne, EdUpdate
<1>14. EdSerialCalls'
  <2>1. ASSUME c.heard PROVE EdSerialCall(stored', last, shown, view, current, a)
    <3> HIDE DEF c
    <3> QED
      BY <1>1, <1>2, <1>5, <1>6, <1>7, <1>8, <2>1 DEF EdSerialCall, EdUpdate
  <2>2. ASSUME NEW t \in EdCalls, t # s PROVE EdSerialCall(stored', last, shown, view, current, asked[t])
    BY <1>11, <2>2 DEF EdSerialCall, EdUpdate
  <2> QED
    BY <1>1, <1>12, <2>1, <2>2 DEF EdSerialCalls
<1>15. EdScreen'
  <2> HIDE DEF c
  <2>1. ASSUME view = "shown", ~EdAwaited' PROVE current.version = stored'[shown].version
    <3>1. ~c.heard
      BY <1>1, <1>8, <1>12, <2>1 DEF EdAwaited, EdUpdate, c
    <3>2. EdCalls = {s}
      BY <1>11, <2>1
    <3>3. ~EdAwaited /\ shown \in Requests
      BY <1>0, <2>1, <3>1, <3>2 DEF EdAwaited, c, EditorSerial, EdScreen, E!TypeOK
    <3>4. stored'[shown] = stored[shown]
      BY <1>6, <1>10, <3>1, <3>3
    <3> QED
      BY <2>1, <3>3, <3>4 DEF EditorSerial, EdScreen
  <2>2. ASSUME NEW t \in EdCalls, asked[t].op = "load" PROVE t \in EdCalls' /\ asked'[t] = asked[t]
    BY <1>2, <1>12, <2>2 DEF c
  <2> QED
    BY <1>1, <2>1, <2>2 DEF EditorSerial, EdScreen
<1>16. EdLeft'
  <2> SUFFICES ASSUME view = "loading", label = "unsaved", current.doc # NoDoc
               PROVE  current.version < stored'[current.doc].version
    BY <1>1 DEF EdLeft
  <2>1. current.doc \in Requests /\ current.version \in Nat /\ ~c.heard
    BY <1>0, <1>7, EditorAssumption DEF E!TypeOK
  <2>2. stored[current.doc].version \in Nat
    BY <1>0, <2>1, EdTypes
  <2> HIDE DEF c
  <2>3. CASE current.version < stored[current.doc].version
    BY <1>2, <1>5, <1>6, <2>1, <2>2, <2>3
  <2>4. ASSUME NEW t \in EdCalls, EdUpdate(asked[t]), asked[t].doc = current.doc, asked[t].version = current.version
        PROVE  current.version < stored'[current.doc].version
    <3>1. t = s
      BY <1>11, <2>4 DEF EdUpdate
    <3> QED
      BY <1>2, <1>5, <1>6, <1>10, <2>1, <2>2, <2>4, <3>1 DEF c
  <2> QED
    BY <2>3, <2>4 DEF EditorSerial, EdLeft
<1>17. EdKept'
  <2> HIDE DEF c
  <2>1. ASSUME NEW d \in Requests
        PROVE  stored'[d].text = last[d] \/ (d = shown /\ view = "shown" /\ label = "unsaved")
    <3>1. CASE stored[d].text = last[d]
      <4>1. CASE d = c.doc /\ c.version = stored[c.doc].version /\ c.op = "save"
        <5>1. CASE ~c.heard
          BY <1>5, <1>6, <1>10, <4>1, <5>1
        <5>2. CASE c.heard
          <6>1. d = shown /\ view = "shown" /\ buffer = last[shown]
            BY <1>7, <4>1, <5>2 DEF EditorSerial, EdScreen
          <6>2. label = "unsaved" \/ c.text = buffer
            BY <4>1, <5>2 DEF EditorSerial, EdTyped, c
          <6> QED
            BY <1>5, <1>6, <4>1, <6>1, <6>2
        <5> QED
          BY <5>1, <5>2
      <4>2. CASE ~(d = c.doc /\ c.version = stored[c.doc].version /\ c.op = "save")
        BY <1>2, <1>5, <1>6, <3>1, <4>2
      <4> QED
        BY <4>1, <4>2
    <3>2. ASSUME NEW t \in EdCalls, EdSaves(stored, d, last[d], asked[t])
          PROVE  stored'[d].text = last[d]
      <4>1. t = s
        BY <1>11, <3>2 DEF EdSaves
      <4> QED
        BY <1>5, <1>6, <3>2, <4>1 DEF EdSaves, c
    <3> QED
      BY <3>1, <3>2 DEF EditorSerial, EdKept
  <2> QED
    BY <1>1, <2>1 DEF EditorSerial, EdKept
<1>18. EdTyped'
  <2>1. ASSUME c.heard PROVE a.op = c.op /\ a.text = c.text /\ a.heard
    <3> HIDE DEF c
    <3> QED
      BY <1>8, <2>1
  <2>2. \A t \in EdCalls : asked[t].op = "save" /\ asked[t].heard =>
                          label = "unsaved" \/ asked[t].text = buffer
    BY DEF EditorSerial, EdTyped
  <2> QED
    BY <1>1, <1>12, <2>1, <2>2 DEF EdTyped
<1> QED
  BY <1>1, <1>13, <1>14, <1>15, <1>16, <1>17, <1>18 DEF EditorSerial, EdQuiet

LEMMA EdSerialStep ==
    ASSUME EditorInv, EditorSerial, serial, EditorNext
    PROVE  EditorSerial'
<1>1. CASE E!Type
  BY <1>1, EdSerialTypes
<1>2. ASSUME NEW s \in Slots, E!Serve(s) PROVE EditorSerial'
  <2>1. s \in EdCalls /\ asked[s].at = "sent" /\ UNCHANGED <<E!editor, locked, last, unseen>>
    BY <1>2 DEF E!Serve, EdCalls
  <2>2. E!ServeLoad(s) \/ E!ServeUpdate(s, "ok")
    BY <1>2 DEF E!Serve
  <2> QED
    BY <2>1, <2>2, EdSerialServesLoad, EdSerialServesUpdate
<1>3. CASE \E s \in Slots : E!HearLoad(s) \/ E!HearSave(s) \/ E!HearColour(s)
  BY <1>3, EdSerialHearsLoad, EdSerialHearsUpdate
<1>4. CASE Waiting({}) /\ E!Ask
  <2>1. \A s \in EdCalls : asked[s].op = "load"
    BY <1>4, EdWaits
  <2>2. CASE E!Save \/ E!Colour
    BY <1>4, <2>2, EdSerialAsks
  <2>3. CASE \E d \in Requests : E!Switch(d)
    BY <2>1, <2>3, EdSerialSwitches
  <2>4. CASE \E d \in Requests : E!Open(d)
    BY <1>4, <2>4, EdSerialOpens
  <2>5. CASE E!Close
    BY <2>1, <2>5, EdSerialCloses
  <2> QED
    BY <1>4, <2>2, <2>3, <2>4, <2>5 DEF E!Ask
<1>5. CASE Waiting({"load"}) /\ (E!Close \/ \E d \in Requests : E!Switch(d))
  <2>1. \A s \in EdCalls : asked[s].op = "load"
    BY <1>5, EdWaits
  <2> QED
    BY <1>5, <2>1, EdSerialSwitches, EdSerialCloses
<1> QED
  BY <1>1, <1>2, <1>3, <1>4, <1>5 DEF EditorNext, E!Answer

EditorRun == part = "editor" => EditorInv /\ (serial => EditorSerial)

\* What EditingNext leaves to those who have a document open.
LEMMA EditorsAlone ==
    [EditingNext]_editingVars =>
        /\ part' = part /\ (part # "documents" => serial' = serial)
        /\ part = "presence" => V!Next \/ UNCHANGED presenceVars
        /\ part = "editor" => EditorNext \/ UNCHANGED editorVars
BY DEF EditingNext, editingVars

LEMMA EditorRunStep ==
    EditorRun /\ [EditingNext]_editingVars =>
        EditorRun' /\ (part = "editor" => E!OthersAreSeen)
<1> SUFFICES ASSUME EditorRun, [EditingNext]_editingVars, part = "editor"
             PROVE  EditorInv' /\ (serial' => EditorSerial') /\ E!OthersAreSeen
  BY EditorsAlone DEF EditorRun
<1>1. serial' = serial /\ (EditorNext \/ UNCHANGED editorVars) /\ EditorInv /\ (serial => EditorSerial)
  BY EditorsAlone DEF EditorRun
<1>2. CASE EditorNext
  <2>1. E!Next
    BY <1>2 DEF EditorNext, E!Next, E!Ask
  <2> QED
    BY <1>1, <1>2, <2>1, EditorStep, EdSerialStep
<1>3. CASE UNCHANGED editorVars
  <2>1. UNCHANGED E!vars
    BY <1>3 DEF editorVars, E!vars, E!editor, E!history
  <2>2. EditorSerial => EditorSerial'
    BY <1>3 DEF editorVars, EditorSerial, EdOne, EdCalls, EdSerialCalls, EdQuiet, EdScreen,
                EdAwaited, EdLeft, EdKept, EdTyped
  <2> QED
    BY <1>1, <2>1, <2>2, EditorStep
<1> QED
  BY <1>1, <1>2, <1>3

PresenceRun == part = "presence" => PresenceInv

LEMMA PresenceRunStep ==
    PresenceRun /\ [EditingNext]_editingVars =>
        PresenceRun' /\ (part = "presence" => V!EditorsAreSafe)
<1> SUFFICES ASSUME PresenceRun, [EditingNext]_editingVars, part = "presence"
             PROVE  PresenceInv' /\ V!EditorsAreSafe
  BY EditorsAlone DEF PresenceRun
<1>1. PresenceInv /\ (V!Next \/ UNCHANGED presenceVars)
  BY EditorsAlone DEF PresenceRun
<1> QED
  BY <1>1, PresenceStep DEF presenceVars, V!vars

\* Whatever the caps, the time to live and the clock: a document has one editor at most,
\* and nobody takes the place of one who is there (presence_service).  However many
\* requests the editor in the browser has under way, and however they are answered: it
\* says "saved" of nothing else and writes over no text of others that it has not shown;
\* with one request at a time it forgets nothing (DocEditor).
THEOREM EditorsOfEditing == EditingSpec => EditorsAreSafe
<1> DEFINE Safe ==
      /\ part = "presence" => V!TypeOK' /\ V!EditorsAreSafe
      /\ part = "editor" =>
         /\ E!TypeOK' /\ E!SavedIsStored' /\ E!OthersAreSeen
         /\ serial => E!NothingIsForgotten'
<1>1. EditingInit => PresenceRun /\ EditorRun
  BY PresenceInit, EdInit, EdSerialInit DEF EditingInit, PresenceRun, EditorRun
<1>2. PresenceRun /\ EditorRun /\ [EditingNext]_editingVars => PresenceRun' /\ EditorRun'
  BY PresenceRunStep, EditorRunStep
<1>3. PresenceRun /\ EditorRun /\ [EditingNext]_editingVars => Safe
  <2> SUFFICES ASSUME PresenceRun, EditorRun, [EditingNext]_editingVars PROVE Safe
    OBVIOUS
  <2>1. PresenceRun' /\ EditorRun' /\ part' = part /\ (part = "editor" => serial' = serial)
    BY PresenceRunStep, EditorRunStep, EditorsAlone
  <2>2. PresenceInv' => V!TypeOK'
    BY DEF PresenceInv
  <2>3. EditorInv' => E!TypeOK' /\ E!SavedIsStored'
    BY DEF EditorInv
  <2>4. EditorInv' /\ EditorSerial' => E!NothingIsForgotten'
    BY EdSerialIsKept, PTL
  <2>5. part = "presence" => PresenceInv' /\ V!EditorsAreSafe
    BY <2>1, PresenceRunStep DEF PresenceRun
  <2>6. part = "editor" => EditorInv' /\ (serial => EditorSerial') /\ E!OthersAreSeen
    BY <2>1, EditorRunStep DEF EditorRun
  <2> QED
    BY <2>2, <2>3, <2>4, <2>5, <2>6
<1>4. PresenceRun /\ EditorRun /\ [EditingNext]_editingVars => [Safe]_<<presenceVars, editorVars>>
  BY <1>3
<1> QED
  BY <1>1, <1>2, <1>4, PTL DEF EditingSpec, editingVars, EditorsAreSafe

=============================================================================
