----------------------------- MODULE Documents ------------------------------
(***************************************************************************)
(* The documents of one project: services/doc_service.py (create, update,  *)
(* delete and the repair of parent links), core/hierarchy.py, the mentions *)
(* derived from a document (services/mention_service.py) and the apply     *)
(* handler of doc.update (policy/handlers.py).                             *)
(*                                                                         *)
(* A save names the version it was made on and is written by one UPDATE    *)
(* that compares it.  Everything else a request decides on (the parents    *)
(* above a document, the children below it, the parent that exists) is     *)
(* read before its transaction writes, row by row, and may be stale then.  *)
(***************************************************************************)
EXTENDS Naturals, FiniteSets, Functions

CONSTANTS
    Docs,       \* documents there can be
    Requests,   \* requests served at the same time
    Entities,   \* what else can be mentioned (tasks, phases), and is not deleted here
    Contents,   \* what a document may say: what it mentions
    NoDoc,      \* no document
    Rank,       \* the order of the types and ids, in which the mentions are cut
    MaxMentions,\* MAX_MENTIONS_PER_DOC of mention_service.py
    MaxDepth,   \* MAX_DEPTH of hierarchy.py
    MaxVersion  \* bound: a document of this version is not saved again

Mentionable == Docs \cup Entities

ASSUME DocsAssumption ==
    NoDoc \notin Docs /\ Docs \cap Entities = {} /\ IsFiniteSet(Docs) /\ IsFiniteSet(Entities)
ASSUME RankAssumption == Rank \in Injection(Mentionable, Nat)
ASSUME MentionsAssumption == MaxMentions \in Nat
ASSUME ContentsAssumption == {} \in Contents /\ Contents \subseteq SUBSET Mentionable
ASSUME DepthAssumption == MaxDepth \in Nat \ {0} /\ MaxVersion \in Nat

VARIABLES
    doc,        \* the rows of doc
    mentions,   \* the mention rows of each document
    call        \* what each request is doing

vars == <<doc, mentions, call>>

Doc == [state : {"new", "live", "deleted"}, version : Nat,
        content : Contents, parent : Docs \cup {NoDoc}]

\* "of" tells the rows of one save from those of another: the version saved.
Mentions == [of : Nat, to : SUBSET Mentionable]

\* An editor has the document as it was at version "ver" ("base").  A move
\* ("text" is not sent) climbs from the new parent "to"; "seen" and "next" are
\* where it is.  A deletion works on the children "kids" it has read.
Call == [at : {"idle", "editing", "climbing", "saving", "creating", "deleting"},
         doc : Docs \cup {NoDoc}, ver : Nat, base : Contents,
         field : {"content", "parent"}, text : Contents, to : Docs \cup {NoDoc},
         seen : SUBSET Docs, next : Docs \cup {NoDoc}, kids : SUBSET Docs]

Idle == [at |-> "idle", doc |-> NoDoc, ver |-> 0, base |-> {}, field |-> "content",
         text |-> {}, to |-> NoDoc, seen |-> {}, next |-> NoDoc, kids |-> {}]

TypeOK ==
    /\ doc \in [Docs -> Doc]
    /\ mentions \in [Docs -> Mentions]
    /\ call \in [Requests -> Call]

Init ==
    /\ doc = [d \in Docs |->
                [state |-> "new", version |-> 0, content |-> {}, parent |-> NoDoc]]
    /\ mentions = [d \in Docs |-> [of |-> 0, to |-> {}]]
    /\ call = [r \in Requests |-> Idle]

Live == {d \in Docs : doc[d].state = "live"}
Resolvable == Live \cup Entities

\* What a save, a move, the loss of the parent and a deletion write.
Rewritten(x, v, text) == [x EXCEPT !.version = v, !.content = text]
Moved(x, v, p) == [x EXCEPT !.version = v, !.parent = p]
Promoted(x) == [x EXCEPT !.parent = NoDoc]
Deleted(x) == [x EXCEPT !.state = "deleted"]

\* A parent that the foreign key accepts.
Possible(p) == p = NoDoc \/ p \in Live

-----------------------------------------------------------------------------
\* create_doc

\* validate_parent finds the parent; a parent chain is not walked.
CreateRead(r, p) ==
    /\ call[r] = Idle
    /\ Possible(p)
    /\ call' = [call EXCEPT ![r] = [Idle EXCEPT !.at = "creating", !.to = p]]
    /\ UNCHANGED <<doc, mentions>>

\* A new id, INSERT and commit; the foreign key refuses a parent deleted
\* meanwhile.
CreateInsert(r, d) ==
    /\ call[r].at = "creating"
    /\ doc[d].state = "new"
    /\ doc' = IF Possible(call[r].to)
                THEN [doc EXCEPT ![d] = [state |-> "live", version |-> 1, content |-> {},
                                         parent |-> call[r].to]]
                ELSE doc
    /\ call' = [call EXCEPT ![r] = Idle]
    /\ UNCHANGED mentions

-----------------------------------------------------------------------------
\* update_doc, from GET /docs/{id} on

\* The editor loads the document.
Open(r, d) ==
    /\ call[r] = Idle
    /\ d \in Live
    /\ call' = [call EXCEPT ![r] = [Idle EXCEPT !.at = "editing", !.doc = d,
                                      !.ver = doc[d].version, !.base = doc[d].content]]
    /\ UNCHANGED <<doc, mentions>>

\* The fast check of the version; a conflict ends the call (Abort).
Current(r) ==
    /\ call[r].doc \in Live
    /\ doc[call[r].doc].version = call[r].ver
    /\ call[r].ver < MaxVersion

\* A mention is chosen among the documents that exist, or was already there.
SaveContent(r, c) ==
    /\ call[r].at = "editing"
    /\ Current(r)
    /\ c \subseteq Resolvable \cup call[r].base
    /\ call' = [call EXCEPT ![r] = [@ EXCEPT !.at = "saving", !.field = "content", !.text = c]]
    /\ UNCHANGED <<doc, mentions>>

\* Mutant: the walk goes on at the row it is at.
VisitStays(c, n) ==
    IF n \in c.seen THEN Idle
    ELSE IF doc[n].parent = NoDoc THEN [c EXCEPT !.at = "saving"]
    ELSE IF Cardinality(c.seen) = MaxDepth THEN Idle
    ELSE [c EXCEPT !.at = "climbing", !.seen = @ \cup {n}, !.next = doc[n]]

\* One round of validate_parent's loop at the row n: a known row is a cycle, a
\* root ends the walk well, and MaxDepth rows without a root are too many.
Visit(c, n) ==
    IF n \in c.seen THEN Idle
    ELSE IF doc[n].parent = NoDoc THEN [c EXCEPT !.at = "saving"]
    ELSE IF Cardinality(c.seen) = MaxDepth THEN Idle
    ELSE [c EXCEPT !.at = "climbing", !.seen = @ \cup {n}, !.next = doc[n].parent]

\* A move to the root is not walked; one below another document starts there.
SaveParent(r, p) ==
    /\ call[r].at = "editing"
    /\ Current(r)
    /\ p # call[r].doc
    /\ LET c == [call[r] EXCEPT !.field = "parent", !.to = p, !.seen = {call[r].doc}]
       IN  \/ p = NoDoc /\ call' = [call EXCEPT ![r] = [c EXCEPT !.at = "saving"]]
           \/ p \in Live /\ call' = [call EXCEPT ![r] = Visit(c, p)]
    /\ UNCHANGED <<doc, mentions>>

\* The next row up; a row that is gone ends the walk well, too.
Climb(r) ==
    /\ call[r].at = "climbing"
    /\ call' = [call EXCEPT ![r] = IF call[r].next \in Live \cup call[r].seen
                                     THEN Visit(@, call[r].next)
                                     ELSE [@ EXCEPT !.at = "saving"]]
    /\ UNCHANGED <<doc, mentions>>

\* What a text mentions, sorted and cut at MAX_MENTIONS_PER_DOC.
Targets(text) ==
    {d \in text : Cardinality({e \in text : Rank[e] < Rank[d]}) < MaxMentions}

\* sync_mentions: the rows are replaced by the targets that resolve now; one that
\* does not has taken its place among them all the same.
Synced(d, text, v) == [mentions EXCEPT ![d] = [of |-> v, to |-> Targets(text) \cap Resolvable]]

\* Mutant: the UPDATE does not compare the version again.
StorableUnlessDeleted(c) ==
    /\ c.doc \in Live
    /\ c.field = "parent" => Possible(c.to)

\* The compare-and-swap finds its row, and the foreign key its parent.
Storable(c) ==
    /\ c.doc \in Live /\ doc[c.doc].version = c.ver
    /\ c.field = "parent" => Possible(c.to)

\* The UPDATE with the mentions and the commit, or a conflict and a rollback.
Store(r) ==
    LET c == call[r]
        v == c.ver + 1
    IN  /\ c.at = "saving"
        /\ call' = [call EXCEPT ![r] = Idle]
        /\ \/ /\ ~Storable(c)
              /\ UNCHANGED <<doc, mentions>>
           \/ /\ Storable(c) /\ c.field = "content"
              /\ doc' = [doc EXCEPT ![c.doc] = Rewritten(@, v, c.text)]
              /\ mentions' = Synced(c.doc, c.text, v)
           \/ /\ Storable(c) /\ c.field = "parent"
              /\ doc' = [doc EXCEPT ![c.doc] = Moved(@, v, c.to)]
              /\ UNCHANGED mentions

\* Mutant: the approved content is written and the mentions are not.
AgentEditOnly(d, c) ==
    /\ d \in Live
    /\ doc[d].version < MaxVersion
    /\ c \subseteq Resolvable \cup doc[d].content
    /\ doc' = [doc EXCEPT ![d] = Rewritten(@, @.version + 1, c)]
    /\ UNCHANGED <<mentions, call>>

\* _apply_doc_update, in the transaction of an apply, which has locked the row
\* before it reads it.
AgentEdit(d, c) ==
    /\ d \in Live
    /\ doc[d].version < MaxVersion
    /\ c \subseteq Resolvable \cup doc[d].content
    /\ doc' = [doc EXCEPT ![d] = Rewritten(@, @.version + 1, c)]
    /\ mentions' = Synced(d, c, doc[d].version + 1)
    /\ UNCHANGED call

-----------------------------------------------------------------------------
\* delete_doc

\* Mutant: every document of the project that has a parent.
ChildrenOfAny(d) == {k \in Live : doc[k].parent # NoDoc}

Children(d) == {k \in Live : doc[k].parent = d}

\* The children and the mentions of the document are read.
DeleteRead(r, d) ==
    /\ call[r] = Idle
    /\ d \in Live
    /\ call' = [call EXCEPT ![r] = [Idle EXCEPT !.at = "deleting", !.doc = d,
                                      !.ver = mentions[d].of, !.kids = Children(d)]]
    /\ UNCHANGED <<doc, mentions>>

\* A child that is gone cannot be updated, and the foreign keys refuse the
\* deletion under a child or a mention that was not there when it was read.
Deletable(c) ==
    /\ c.kids \subseteq Live
    /\ Children(c.doc) \subseteq c.kids
    /\ mentions[c.doc].to # {} => mentions[c.doc].of = c.ver

\* Every child that was read becomes a root, wherever it is by now.
DeleteCommit(r) ==
    LET c == call[r]
    IN  /\ c.at = "deleting"
        /\ call' = [call EXCEPT ![r] = Idle]
        /\ IF Deletable(c)
             THEN /\ doc' = [d \in Docs |->
                        IF d = c.doc THEN Deleted(doc[d])
                        ELSE IF d \in c.kids THEN Promoted(doc[d])
                        ELSE doc[d]]
                  /\ mentions' = [mentions EXCEPT ![c.doc].to = {}]
             ELSE UNCHANGED <<doc, mentions>>

-----------------------------------------------------------------------------
\* repair_parent_integrity

Parents == [d \in Docs |-> IF d \in Live THEN doc[d].parent ELSE NoDoc]

\* Mutant: only a document that is its parent's parent is on a cycle.
RejectedPair(parent, d) ==
    parent[d] # NoDoc /\ (parent[d] = d \/ parent[parent[d]] = d)

\* The walk from the parent of d meets no root within MaxDepth rows: a cycle, or
\* a chain too deep.
Rejected(parent, d) ==
    LET up[n \in 0..(MaxDepth + 1)] ==
            IF n = 0 THEN d ELSE IF up[n - 1] = NoDoc THEN NoDoc ELSE parent[up[n - 1]]
    IN  up[MaxDepth + 1] # NoDoc

\* The rows come in any order; a link that is cleared is gone for the rows that
\* come later.
Orders == Bijection(1..Cardinality(Docs), Docs)

Repaired(parent, order) ==
    LET after[n \in 0..Cardinality(Docs)] ==
            IF n = 0 THEN parent
            ELSE IF Rejected(after[n - 1], order[n])
                   THEN [after[n - 1] EXCEPT ![order[n]] = NoDoc]
                   ELSE after[n - 1]
    IN  after[Cardinality(Docs)]

\* An operator repairs the links between two requests.
Repair ==
    /\ \A r \in Requests : call[r] = Idle
    /\ \E order \in Orders :
          doc' = [d \in Docs |->
             IF d \in Live /\ Repaired(Parents, order)[d] = NoDoc
               THEN Promoted(doc[d]) ELSE doc[d]]
    /\ UNCHANGED <<mentions, call>>

-----------------------------------------------------------------------------
\* A conflict, a refused value, or the request dies: nothing is written.
Abort(r) ==
    /\ call[r] # Idle
    /\ call' = [call EXCEPT ![r] = Idle]
    /\ UNCHANGED <<doc, mentions>>

Step(r) ==
    \/ Climb(r) \/ Store(r) \/ DeleteCommit(r) \/ Abort(r)
    \/ \E d \in Docs : CreateInsert(r, d)
    \/ \E c \in Contents : SaveContent(r, c)
    \/ \E p \in Docs \cup {NoDoc} : SaveParent(r, p)

Next ==
    \/ \E r \in Requests :
          \/ Step(r)
          \/ \E d \in Docs : Open(r, d) \/ DeleteRead(r, d)
          \/ \E p \in Docs \cup {NoDoc} : CreateRead(r, p)
    \/ \E d \in Docs, c \in Contents : AgentEdit(d, c)
    \/ Repair

Spec == Init /\ [][Next]_vars

-----------------------------------------------------------------------------
\* Properties

\* A save never overwrites content its editor has not seen, whoever saved,
\* agents included, since it was loaded (the compare-and-swap of update_doc, and
\* the version that _apply_doc_update increments).
NoLostStep ==
    \A r \in Requests :
       LET d == call[r].doc
       IN  call[r].at = "saving" /\ call'[r] # call[r] /\ doc'[d] # doc[d] =>
              call[r].base = doc[d].content

NoLostSave == [][NoLostStep]_vars

\* The backlinks tell the content: nothing that is not among the targets of the text
\* as it is now, everything that is and exists, and never more rows than the limit
\* (sync_mentions, on both paths that write content; test_mention_rows_per_doc_are_capped).
MentionsFollowContent ==
    \A d \in Live :
       /\ mentions[d].to \subseteq Targets(doc[d].content)
       /\ Targets(doc[d].content) \cap Resolvable \subseteq mentions[d].to
       /\ Cardinality(mentions[d].to) <= MaxMentions

\* The documents above which there is no root.
Rootless(parent) ==
    UNION {S \in SUBSET Docs : \A d \in S : parent[d] \in S}

\* No document is above itself, whatever moves overlap (the comment in
\* validate_parent: "Meeting the child means the new edge would close a loop").
NoParentCycle == Rootless(Parents) = {}

\* In whatever order the rows come, the repair leaves no cycle and moves only
\* documents that were on or under one (repair_parent_integrity; for instances
\* with too few documents for a chain deeper than MaxDepth).
RepairConverges ==
    \A order \in Orders :
       LET repaired == Repaired(Parents, order)
       IN  /\ Rootless(repaired) = {}
           /\ \A d \in Docs : repaired[d] # Parents[d] => d \in Rootless(Parents)

=============================================================================
