---------------------------- MODULE ContextPacks ----------------------------
(***************************************************************************)
(* A context pack for an agent: generate_preview of                        *)
(* services/context_pack_service.py.                                       *)
(*                                                                         *)
(* The governance files are read and may refuse the pack; the selected     *)
(* sources are put together, and while the pack exceeds its budget the     *)
(* optional ones are trimmed in the order of prompt/tokens.py.  Sizes are  *)
(* tokens in rough units.  The first state is the request and what it      *)
(* finds; a request changes nothing but its own pack.                      *)
(***************************************************************************)
EXTENDS Naturals, Sequences, FiniteSetsExt

CONSTANTS
    Docs,       \* documents that are selected, by their rank: 1..n
    Long,       \* DOC_TRUNCATE_CHARS
    HardCap,    \* HARD_CAP_TOKENS
    MaxSize     \* bound: the size of a document

VARIABLES
    budget, core, confirmed,    \* the preset, what is never trimmed, the confirmation
    governance,                 \* the status of each governance file
    optional, doc,              \* the sources of the pack
    at, step                    \* where generate_preview is, and _apply_budget

request == <<budget, core, confirmed, governance>>
vars == <<budget, core, confirmed, governance, optional, doc, at, step>>

Files == {"FILES_ALLOWED", "FILES_FORBIDDEN", "AGENT_RULES"}

\* Mutant: a file that is missing is only noted.
RefusableIfThere == {"drifted", "unavailable"}

\* "empty" is a file with no text, whose checksum is that of its row.
Statuses == {"ok", "empty", "drifted", "missing-on-disk", "no-record", "no-root", "unavailable"}
Refusable == {"drifted", "missing-on-disk", "unavailable"}

\* The optional sources, by the class that is trimmed together.
Class == [audit_recent |-> "audit", tasks_done |-> "tasks_done",
          risks_closed |-> "risks_closed", blockers_resolved |-> "risks_closed",
          decisions_extra |-> "decisions_extra"]
Optional == DOMAIN Class
TrimOrder == <<"audit", "tasks_done", "risks_closed", "decisions_extra",
               "doc_truncate", "doc_drop", "pinned">>

\* A source is not selected, in the pack, or dropped; a document that is cut at a
\* heading has the size "short", which the marker of the cut may make a bit longer
\* than Long.
Source == [in : {"no", "yes", "dropped"}, pinned : BOOLEAN]
Doc == [in : {"no", "yes", "dropped"}, pinned : BOOLEAN, size : 1..MaxSize,
        short : 1..(Long + 1), cut : BOOLEAN]

TypeOK ==
    /\ budget \in Nat /\ core \in Nat /\ confirmed \in BOOLEAN
    /\ governance \in [Files -> Statuses]
    /\ optional \in [Optional -> Source]
    /\ doc \in [Docs -> Doc]
    /\ at \in {"governance", "sources", "trimming", "answered",
              "refused", "not_found", "too_large"}
    /\ step \in 1..Len(TrimOrder)

\* Any request for a pack, and anything it may find.
Init ==
    /\ TypeOK /\ at = "governance" /\ step = 1
    /\ \A s \in Optional : optional[s].in # "dropped"
    /\ \A d \in Docs : doc[d].in # "dropped" /\ ~doc[d].cut

-----------------------------------------------------------------------------
\* Sizes

SizeOf(d) == IF doc[d].cut THEN doc[d].short ELSE doc[d].size
Chosen == {s \in Optional : optional[s].in = "yes"}
Shown == {d \in Docs : doc[d].in = "yes"}
Total == core + Cardinality(Chosen) + MapThenSumSet(SizeOf, Shown)
Fits == Total <= budget
TooLong(d) == doc[d].size > Long

-----------------------------------------------------------------------------
\* generate_preview

\* A project that has never had governance files is not refused.
Refused == ~confirmed /\ \E f \in Files : governance[f] \in Refusable

ReadGovernance ==
    /\ at = "governance"
    /\ at' = IF Refused THEN "refused" ELSE "sources"
    /\ UNCHANGED <<request, optional, doc, step>>

\* A selected document may not be one of the project.  The hard cap is asked before
\* anything is trimmed; what governance adds is not counted.
PutTogether ==
    /\ at = "sources"
    /\ \/ at' = IF Total > HardCap THEN "too_large" ELSE "trimming"
       \/ Shown # {} /\ at' = "not_found"
    /\ UNCHANGED <<request, optional, doc, step>>

-----------------------------------------------------------------------------
\* _apply_budget

Advance == step' = step + 1 /\ UNCHANGED <<request, at>>

Enough ==
    /\ at = "trimming" /\ Fits
    /\ at' = "answered"
    /\ UNCHANGED <<request, optional, doc, step>>

\* Mutant: pinned sources are dropped with their class.
TrimPinnedToo ==
    /\ at = "trimming" /\ ~Fits /\ step <= 4
    /\ optional' = [s \in Optional |->
          IF s \in Chosen /\ Class[s] = TrimOrder[step]
          THEN [optional[s] EXCEPT !.in = "dropped"] ELSE optional[s]]
    /\ Advance /\ UNCHANGED doc

TrimClass ==
    /\ at = "trimming" /\ ~Fits /\ step <= 4
    /\ optional' = [s \in Optional |->
          IF s \in Chosen /\ Class[s] = TrimOrder[step] /\ ~optional[s].pinned
          THEN [optional[s] EXCEPT !.in = "dropped"] ELSE optional[s]]
    /\ Advance /\ UNCHANGED doc

\* All long documents in the pack that are (not) pinned are cut together.
CutWhere(pinned) ==
    doc' = [d \in Docs |->
        IF d \in Shown /\ doc[d].pinned = pinned /\ TooLong(d)
        THEN [doc[d] EXCEPT !.cut = TRUE] ELSE doc[d]]

CutDocs ==
    /\ at = "trimming" /\ ~Fits /\ TrimOrder[step] = "doc_truncate"
    /\ CutWhere(FALSE)
    /\ Advance /\ UNCHANGED optional

Victims == {d \in Shown : ~doc[d].pinned}

\* Mutant: the document the person put first goes first.
DropFirst ==
    /\ at = "trimming" /\ ~Fits /\ TrimOrder[step] = "doc_drop"
    /\ IF Victims = {} THEN UNCHANGED doc /\ Advance
       ELSE doc' = [doc EXCEPT ![Min(Victims)].in = "dropped"] /\ UNCHANGED <<request, at, step>>
    /\ UNCHANGED optional

\* One document at a time, the one of the lowest rank first.
DropDoc ==
    /\ at = "trimming" /\ ~Fits /\ TrimOrder[step] = "doc_drop"
    /\ IF Victims = {} THEN UNCHANGED doc /\ Advance
       ELSE doc' = [doc EXCEPT ![Max(Victims)].in = "dropped"] /\ UNCHANGED <<request, at, step>>
    /\ UNCHANGED optional

\* The last resort; the pack is answered also if it is still too large.
CutPinned ==
    /\ at = "trimming" /\ ~Fits /\ TrimOrder[step] = "pinned"
    /\ CutWhere(TRUE)
    /\ at' = "answered"
    /\ UNCHANGED <<request, optional, step>>

Next == ReadGovernance \/ PutTogether \/ Enough \/ TrimClass \/ CutDocs \/ DropDoc \/ CutPinned

Spec == Init /\ [][Next]_vars

-----------------------------------------------------------------------------
\* Properties

Gone == {s \in Optional : optional[s].in = "dropped"}
Dropped == {d \in Docs : doc[d].in = "dropped"}
Cut == {d \in Docs : doc[d].cut}
Rank(s) == CHOOSE i \in DOMAIN TrimOrder : TrimOrder[i] = Class[s]
Left == {s \in Chosen : ~optional[s].pinned}

\* The pack is over its budget only if nothing is left to trim, and what is trimmed
\* earlier is gone before what is trimmed later: the optional sources in the order
\* of their classes, then the ends of documents, then documents from the last one
\* on, each only because the pack with it was too large ("Drop lowest-ranked (last),
\* non-pinned docs one at a time").  What is pinned is dropped never, and cut only
\* after all else ("pinned docs are trimmed only after everything else",
\* _apply_budget).
TrimmedInOrder ==
    /\ (at = "answered" /\ ~Fits) =>
          Left = {} /\ Victims = {} /\ \A d \in Shown : TooLong(d) => d \in Cut
    /\ \A s \in Left, g \in Gone : Rank(g) <= Rank(s)
    /\ (Cut # {} \/ Dropped # {}) => Left = {}
    /\ \A d \in Dropped : \A e \in Victims : e < d /\ (TooLong(e) => e \in Cut)
    /\ (at = "answered" /\ Dropped # {}) => Total + SizeOf(Min(Dropped)) > budget \/ Victims = {}
    /\ \A s \in Gone : ~optional[s].pinned
    /\ \A d \in Dropped : ~doc[d].pinned
    /\ (\E d \in Cut : doc[d].pinned) => Left = {} /\ Victims = {}

\* A pack that nobody confirmed embeds every governance file the project has ever
\* had ("Raised instead of footnoting it", GovernanceIncompleteError) -- unless the
\* file is empty, which passes as sound and is then noted as unavailable.
ScopeIsWhole ==
    at \in {"trimming", "answered"} /\ ~confirmed =>
        \A f \in Files : governance[f] \in {"ok", "empty", "no-record", "no-root"}

PacksAreFair == TrimmedInOrder /\ ScopeIsWhole

=============================================================================
