---------------------------- MODULE BatchIngest ----------------------------
(***************************************************************************)
(* Batch ingestion into a native tenant: start_migration_session,          *)
(* append_migration_chunk and commit_migration_session (tools/migration.py)*)
(* over the store of open sessions (migration/batch_session.py) and the    *)
(* one transaction of NativeBackend.ingest_atomic.                         *)
(*                                                                         *)
(* A session declares the hash of a whole items.json and is sent its       *)
(* chunks, in any order, again when an answer is lost, and perhaps from    *)
(* another version of the file.  The sessions live in memory, ten minutes  *)
(* each, and a restart forgets them.  The boards are those of BoardMove.   *)
(***************************************************************************)
EXTENDS Naturals, FiniteSets, SequencesExt

CONSTANTS
    Stories,   \* user stories
    Cases,     \* use cases
    StoryOf,   \* the story of each use case
    Criteria,  \* the use cases that have acceptance criteria
    Pieces,    \* what a chunk may hold
    Carries,   \* the stories and use cases a piece lists
    Blobs,     \* versions of items.json: sequences of pieces
    Sessions,  \* session ids ever given out
    None       \* no session

Items == Stories \cup Cases

ASSUME StoriesAreNotCases == Stories \cap Cases = {}
ASSUME CasesHaveStories == StoryOf \in [Cases -> Stories] /\ Criteria \subseteq Cases
ASSUME PiecesCarryItems == Carries \in [Pieces -> SUBSET Items]
ASSUME BlobsAreText == Blobs \subseteq Seq(Pieces) /\ None \notin Blobs

VARIABLES
    board,  \* the target: for each item the cards that stand for it
    made,   \* whether the target exists
    store,  \* the open migration sessions, or None: the blob whose hash was
            \* declared, the number of items declared, the chunks by index
    opened  \* the session ids given out

ingest == <<board, made, store, opened>>

\* `named` cards are found by their logical id, `blank` ones lost theirs when
\* the request that was to set it failed.  `linked`: the use case hangs under
\* its story.  `listed`: its criteria are missing or incomplete ("lacking"), all
\* there but not all marked as in the source ("unmarked"), or as in the source
\* ("whole").
NoCard == [named |-> 0, blank |-> 0, linked |-> FALSE, listed |-> "lacking"]

Indexes == 0..2

\* chunks_expected of a session.
Expected(s) == Len(store[s].blob)

\* reassemble: the chunks in the order of their indexes, whichever these are.
Joined(chunks) ==
    LET order == SetToSortSeq(DOMAIN chunks, <)
    IN  [k \in DOMAIN order |-> chunks[order[k]]]

ItemsOf(text) == UNION {Carries[text[k]] : k \in DOMAIN text}

\* What ingest_atomic leaves of a payload with the items `read`: those that
\* are there are skipped, the others created in the one transaction.
Landed(read) ==
    [i \in Items |->
        IF i \notin read \/ board[i].named > 0 THEN board[i]
        ELSE [named |-> 1, blank |-> board[i].blank,
              linked |-> i \in Cases /\ StoryOf[i] \in read,
              listed |-> IF i \in Criteria THEN "whole" ELSE "lacking"]]

IngestInit ==
    /\ board = [i \in Items |-> NoCard]
    /\ made \in BOOLEAN
    /\ store = [s \in Sessions |-> None]
    /\ opened = {}

\* start_migration_session: provisions the tenant when it is missing or has
\* nobody, then opens the session.
Start(s, blob, declared) ==
    /\ s \notin opened
    /\ opened' = opened \cup {s}
    /\ made' = TRUE
    /\ store' = [store EXCEPT ![s] =
                    [blob |-> blob, declared |-> declared, chunks |-> <<>>]]
    /\ UNCHANGED board

\* append_migration_chunk: an index that is taken keeps its chunk.  No index is
\* out of range.
Stage(s, index, piece) ==
    /\ store[s] # None
    /\ index \notin DOMAIN store[s].chunks
    /\ LET more == [i \in DOMAIN store[s].chunks \cup {index} |->
                        IF i = index THEN piece ELSE store[s].chunks[i]]
       IN  store' = [store EXCEPT ![s].chunks = more]
    /\ UNCHANGED <<board, made, opened>>

\* The checks of both commits before they parse: all chunks, and the hash.
AllArrived(s) == Cardinality(DOMAIN store[s].chunks) = Expected(s)

IntactByNumber(s) == AllArrived(s) \* (mutant) all chunks, whatever they hold
Intact(s) == Joined(store[s].chunks) = store[s].blob

\* commit_migration_session, with the number of items the caller confirms.
\* When the transaction fails, or a check does, the session stays open.
Commit(s, confirmed) ==
    /\ store[s] # None
    /\ AllArrived(s) /\ Intact(s)
    /\ LET read == ItemsOf(Joined(store[s].chunks))
       IN  /\ Cardinality(read) = store[s].declared
           /\ confirmed = store[s].declared
           /\ board' = Landed(read)
    /\ store' = [store EXCEPT ![s] = None]
    /\ UNCHANGED <<made, opened>>

\* The ten minutes of a session are over; the server restarts.
Expire(s) ==
    /\ store[s] # None
    /\ store' = [store EXCEPT ![s] = None]
    /\ UNCHANGED <<board, made, opened>>

Restart ==
    /\ \E s \in Sessions : store[s] # None
    /\ store' = [s \in Sessions |-> None]
    /\ UNCHANGED <<board, made, opened>>

IngestNext ==
    \/ \E s \in Sessions :
        \/ \E blob \in Blobs, declared \in 0..Cardinality(Items) : Start(s, blob, declared)
        \/ \E index \in Indexes, piece \in Pieces : Stage(s, index, piece)
        \/ \E confirmed \in 0..Cardinality(Items) : Commit(s, confirmed)
        \/ Expire(s)
    \/ Restart

=============================================================================
