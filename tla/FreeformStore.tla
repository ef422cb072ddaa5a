--------------------------- MODULE FreeformStore ---------------------------
(***************************************************************************)
(* Where a FreeForm board lives.  Beside a local server it is a directory: *)
(* a call reads items.json and writes the files one by one.  Writing one   *)
(* empties it first: the server may die between two files or inside one.   *)
(* One server has the directory; nothing keeps a second one from it.       *)
(* With a remote server the board stays with the client: its hook sends    *)
(* each tool the fragment it needs and the highest number of the board,    *)
(* the server answers the fragment changed and keeps nothing, and the hook *)
(* merges it into the file.  Calls are under way side by side; an answer   *)
(* may come late or never.                                                 *)
(*                                                                         *)
(* The hook is not in the repository's server: it is modelled from its     *)
(* tests (tests/hooks/freeform-fragment.test.mjs) and from                 *)
(* doc/runbooks/freeform-only-mode.md.  An answer takes less than the hour *)
(* a reservation lasts.                                                    *)
(***************************************************************************)
EXTENDS FreeformBoard

CONSTANTS
    Calls,    \* calls, by their tool_use_id
    None,     \* nothing under way
    Overlap,  \* whether calls about the same use case overlap
    MaxFaults \* bound: answers that are lost, deaths of the server

ASSUME OverlapIsBoolean == Overlap \in BOOLEAN
ASSUME BoundIsNumber == MaxFaults \in Nat

VARIABLES
    remote,  \* whether the server is remote
    pending, \* what the hook remembers of each call: .quality/freeform-fragments
    made,    \* the calls made
    born,    \* the ids ever drawn
    archive, \* archive.json, as last written: for each id how often it is there
    purged,  \* the ids in purged.jsonl
    doing,   \* the call of a local server that has written part of its files
    torn,    \* the files that the server died in, which cannot be read
    cut,     \* what stood in such a file, or was being purged when the server died
    faults   \* faults so far

store == <<remote, pending, made, born, archive, purged, doing, torn, cut, faults>>
storeVars == <<board, store>>

\* What is left to write of a call of a local server.
Unfinished == [step : {"listing"}, item : Ids, next : Ids, text : Texts]
              \cup [step : {"shelved"}, item : Ids]
              \cup [step : {"erased", "unshelved"}, item : Ids, gone : SUBSET Ids]

ASSUME NoneIsFinished == None \notin Unfinished

\* What is asked: `item` is the use case or the criterion it is about.
Asked == [tool : {"add_uc"}, text : Texts, listed : BOOLEAN]
         \cup [tool : {"add_ac"}, item : Ids, text : Texts]
         \cup [tool : {"state"}, item : Ids, state : States]
         \cup [tool : {"text"}, item : Ids, text : Texts]
         \cup [tool : {"archive", "purge"}, item : Ids]

\* add_uc with acceptance criteria: here, one.
WithCriteria(ask) == ask.tool = "add_uc" /\ ask.listed

StoreInit ==
    /\ BoardInit
    /\ remote \in BOOLEAN
    /\ pending = [c \in Calls |-> None]
    /\ made = {} /\ born = {}
    /\ archive = [i \in Ids |-> 0]
    /\ purged = {}
    /\ doing = None /\ torn = {} /\ cut = {}
    /\ faults = 0

Fault == faults < MaxFaults /\ faults' = faults + 1

-----------------------------------------------------------------------------
\* The server.  It works on the list `b` it is given, which may be a fragment;
\* `floor` is the highest number of the board, as far as it was told.

TopOfFragment(b, floor) == Max({0} \cup NumbersOf(b)) \* (mutant) the floor is not counted

\* find_max_uc_number.
Top(b, floor) == Max({floor} \cup NumbersOf(b))

\* The list after the call, with the new ids `new`.  It answers an error, and
\* no list, when what the call is about is not there.
Possible(b, ask) ==
    CASE ask.tool = "add_uc" -> TRUE
      [] ask.tool = "add_ac" -> ask.item \in CasesOf(b)
      [] ask.tool = "state"  -> /\ ask.item \in DOMAIN b
                                /\ b[ask.item].kind = "AC" => ask.state \in {"backlog", "done"}
      [] ask.tool = "text"   -> ask.item \in DOMAIN b
      [] OTHER               -> ask.item \in CasesOf(b)

\* delete_uc archives the use case that it may not purge.
Answer(b, floor, ask, new) ==
    CASE ask.tool = "add_uc" ->
            LET plain == WithCase(b, new[1], Top(b, floor) + 1, ask.text)
            IN  IF WithCriteria(ask) THEN WithCriterion(plain, new[2], new[1], ask.text) ELSE plain
      [] ask.tool = "add_ac" -> WithCriterion(b, new[1], ask.item, ask.text)
      [] ask.tool = "state" -> WithState(b, ask.item, ask.state)
      [] ask.tool = "text" -> WithText(b, ask.item, ask.text)
      [] ask.tool = "purge" /\ Purgeable(b, ask.item) -> Without(b, Gone(b, ask.item))
      [] OTHER -> Without(b, {ask.item})

\* Fresh ids for a call.
Drawn(ask) ==
    LET number == IF WithCriteria(ask) THEN 2
                  ELSE IF ask.tool \in {"add_uc", "add_ac"} THEN 1 ELSE 0
    IN  Injection(1..number, Ids \ born)

-----------------------------------------------------------------------------
\* The board with the client.

\* The use case a call is about.
About(ask) == IF ask.tool = "add_uc" THEN {} ELSE {board[ask.item].under}

UnderWay == {c \in Calls : pending[c] # None}

\* What a tool is sent: add_uc only the story, delete_uc the whole list, the
\* others the use case and its criteria.
FragmentOf(ask) ==
    CASE ask.tool = "add_uc" -> <<>>
      [] ask.tool \in {"archive", "purge"} -> board
      [] OTHER -> Restrict(board, UNION {Gone(board, u) : u \in About(ask)})

Reserved == {pending[c].reserves : c \in UnderWay}

\* PreToolUse: the fragment goes out, and its number is reserved.
Send(c, ask) ==
    /\ remote /\ c \notin made
    /\ ask.tool # "add_uc" => ask.item \in DOMAIN board
    /\ ask.tool # "add_uc" => board[ask.item].under \in DOMAIN board
    /\ Overlap \/ \A d \in UnderWay : pending[d].about \cap About(ask) = {}
    /\ LET floor == Max({0} \cup NumbersOf(board) \cup Reserved)
       IN  pending' = [pending EXCEPT ![c] =
               [ask |-> ask, sent |-> FragmentOf(ask), floor |-> floor, about |-> About(ask),
                reserves |-> IF ask.tool = "add_uc" THEN floor + 1 ELSE 0]]
    /\ made' = made \cup {c}
    /\ UNCHANGED <<board, remote, born, archive, purged, doing, torn, cut, faults>>

\* mergeFragment: the fields that the tool changed, without the items it removed
\* and with those it added.
MergedItem(mine, sent, back) ==
    [mine EXCEPT !.state = IF back.state = sent.state THEN mine.state ELSE back.state,
                 !.text = IF back.text = sent.text THEN mine.text ELSE back.text]

Merged(local, sent, back) ==
    [i \in (DOMAIN local \ (DOMAIN sent \ DOMAIN back)) \cup (DOMAIN back \ DOMAIN sent) |->
        IF i \notin DOMAIN back THEN local[i]
        ELSE IF i \notin DOMAIN sent THEN back[i]
        ELSE MergedItem(local[i], sent[i], back[i])]

\* PostToolUse.
Receive(c) ==
    /\ c \in UnderWay
    /\ LET p == pending[c]
       IN  IF Possible(p.sent, p.ask)
           THEN \E new \in Drawn(p.ask) :
                /\ board' = Merged(board, p.sent, Answer(p.sent, p.floor, p.ask, new))
                /\ born' = born \cup Range(new)
           ELSE UNCHANGED <<board, born>>
    /\ pending' = [pending EXCEPT ![c] = None]
    /\ UNCHANGED <<remote, made, archive, purged, doing, torn, cut, faults>>

\* No answer comes, or it cannot be merged; an hour later its reservation is void.
Forget(c) ==
    /\ c \in UnderWay /\ Fault
    /\ pending' = [pending EXCEPT ![c] = None]
    /\ UNCHANGED <<board, remote, made, born, archive, purged, doing, torn, cut>>

-----------------------------------------------------------------------------
\* The board beside the server.

\* Every call reads items.json first, and raises when it cannot.
Usable == ~remote /\ doing = None /\ "items" \notin torn
Begin(c) == Usable /\ c \notin made /\ made' = made \cup {c}

\* Every call but delete_uc writes items.json and nothing else,
Write(c, ask) ==
    /\ Begin(c)
    /\ ask.tool \notin {"archive", "purge"}
    /\ ~WithCriteria(ask)
    /\ Possible(board, ask)
    /\ \E new \in Drawn(ask) :
        /\ board' = Answer(board, 0, ask, new)
        /\ born' = born \cup Range(new)
    /\ UNCHANGED <<remote, pending, archive, purged, doing, torn, cut, faults>>

\* once, or twice for a use case with criteria.
WriteCase(c, ask) ==
    /\ Begin(c)
    /\ WithCriteria(ask)
    /\ \E new \in Drawn(ask) :
        /\ board' = Answer(board, 0, [ask EXCEPT !.listed = FALSE], new)
        /\ born' = born \cup {new[1]}
        /\ doing' = [step |-> "listing", item |-> new[1], next |-> new[2], text |-> ask.text]
    /\ UNCHANGED <<remote, pending, archive, purged, torn, cut, faults>>

List ==
    /\ doing # None /\ doing.step = "listing"
    /\ board' = WithCriterion(board, doing.next, doing.item, doing.text)
    /\ born' = born \cup {doing.next}
    /\ doing' = None
    /\ UNCHANGED <<remote, pending, made, archive, purged, torn, cut, faults>>

\* archive.json as archive_item reads it: empty when it cannot be read.
Archived == IF "archive" \in torn THEN [i \in Ids |-> 0] ELSE archive

\* archive_item writes archive.json, over one that it could not read,
Shelve(c, u, purge) ==
    /\ Begin(c)
    /\ u \in CasesOf(board)
    /\ purge => ~Purgeable(board, u)
    /\ archive' = [Archived EXCEPT ![u] = @ + 1]
    /\ torn' = torn \ {"archive"}
    /\ doing' = [step |-> "shelved", item |-> u]
    /\ UNCHANGED <<board, remote, pending, born, purged, cut, faults>>

\* then items.json.
Unlist ==
    /\ doing # None /\ doing.step = "shelved"
    /\ board' = Without(board, {doing.item})
    /\ doing' = None
    /\ UNCHANGED <<remote, pending, made, born, archive, purged, torn, cut, faults>>

\* purge_use_case writes items.json, and archive.json if the use case was there
\* only: one that is in both, because the server died, keeps its copy there.  It
\* raises when it needs archive.json and cannot read it.
Erase(c, u) ==
    /\ Begin(c)
    /\ \/ u \in CasesOf(board) /\ Purgeable(board, u)
       \/ /\ u \notin DOMAIN board /\ "archive" \notin torn /\ archive[u] > 0
          /\ \A a \in CriteriaOf(board, u) : board[a].state # "done"
    /\ board' = Without(board, Gone(board, u))
    /\ doing' = [step |-> IF u \in DOMAIN board THEN "unshelved" ELSE "erased", item |-> u,
                 gone |-> Gone(board, u)]
    /\ UNCHANGED <<remote, pending, born, archive, purged, torn, cut, faults>>

Unshelve ==
    /\ doing # None /\ doing.step = "erased"
    /\ archive' = [archive EXCEPT ![doing.item] = 0]
    /\ doing' = [doing EXCEPT !.step = "unshelved"]
    /\ UNCHANGED <<board, remote, pending, made, born, purged, torn, cut, faults>>

LogCaseOnly == \* (mutant) the copy has no criteria
    /\ doing # None /\ doing.step = "unshelved"
    /\ purged' = purged \cup {doing.item}
    /\ doing' = None
    /\ UNCHANGED <<board, remote, pending, made, born, archive, torn, cut, faults>>

\* The copy in purged.jsonl comes last.
Log ==
    /\ doing # None /\ doing.step = "unshelved"
    /\ purged' = purged \cup doing.gone
    /\ doing' = None
    /\ UNCHANGED <<board, remote, pending, made, born, archive, torn, cut, faults>>

\* The server ends between two writes, or inside the last one, whose line is then
\* cut short.
Die ==
    /\ doing # None /\ Fault
    /\ cut' = IF doing.step \in {"shelved", "listing"} THEN cut ELSE cut \cup doing.gone
    /\ doing' = None
    /\ UNCHANGED <<board, remote, pending, made, born, archive, purged, torn>>

\* It ends while it writes items.json, as the first file of a call or the second.
\* A call that has written nothing does not count.
TearItems ==
    /\ Fault
    /\ Usable \/ (doing # None /\ doing.step \in {"listing", "shelved"})
    /\ torn' = torn \cup {"items"}
    /\ cut' = cut \cup DOMAIN board
    /\ doing' = None
    /\ UNCHANGED <<board, remote, pending, made, born, archive, purged>>

\* It ends while archive_item or purge_use_case writes archive.json.
TearArchive ==
    /\ Fault
    /\ \/ Usable /\ CasesOf(board) # {}
       \/ doing # None /\ doing.step = "erased"
    /\ torn' = torn \cup {"archive"}
    /\ cut' = cut \cup {i \in Ids : Archived[i] > 0}
                 \cup (IF doing = None THEN {} ELSE doing.gone)
    /\ doing' = None
    /\ UNCHANGED <<board, remote, pending, made, born, archive, purged>>

StoreNext ==
    \/ \E c \in Calls :
        \/ \E ask \in Asked : Send(c, ask) \/ Write(c, ask) \/ WriteCase(c, ask)
        \/ Receive(c) \/ Forget(c)
        \/ \E u \in Ids : Erase(c, u) \/ \E purge \in BOOLEAN : Shelve(c, u, purge)
    \/ List \/ Unlist \/ Unshelve \/ Log
    \/ Die \/ TearItems \/ TearArchive

StoreSpec == StoreInit /\ [][StoreNext]_storeVars

-----------------------------------------------------------------------------
\* Beside the server an item that was ever made can be read in items.json, in
\* archive.json or, purged, in purged.jsonl, however calls and deaths follow each
\* other: unless the server died in a write of a file that it stood in, which the
\* next archive_item overwrites if it is archive.json, or in that very purge.
RemovedIsKept ==
    ~remote =>
        \A i \in born :
            \/ i \in DOMAIN board /\ "items" \notin torn
            \/ i \in purged \cup cut
            \/ Archived[i] > 0
            \/ doing # None /\ doing.step \in {"erased", "unshelved"} /\ i \in doing.gone

=============================================================================
