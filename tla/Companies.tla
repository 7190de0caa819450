----------------------------- MODULE Companies -----------------------------
(***************************************************************************)
(* The company registry: the routes of bridge/bridge.py that load, change  *)
(* and save companies.json, and the browser (js/company.js, persistence.js *)
(* and boot.js), which keeps lists of its own and posts them.              *)
(*                                                                         *)
(* No lock covers the files.  A deletion is kept in a blocklist beside the *)
(* registry, because a load merges in companies that older builds and the  *)
(* browser wrote elsewhere, and would bring deleted ones back.             *)
(*                                                                         *)
(* A request is a sequence of stretches of code, each with one access to a *)
(* file; opening a file for writing, which empties it, and writing it are  *)
(* two.  Sync routes run in pool threads; async ones run on the event loop *)
(* without a pause, so that nothing else starts meanwhile, but threads     *)
(* already started go on.                                                  *)
(***************************************************************************)
EXTENDS Naturals, Sequences

CONSTANTS
    Companies,   \* company ids
    Old,         \* those in the data directories of older builds
    MaxRestarts  \* bound: crashes of the bridge and reloads of the page

(***************************************************************************)
(* Where requests run.  A company's own slot: what its deletion awaits, one*)
(* request after the other; "post": what the browser sends and does not    *)
(* await; "list" and "create" share the event loop.                        *)
(***************************************************************************)
Async == {"list", "create"}
Slots == Async \cup {"post"} \cup Companies

NoCompany == "no company"

ASSUME CompaniesAssumption == /\ Old \subseteq Companies
                              /\ (Async \cup {"post", NoCompany}) \cap Companies = {}
ASSUME BoundAssumption == MaxRestarts \in Nat

(* A file is empty from open(..., "w") to the write; what two overlapping  *)
(* writers leave may not parse.                                            *)
Files   == [cond: {"whole", "empty", "mixed"}, ids: SUBSET Companies]
File(S) == [cond |-> "whole", ids |-> S]
Opened  == [cond |-> "empty", ids |-> {}]
Mixed   == [cond |-> "mixed", ids |-> {}]

(* What does not parse is read as nothing. *)
Read(f) == f.ids

Written(f, S) == {File(S)} \cup
                 (IF f \in {Opened, File(S)} THEN {} ELSE {Mixed})

(***************************************************************************)
(* The routes, as sequences of stretches.  _load_companies saves what it   *)
(* recovered; 404 ends a route.                                            *)
(***************************************************************************)
Load == <<"readMain", "filter", "merge", "openMain", "writeMain">>
Mark == <<"readIds", "openIds", "writeIds">>
Save == <<"openMain", "writeMain">>

Program(route) ==
    CASE route = "list"      -> Load
      [] route = "create"    -> Load \o <<"add">> \o Save
      [] route = "delete"    -> Load \o <<"drop">> \o Mark \o Save
      [] route = "blocklist" -> <<"readNew", "openIds", "writeIds",
                                  "readMain", "dropIds">> \o Save
      [] route = "copy"      -> <<"openCopy", "writeCopy">>

Stretches == {"readMain", "filter", "merge", "openMain", "writeMain", "add",
              "drop", "readIds", "readNew", "openIds", "writeIds", "dropIds",
              "openCopy", "writeCopy"}

(* Mutant: the deleted ids are not sent again after DELETE. *)
AfterDeleteOnce == <<"copy", "saveCompanies">>

(* What a deletion sends after DELETE, one after the other; and what a     *)
(* login sends after DELETE for each company deleted in this browser.      *)
AfterDelete == <<"blocklist", "copy", "saveCompanies">>
AfterScrub  == <<"blocklist", "copy">>

VARIABLES
    main,       \* companies.json
    blocklist,  \* deleted_companies.json
    oneFile,    \* is that also the one POST /data/save writes: no --project?
    copy,       \* if not, the companies.json of the project
    rest,       \* rest[s]: what is left of the request in slot s
    loaded,     \* loaded[s]: its dictionary of companies
    marked,     \* marked[s]: its set of deleted ids
    created,    \* the company that "create" is about
    page,       \* does the page wait for the listing, loaded or at login?
    shown,      \* the browser's companies
    deleted,    \* the browser's deleted companies (localStorage)
    chain,      \* chain[c]: what the deletion of c still has to send
    kept,       \* newList of deleteCompany
    settled,    \* history: what was deleted for good when the listing began
    cut,        \* history: changes cut short or undone, by a crash or a page load
    restarts    \* crashes and reloads so far (bound)

fileVars    == <<main, blocklist, oneFile, copy>>
requestVars == <<rest, loaded, marked>>
browserVars == <<created, page, shown, deleted, chain, kept>>
histVars    == <<settled, cut, restarts>>
vars == <<fileVars, requestVars, browserVars, histVars>>

TypeOK ==
    /\ main \in Files /\ blocklist \in Files /\ copy \in Files
    /\ oneFile \in BOOLEAN
    /\ rest \in [Slots -> Seq(Stretches)]
    /\ loaded \in [Slots -> SUBSET Companies]
    /\ marked \in [Slots -> SUBSET Companies]
    /\ created \in Companies \cup {NoCompany}
    /\ page \in {"quiet", "loading", "login"}
    /\ shown \subseteq Companies
    /\ deleted \subseteq Companies
    /\ chain \in [Companies -> Seq({"blocklist", "copy", "saveCompanies"})]
    /\ kept \subseteq Companies
    /\ settled \subseteq Companies
    /\ cut \subseteq {"creation", "deletion"}
    /\ restarts \in Nat

Free(s)  == rest[s] = <<>>
Begun(s) == ~Free(s) /\ Head(rest[s]) # "readMain"

(* Nothing the user or the page changed is under way. *)
Idle == /\ \A c \in Companies : chain[c] = <<>>
        /\ \A s \in Slots \ {"list"} : Free(s)

Init ==
    /\ main = File({}) /\ blocklist = File({}) /\ copy = File({})
    /\ oneFile \in BOOLEAN
    /\ rest    = [s \in Slots |-> <<>>]
    /\ loaded  = [s \in Slots |-> {}]
    /\ marked  = [s \in Slots |-> {}]
    /\ created = NoCompany
    /\ page = "quiet"
    /\ shown = {} /\ deleted = {} /\ kept = {}
    /\ chain = [c \in Companies |-> <<>>]
    /\ settled = {}
    /\ cut = {}
    /\ restarts = 0

-----------------------------------------------------------------------------
(* The stretches of a request.  Only one async route is under way.         *)

At(s, stretch) ==
    /\ ~Free(s) /\ Head(rest[s]) = stretch
    /\ s \in Async => \A u \in Async \ {s} : ~Begun(u)

(* Nothing is left of a request that ends but the answer of a listing. *)
GoesTo(s, program, S, M) ==
    /\ rest' = [rest EXCEPT ![s] = program]
    /\ loaded' = [loaded EXCEPT ![s] = IF program = <<>> /\ s # "list" THEN {} ELSE S]
    /\ marked' = [marked EXCEPT ![s] = IF program = <<>> THEN {} ELSE M]

Go(s, S, M)  == GoesTo(s, Tail(rest[s]), S, M)
End(s)       == GoesTo(s, <<>>, {}, {})
(* Leaves out the write of what was not changed. *)
Skip(s, S)   == GoesTo(s, SubSeq(rest[s], 4, Len(rest[s])), S, {})

(* _load_companies: the registry, without what is blocked, and what the    *)
(* other places have; a newer record counts as recovered too.              *)
ReadMain(s) == At(s, "readMain") /\ Go(s, Read(main), marked[s])
               /\ UNCHANGED fileVars

Filter(s) ==
    /\ At(s, "filter")
    /\ Go(s, loaded[s] \ Read(blocklist), Read(blocklist))
    /\ UNCHANGED fileVars

(* Mutant: what the browser wrote is not recovered. *)
ElsewhereButCopy == Read(main) \cup Old

Elsewhere == Read(main) \cup Read(copy) \cup Old

(* Mutant: recovery forgets the blocklist. *)
MergeAll(s) ==
    /\ At(s, "merge")
    /\ Go(s, loaded[s] \cup Elsewhere, {})
    /\ UNCHANGED fileVars

Merge(s) ==
    /\ At(s, "merge")
    /\ LET all == loaded[s] \cup (Elsewhere \ marked[s]) IN
         Go(s, all, {}) \/ (all = loaded[s] /\ Skip(s, all))
    /\ UNCHANGED fileVars

(* _save_companies. *)
OpenMain(s) ==
    /\ At(s, "openMain")
    /\ main' = Opened
    /\ Go(s, loaded[s], marked[s])
    /\ UNCHANGED <<blocklist, oneFile, copy>>

WriteMain(s) ==
    /\ At(s, "writeMain")
    /\ main' \in Written(main, loaded[s])
    /\ Go(s, loaded[s], marked[s])
    /\ UNCHANGED <<blocklist, oneFile, copy>>

Add(s) == At(s, "add") /\ Go(s, loaded[s] \cup {created}, {})
          /\ UNCHANGED fileVars

(* DELETE answers 404 when the company is not there. *)
Drop(s) ==
    /\ At(s, "drop")
    /\ IF s \in loaded[s] THEN Go(s, loaded[s] \ {s}, {}) ELSE End(s)
    /\ UNCHANGED fileVars

(* Mutant: what is marked is not the id of the route. *)
ReadIdsOfOther(s) ==
    /\ At(s, "readIds")
    /\ Go(s, loaded[s], Read(blocklist) \cup {created})
    /\ UNCHANGED fileVars

(* _mark_company_deleted. *)
ReadIds(s) ==
    /\ At(s, "readIds")
    /\ Go(s, loaded[s], Read(blocklist) \cup {s})
    /\ UNCHANGED fileVars

(* POST /data/save with the browser's deleted ids: merged with those on    *)
(* disk, written when that changes them, and taken out of the registry.    *)
ReadNew(s) ==
    /\ At(s, "readNew")
    /\ IF marked[s] \subseteq Read(blocklist)
       THEN End(s) ELSE Go(s, loaded[s], Read(blocklist) \cup marked[s])
    /\ UNCHANGED fileVars

OpenIds(s) ==
    /\ At(s, "openIds")
    /\ blocklist' = Opened
    /\ Go(s, loaded[s], marked[s])
    /\ UNCHANGED <<main, oneFile, copy>>

WriteIds(s) ==
    /\ At(s, "writeIds")
    /\ blocklist' \in Written(blocklist, marked[s])
    /\ Go(s, loaded[s], marked[s])
    /\ UNCHANGED <<main, oneFile, copy>>

DropIds(s) ==
    /\ At(s, "dropIds")
    /\ IF loaded[s] \cap marked[s] = {} THEN End(s) ELSE Go(s, loaded[s] \ marked[s], {})
    /\ UNCHANGED fileVars

(* POST /data/save with the browser's companies, into the data directory   *)
(* of the project, or into the registry itself.                            *)
OpenCopy(s) ==
    /\ At(s, "openCopy")
    /\ main' = IF oneFile THEN Opened ELSE main
    /\ copy' = IF oneFile THEN copy ELSE Opened
    /\ Go(s, loaded[s], marked[s])
    /\ UNCHANGED <<blocklist, oneFile>>

WriteCopy(s) ==
    /\ At(s, "writeCopy")
    /\ main' \in IF oneFile THEN Written(main, loaded[s]) ELSE {main}
    /\ copy' \in IF oneFile THEN {copy} ELSE Written(copy, loaded[s])
    /\ Go(s, loaded[s], marked[s])
    /\ UNCHANGED <<blocklist, oneFile>>

Step(s) ==
    /\ \/ ReadMain(s) \/ Filter(s) \/ Merge(s) \/ OpenMain(s) \/ WriteMain(s)
       \/ Add(s) \/ Drop(s) \/ DropIds(s)
       \/ ReadIds(s) \/ ReadNew(s) \/ OpenIds(s) \/ WriteIds(s)
       \/ OpenCopy(s) \/ WriteCopy(s)
    /\ UNCHANGED <<browserVars, histVars>>

-----------------------------------------------------------------------------
(* Requests.  Send puts some of them in free slots, with what they carry.  *)

Send(S, route, list, ids) ==
    /\ \A s \in S : Free(s)
    /\ rest'   = [s \in Slots |-> IF s \in S THEN Program(route[s]) ELSE rest[s]]
    /\ loaded' = [s \in Slots |-> IF s \in S THEN list ELSE loaded[s]]
    /\ marked' = [s \in Slots |-> IF s \in S THEN ids ELSE marked[s]]

(* _rehydrateCompaniesFromBridge when the page is loaded, and              *)
(* bootCompanyLayer at login, ask for the companies.                       *)
Ask(reason) ==
    /\ page = "quiet" /\ Idle
    /\ page' = reason
    /\ Send({"list"}, [s \in {"list"} |-> "list"], {}, {})
    /\ settled' = IF "deletion" \in cut THEN {} ELSE deleted
    /\ UNCHANGED <<fileVars, created, shown, deleted, chain, kept, cut, restarts>>

(* The page is loaded again in the middle of deletions: what the bridge was *)
(* sent goes on, the rest is not sent.                                     *)
Reload ==
    /\ \E c \in Companies : chain[c] # <<>>
    /\ restarts < MaxRestarts
    /\ restarts' = restarts + 1
    /\ page' = "loading"
    /\ Send({"list"}, [s \in {"list"} |-> "list"], {}, {})
    /\ chain' = [c \in Companies |-> <<>>] /\ kept' = {}
    /\ settled' = {}
    /\ cut' = cut \cup {"deletion"}
    /\ UNCHANGED <<fileVars, created, shown, deleted>>

(* No answer in time, or one without companies: nothing changes. *)
NoAnswer ==
    /\ page # "quiet" /\ Free("list")
    /\ page' = "quiet"
    /\ loaded' = [loaded EXCEPT !["list"] = {}]
    /\ settled' = {}
    /\ UNCHANGED <<fileVars, rest, marked, created, shown, deleted, chain, kept,
                   cut, restarts>>

(* The answer replaces the browser's list, unless all of it is deleted. At *)
(* login every company deleted in this browser is deleted once more.       *)
Answer ==
    /\ page # "quiet" /\ Free("list") /\ loaded["list"] # {}
    /\ page' = "quiet"
    /\ LET again  == IF page = "login" THEN deleted ELSE {}
           answer == loaded["list"] \ deleted
       IN  /\ shown' = IF answer = {} THEN shown ELSE answer
           /\ rest'  = [s \in Slots |-> IF s \in again THEN Program("delete") ELSE rest[s]]
           /\ chain' = [c \in Companies |-> IF c \in again THEN AfterScrub ELSE chain[c]]
    /\ loaded' = [loaded EXCEPT !["list"] = {}]
    /\ cut' = (cut \ (IF page = "login" THEN {"deletion"} ELSE {}))
               \cup (IF shown \subseteq shown' THEN {} ELSE {"creation"})
    /\ settled' = {}
    /\ UNCHANGED <<fileVars, marked, created, deleted, kept, restarts>>

(* Creating, or editing: saveCompanies, then POST /companies. *)
CreateCompany(c) ==
    /\ Idle /\ page # "login"
    /\ c \notin deleted
    /\ shown' = shown \cup {c} /\ created' = c
    /\ Send({"post", "create"},
            [s \in {"post", "create"} |-> IF s = "post" THEN "copy" ELSE "create"],
            shown', {})
    /\ UNCHANGED <<fileVars, page, deleted, chain, kept, histVars>>

(* deleteCompany: the deleted ids are posted but not awaited, the DELETE   *)
(* is, and then the deleted ids again and the list.                        *)
DeleteCompany(c) ==
    /\ Idle /\ page # "login"
    /\ c \in shown
    /\ deleted' = deleted \cup {c}
    /\ shown' = shown \ {c} /\ kept' = shown'
    /\ Send({"post", c},
            [s \in {"post", c} |-> IF s = "post" THEN "blocklist" ELSE "delete"],
            {}, deleted')
    /\ chain' = [chain EXCEPT ![c] = AfterDelete]
    /\ settled' = {}
    /\ UNCHANGED <<fileVars, created, page, cut, restarts>>

ChainStep(c) ==
    /\ chain[c] # <<>> /\ Free(c)
    /\ chain' = [chain EXCEPT ![c] = Tail(@)]
    /\ \/ /\ Head(chain[c]) = "blocklist"
          /\ Send({c}, [s \in {c} |-> "blocklist"], {}, deleted)
          /\ UNCHANGED <<shown, kept>>
       \/ /\ Head(chain[c]) = "copy"
          /\ Send({c}, [s \in {c} |-> "copy"], shown \ deleted, {})
          /\ UNCHANGED <<shown, kept>>
       \/ /\ Head(chain[c]) = "saveCompanies"
          /\ shown' = kept /\ kept' = {}
          /\ Send({c}, [s \in {c} |-> "copy"], kept, {})
    /\ UNCHANGED <<fileVars, created, page, deleted, histVars>>

(* The bridge goes down and comes up again: files stay as they are, what   *)
(* was under way is gone; deletions go on with what they still send.       *)
Crash ==
    /\ restarts < MaxRestarts
    /\ restarts' = restarts + 1
    /\ rest'   = [s \in Slots |-> <<>>]
    /\ loaded' = [s \in Slots |-> {}]
    /\ marked' = [s \in Slots |-> {}]
    /\ page' = "quiet" /\ settled' = {}
    /\ chain' \in {chain, [c \in Companies |-> <<>>]}
    /\ cut' = IF Idle THEN cut ELSE {"creation", "deletion"}
    /\ UNCHANGED <<fileVars, created, shown, deleted, kept>>

Next ==
    \/ \E s \in Slots : Step(s)
    \/ \E reason \in {"loading", "login"} : Ask(reason)
    \/ Reload \/ NoAnswer \/ Answer \/ Crash
    \/ \E c \in Companies : CreateCompany(c) \/ DeleteCompany(c) \/ ChainStep(c)

Spec == Init /\ [][Next]_vars

-----------------------------------------------------------------------------
(* What is meant to hold. *)

(* What the next listing answers. *)
NextListing == Elsewhere \ Read(blocklist)

(* With nothing under way, the bridge lists no company the user deleted,   *)
(* whatever older copies it merges and whatever stale dictionaries other   *)
(* requests saved; and if a crash or a reload of the page cut a deletion   *)
(* short, the next login that gets an answer makes up for it.              *)
DeletedStayAway == Idle /\ "deletion" \notin cut => deleted \cap NextListing = {}

(* And with a project's own directory it lists every company the user sees,*)
(* though stale dictionaries were saved, files were found empty, and       *)
(* crashes cut writes short.  Not so when both lists are one file.         *)
ShownAreListed ==
    Idle /\ ~oneFile /\ "creation" \notin cut => shown \subseteq NextListing

(* A listing neither answers with nor saves a company whose deletion was   *)
(* over when it began, unless a further deletion is made meanwhile.        *)
NoResurrection ==
    Free("list") \/ Head(rest["list"]) \notin {"readMain", "filter"} =>
        loaded["list"] \cap settled = {}

=============================================================================
