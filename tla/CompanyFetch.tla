---------------------------- MODULE CompanyFetch ----------------------------
(***************************************************************************)
(* space_ecom/fetch_companies.py: processes that research companies with a *)
(* browser, each over its own --only list.  A process writes one record    *)
(* per company to startups/<idx>.json and, at its end, the records it      *)
(* holds to summaries.json.  Processes run side by side on one directory,  *)
(* may be killed at any step, and are started again with --resume.         *)
(***************************************************************************)
EXTENDS Naturals, FiniteSets

CONSTANTS
    Procs,
    Companies,     \* COMPANIES, by number
    Assignment,    \* the --only list of each process
    Resume,        \* the values of --resume that runs are started with
    NQ,            \* queries per company
    TRIES,         \* loads of a result page before goto_with_retry gives up
    PAGES,         \* candidate pages that are opened
    MaxStarts, MaxCrashes   \* bounds

ASSUME CompanyFetchAssumption ==
    /\ Companies \subseteq Nat /\ IsFiniteSet(Companies)
    /\ Assignment \in [Procs -> SUBSET Companies]
    /\ Resume \subseteq BOOLEAN
    /\ NQ \in Nat \ {0} /\ TRIES \in Nat \ {0} /\ PAGES \in Nat
    /\ MaxStarts \in Nat /\ MaxCrashes \in Nat

VARIABLES
    file,       \* startups/<idx>.json
    raw,        \* raw/<idx>_serp<q>.html: the result page of each query
    redone,     \* history: the companies whose pages were written again since
                \* their record was
    log,        \* the companies with a <idx>_error.txt
    summaries,  \* summaries.json
    pc, todo, resume, cur, q, try, html, rec,   \* of each process
    alls,       \* the records each process holds
    starts, crashes

disk == <<file, raw, redone, log, summaries>>
control == <<pc, todo, resume, cur, alls>>
work == <<q, try, html, rec>>
bounds == <<starts, crashes>>
vars == <<file, raw, redone, log, summaries, pc, todo, resume, cur, q, try, html, rec, alls,
          starts, crashes>>

Queries == 0 .. NQ - 1

(* A page with results or without; one that is no result page (a captcha)   *)
(* is parsed like one without.  A record counts the results of each page.   *)
Page == {"found", "empty"}
NoPage == "missing"
TornPage == "torn"
Record == [search : [Queries -> Page \cup {NoPage}], pages : 0..PAGES, errors : Nat]
NewRecord == [search |-> [k \in Queries |-> NoPage], pages |-> 0, errors |-> 0]

None == [state |-> "none", rec |-> NewRecord]
Torn == [state |-> "torn", rec |-> NewRecord]
Whole(r) == [state |-> "whole", rec |-> r]
File == [state : {"none", "torn", "whole"}, rec : Record]

(* summaries.json: the records of some of the companies *)
Nothing == [c \in Companies |-> None]
Holds(recs) == {c \in Companies : recs[c].state = "whole"}

Least(S) == CHOOSE c \in S : \A d \in S : c <= d

----------------------------------------------------------------------------
Init ==
    /\ file = Nothing
    /\ raw = [c \in Companies |-> [k \in Queries |-> NoPage]]
    /\ redone = {}
    /\ log = {}
    /\ summaries = [state |-> "none", recs |-> Nothing]
    /\ pc = [p \in Procs |-> "idle"]
    /\ todo = [p \in Procs |-> {}]
    /\ resume = [p \in Procs |-> FALSE]
    /\ cur = [p \in Procs |-> 0]
    /\ q = [p \in Procs |-> 0] /\ try = [p \in Procs |-> 0]
    /\ html = [p \in Procs |-> "none"] /\ rec = [p \in Procs |-> NewRecord]
    /\ alls = [p \in Procs |-> Nothing]
    /\ starts = 0 /\ crashes = 0

Stopped(p) == pc[p] \in {"idle", "done", "died"}

Start(p) ==
    /\ Stopped(p)
    /\ starts < MaxStarts
    /\ \E r \in Resume : resume' = [resume EXCEPT ![p] = r]
    /\ pc' = [pc EXCEPT ![p] = "loop"]
    /\ todo' = [todo EXCEPT ![p] = Assignment[p]]
    /\ alls' = [alls EXCEPT ![p] = Nothing]
    /\ starts' = starts + 1
    /\ UNCHANGED <<disk, cur, work, crashes>>

(* The variables of research_one are gone when it returns or raises. *)
ResetWork(p) ==
    /\ q' = [q EXCEPT ![p] = 0] /\ try' = [try EXCEPT ![p] = 0]
    /\ html' = [html EXCEPT ![p] = "none"] /\ rec' = [rec EXCEPT ![p] = NewRecord]

(* Mutant of Drop: the loop stays with its company. *)
DropNone(p) == UNCHANGED todo

Drop(p) == todo' = [todo EXCEPT ![p] = @ \ {Least(@)}]

(* Mutant of Cached: only a record of this run counts. *)
CachedInMemory(p, c) == resume[p] /\ alls[p][c] # None

(* --resume and out_json.exists() *)
Cached(p, c) == resume[p] /\ file[c] # None

(* A cached record is read back; a file that is not whole JSON ends the     *)
(* process, for the read stands outside the try.                            *)
TakeCached(p) ==
    /\ pc[p] = "loop" /\ todo[p] # {}
    /\ LET c == Least(todo[p]) IN
         /\ Cached(p, c)
         /\ IF file[c].state = "whole"
              THEN /\ alls' = [alls EXCEPT ![p][c] = file[c]]
                   /\ Drop(p)
                   /\ UNCHANGED pc
              ELSE /\ pc' = [pc EXCEPT ![p] = "died"]
                   /\ UNCHANGED <<alls, todo>>
    /\ UNCHANGED <<disk, resume, cur, work, bounds>>

BeginResearch(p) ==
    /\ pc[p] = "loop" /\ todo[p] # {}
    /\ ~Cached(p, Least(todo[p]))
    /\ cur' = [cur EXCEPT ![p] = Least(todo[p])]
    /\ pc' = [pc EXCEPT ![p] = "goto"]
    /\ UNCHANGED <<disk, todo, resume, work, alls, bounds>>

LastLoad(p) == try[p] + 1 = TRIES

(* One load of the result page.  The last content that was read is what     *)
(* goto_with_retry returns when no load brought a result page.              *)
Load(p) ==
    /\ pc[p] = "goto"
    /\ \E answer \in {"good", "short", "raised"} :
         /\ html' = [html EXCEPT ![p] = IF answer = "raised" THEN @ ELSE answer]
         /\ IF answer = "good" \/ LastLoad(p)
              THEN /\ pc' = [pc EXCEPT ![p] = "serp"]
                   /\ try' = [try EXCEPT ![p] = 0]
              ELSE /\ try' = [try EXCEPT ![p] = @ + 1]
                   /\ UNCHANGED pc
    /\ UNCHANGED <<disk, todo, resume, cur, q, rec, alls, bounds>>

NextQuery(p) ==
    /\ html' = [html EXCEPT ![p] = "none"]
    /\ IF q[p] + 1 = NQ
         THEN pc' = [pc EXCEPT ![p] = "pages"] /\ q' = [q EXCEPT ![p] = 0]
         ELSE pc' = [pc EXCEPT ![p] = "goto"] /\ q' = [q EXCEPT ![p] = @ + 1]

SerpFailed(p) ==
    /\ pc[p] = "serp"
    /\ html[p] = "none"
    /\ rec' = [rec EXCEPT ![p].errors = @ + 1]
    /\ NextQuery(p)
    /\ UNCHANGED <<disk, todo, resume, cur, try, alls, bounds>>

(* raw/<idx>_serp<q>.html is written in place, and before the page is       *)
(* parsed: the page of an earlier run is gone from here on.                 *)
TruncateSerp(p) ==
    /\ pc[p] = "serp"
    /\ html[p] # "none"
    /\ raw' = [raw EXCEPT ![cur[p]][q[p]] = TornPage]
    /\ redone' = redone \cup {cur[p]}
    /\ pc' = [pc EXCEPT ![p] = "archive"]
    /\ UNCHANGED <<file, log, summaries, todo, resume, cur, work, alls, bounds>>

Results(p) == IF html[p] = "good" THEN {"found", "empty"} ELSE {"empty"}

(* Mutant of Archived: only pages with results are archived. *)
ArchivedIfFound(p, page) ==
    IF page = "found" THEN [raw EXCEPT ![cur[p]][q[p]] = page] ELSE raw

Archived(p, page) == [raw EXCEPT ![cur[p]][q[p]] = page]

SerpParsed(p) ==
    /\ pc[p] = "archive"
    /\ \E found \in Results(p) :
         /\ raw' = Archived(p, found)
         /\ rec' = [rec EXCEPT ![p].search[q[p]] = found]
    /\ NextQuery(p)
    /\ UNCHANGED <<file, redone, log, summaries, todo, resume, cur, try, alls, bounds>>

(* The first candidates are opened; each brings a page or an error. *)
OpenPages(p) ==
    /\ pc[p] = "pages"
    /\ \E tried \in 0..PAGES : \E good \in 0..tried :
         /\ tried > 0 <=> PAGES > 0 /\ \E k \in Queries : rec[p].search[k] = "found"
         /\ rec' = [rec EXCEPT ![p] = [rec[p] EXCEPT !.pages = good, !.errors = @ + (tried - good)]]
    /\ pc' = [pc EXCEPT ![p] = "record"]
    /\ UNCHANGED <<disk, todo, resume, cur, q, try, html, alls, bounds>>

TruncateRecord(p) ==
    /\ pc[p] = "record"
    /\ file' = [file EXCEPT ![cur[p]] = Torn]
    /\ pc' = [pc EXCEPT ![p] = "flush"]
    /\ UNCHANGED <<raw, redone, log, summaries, todo, resume, cur, work, alls, bounds>>

WriteRecord(p) ==
    /\ pc[p] = "flush"
    /\ file' = [file EXCEPT ![cur[p]] = Whole(rec[p])]
    /\ alls' = [alls EXCEPT ![p][cur[p]] = Whole(rec[p])]
    /\ pc' = [pc EXCEPT ![p] = "loop"]
    /\ redone' = redone \ {cur[p]}
    /\ Drop(p)
    /\ ResetWork(p)
    /\ UNCHANGED <<raw, log, summaries, resume, cur, bounds>>

(* Mutant of Reported: the failure is swallowed. *)
Swallowed(c) == log

(* The traceback goes to logs/<idx>_error.txt. *)
Reported(c) == log \cup {c}

(* Anything that research_one or a write raises is logged, and the loop     *)
(* goes on without a record.  A result page may have been archived before   *)
(* its parsing raises.                                                      *)
ResearchRaises(p) ==
    /\ pc[p] \in {"serp", "archive", "record", "flush"}
    /\ \/ UNCHANGED raw
       \/ pc[p] = "archive" /\ \E found \in Results(p) : raw' = Archived(p, found)
    /\ log' = Reported(cur[p])
    /\ pc' = [pc EXCEPT ![p] = "loop"]
    /\ Drop(p)
    /\ ResetWork(p)
    /\ UNCHANGED <<file, redone, summaries, resume, cur, alls, bounds>>

TruncateSummaries(p) ==
    /\ pc[p] = "loop" /\ todo[p] = {}
    /\ summaries' = [state |-> "torn", recs |-> Nothing]
    /\ pc' = [pc EXCEPT ![p] = "sum"]
    /\ UNCHANGED <<file, raw, redone, log, todo, resume, cur, work, alls, bounds>>

(* The records of this process, and no others. *)
WriteSummaries(p) ==
    /\ pc[p] = "sum"
    /\ summaries' = [state |-> "whole", recs |-> alls[p]]
    /\ pc' = [pc EXCEPT ![p] = "done"]
    /\ UNCHANGED <<file, raw, redone, log, todo, resume, cur, work, alls, bounds>>

Crash(p) ==
    /\ ~Stopped(p)
    /\ crashes < MaxCrashes
    /\ crashes' = crashes + 1
    /\ pc' = [pc EXCEPT ![p] = "idle"]
    /\ ResetWork(p)
    /\ UNCHANGED <<disk, todo, resume, cur, alls, starts>>

----------------------------------------------------------------------------
Step(p) ==
    \/ TakeCached(p) \/ BeginResearch(p)
    \/ Load(p) \/ SerpFailed(p) \/ TruncateSerp(p) \/ SerpParsed(p) \/ OpenPages(p)
    \/ TruncateRecord(p) \/ WriteRecord(p)
    \/ TruncateSummaries(p) \/ WriteSummaries(p)

FetchNext == \E p \in Procs : Start(p) \/ Step(p) \/ ResearchRaises(p) \/ Crash(p)

(* Every call of a process returns: page.goto has a time limit. *)
Fairness == \A p \in Procs : WF_vars(Step(p))

Spec == Init /\ [][FetchNext]_vars /\ Fairness

----------------------------------------------------------------------------
TypeOK ==
    /\ file \in [Companies -> File]
    /\ raw \in [Companies -> [Queries -> Page \cup {NoPage, TornPage}]]
    /\ redone \subseteq Companies
    /\ log \subseteq Companies
    /\ summaries.state \in {"none", "torn", "whole"}
    /\ summaries.recs \in [Companies -> File]
    /\ pc \in [Procs -> {"idle", "loop", "goto", "serp", "archive", "pages", "record", "flush",
                         "sum", "done", "died"}]
    /\ todo \in [Procs -> SUBSET Companies]
    /\ resume \in [Procs -> BOOLEAN]
    /\ cur \in [Procs -> Companies \cup {0}]
    /\ q \in [Procs -> Queries]
    /\ try \in [Procs -> 0 .. TRIES - 1]
    /\ html \in [Procs -> {"none", "short", "good"}]
    /\ rec \in [Procs -> Record]
    /\ alls \in [Procs -> [Companies -> File]]

----------------------------------------------------------------------------
(* A record answers for its searches: each one that was answered quotes the *)
(* page in raw/, whatever was killed and resumed meanwhile by processes     *)
(* whose lists do not overlap (run1.log to run4.log).  Not while a          *)
(* run without --resume has written the pages anew and not yet the record:  *)
(* one that is killed or fails there leaves the old record with the pages   *)
(* of another search (lines 90-104, 164).                                   *)
RecordsAreTraceable ==
    \A c \in Companies \ redone : file[c].state = "whole" =>
        \A k \in Queries : file[c].rec.search[k] # NoPage =>
            raw[c][k] = file[c].rec.search[k]

(* A run with --resume changes no record that was written, whatever was     *)
(* killed before (lines 158-164).                                           *)
ResumedOnly(c) == \A p \in Procs : c \in Assignment[p] /\ ~Stopped(p) => resume[p]
ResumeKeepsRecords ==
    [][\A c \in Companies :
          file[c].state = "whole" /\ ResumedOnly(c) => file'[c] = file[c]]_vars

(* A process that comes to its end has a record or an error file for every  *)
(* company of its list (lines 156-170).                                     *)
NoCompanyDropped ==
    \A p \in Procs : pc[p] = "done" => Assignment[p] \subseteq Holds(alls[p]) \cup log

(* A process that is not killed ends, however its pages answer.             *)
ProcessesEnd == \A p \in Procs : pc[p] = "loop" ~> Stopped(p)

----------------------------------------------------------------------------
(* What the documentation says and the program does not do. *)

(* Line 8: a run may be resumed.                                            *)
ResumedRunsLive == \A p \in Procs : pc[p] # "died"

(* Line 6: summaries.json combines the records of the companies.            *)
SummariesAreCombined ==
    (\A p \in Procs : pc[p] = "done") => Holds(file) \subseteq Holds(summaries.recs)
=============================================================================
