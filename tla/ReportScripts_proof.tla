------------------------- MODULE ReportScripts_proof -------------------------
(***************************************************************************)
(* Proofs about the scripts that collect what the reports are made of: the *)
(* company fetcher and the scripts over its files, for every set of        *)
(* companies, every number of fetch processes, queries, loads, pages,      *)
(* starts, kills and rewritten fragments; and the download of papers, for  *)
(* every list of papers with different identifiers, every number of        *)
(* attempts and of runs.                                                   *)
(***************************************************************************)
EXTENDS CompanyReport, PaperDownload, TLAPS, WellFoundedInduction, SequenceTheorems

----------------------------------------------------------------------------
(* The fetcher                                                              *)
USE CompanyFetchAssumption DEF CompanyFetchAssumption

(* The next company of a list that is not empty is one of the list.         *)
LEMMA LeastIsMember ==
    ASSUME NEW S \in SUBSET Companies, S # {}
    PROVE  Least(S) \in S
<1>1. S \subseteq Nat
  OBVIOUS
<1>2. \E c \in S : \A d \in S : ~ (<<d, c>> \in OpToRel(<, Nat))
  BY <1>1, WFMin, NatLessThanWellFounded
<1>3. PICK c \in S : \A d \in S : ~ (<<d, c>> \in OpToRel(<, Nat))
  BY <1>2
<1>4. \A d \in S : ~ (d < c)
  BY <1>1, <1>3 DEF OpToRel
<1>5. \A d \in S : c <= d
  BY <1>1, <1>4
<1> QED BY <1>5 DEF Least

Working(p) == pc[p] \in {"goto", "serp", "archive", "pages", "record", "flush"}

(* A process that works on a company works on the first of its list; one    *)
(* that writes the summaries has come to the end of it.                     *)
OnList ==
    \A p \in Procs : /\ Working(p) => todo[p] # {} /\ cur[p] = Least(todo[p])
                     /\ pc[p] \in {"sum", "done"} => todo[p] = {}
CursorInv == TypeOK /\ OnList

LEMMA CursorIsCompany ==
    ASSUME CursorInv, NEW p \in Procs, Working(p)
    PROVE  cur[p] \in todo[p] /\ cur[p] \in Companies
BY LeastIsMember DEF CursorInv, OnList, TypeOK

LEMMA NewIsRecord == NewRecord \in Record /\ \A k \in Queries : NewRecord.search[k] = NoPage
BY DEF NewRecord, Record

LEMMA FileTypes == None \in File /\ Torn \in File /\ \A r \in Record : Whole(r) \in File
BY NewIsRecord DEF None, Torn, Whole, File

LEMMA InitCursor == Init => CursorInv
BY NewIsRecord, FileTypes DEF Init, CursorInv, TypeOK, OnList, Working, Nothing, Queries

(* NextQuery, ResetWork and Drop keep the types of what they change.        *)
LEMMA NextQueryTypes ==
    ASSUME TypeOK, NEW p \in Procs, NextQuery(p)
    PROVE  /\ html' \in [Procs -> {"none", "short", "good"}] /\ q' \in [Procs -> Queries]
           /\ \/ pc' = [pc EXCEPT ![p] = "pages"]
              \/ pc' = [pc EXCEPT ![p] = "goto"]
<1>0. /\ q \in [Procs -> Queries] /\ html \in [Procs -> {"none", "short", "good"}]
      /\ html' = [html EXCEPT ![p] = "none"]
      /\ q[p] \in 0 .. NQ - 1 /\ 0 \in Queries
  BY DEF NextQuery, TypeOK, Queries
<1>1. CASE q[p] + 1 = NQ
  <2>1. pc' = [pc EXCEPT ![p] = "pages"] /\ q' = [q EXCEPT ![p] = 0]
    BY <1>1 DEF NextQuery
  <2> QED BY ONLY <1>0, <2>1, p \in Procs
<1>2. CASE q[p] + 1 # NQ
  <2>1. pc' = [pc EXCEPT ![p] = "goto"] /\ q' = [q EXCEPT ![p] = @ + 1]
    BY <1>2 DEF NextQuery
  <2>2. q[p] + 1 \in Queries
    BY <1>0, <1>2 DEF Queries
  <2> QED BY ONLY <1>0, <2>1, <2>2, p \in Procs
<1> QED BY <1>1, <1>2

(* The updates of a record give a record.                                   *)
LEMMA RecordUpdates ==
    ASSUME NEW r \in Record
    PROVE  /\ \A n \in Nat : [r EXCEPT !.errors = n] \in Record
           /\ \A k \in Queries, s \in Page : [r EXCEPT !.search[k] = s] \in Record
           /\ \A n \in 0..PAGES : [r EXCEPT !.pages = n] \in Record
<1>1. ASSUME NEW n \in Nat
      PROVE  [r EXCEPT !.errors = n] \in Record
  BY DEF Record
<1>2. ASSUME NEW k \in Queries, NEW s \in Page
      PROVE  [r EXCEPT !.search[k] = s] \in Record
  BY DEF Record
<1>3. ASSUME NEW n \in 0..PAGES
      PROVE  [r EXCEPT !.pages = n] \in Record
  BY DEF Record
<1> QED BY <1>1, <1>2, <1>3

LEMMA ResetTypes ==
    ASSUME TypeOK, NEW p \in Procs, ResetWork(p)
    PROVE  /\ q' \in [Procs -> Queries] /\ try' \in [Procs -> 0 .. TRIES - 1]
           /\ html' \in [Procs -> {"none", "short", "good"}] /\ rec' \in [Procs -> Record]
BY NewIsRecord DEF ResetWork, TypeOK, Queries

LEMMA DropTypes ==
    ASSUME TypeOK, NEW p \in Procs, Drop(p)
    PROVE  todo' \in [Procs -> SUBSET Companies]
BY DEF Drop, TypeOK

(* What an answer of the search is, and a page that is written to raw/.     *)
LEMMA ResultIsPage == ASSUME NEW p \in Procs PROVE Results(p) \subseteq Page
BY DEF Results, Page

LEMMA RawUpdate ==
    ASSUME TypeOK, NEW p \in Procs, cur[p] \in Companies, NEW a \in Page \cup {TornPage}
    PROVE  [raw EXCEPT ![cur[p]][q[p]] = a] \in [Companies -> [Queries -> Page \cup {NoPage, TornPage}]]
<1>1. q[p] \in Queries /\ raw \in [Companies -> [Queries -> Page \cup {NoPage, TornPage}]]
  BY DEF TypeOK
<1> QED BY <1>1

LEMMA NextTypes == CursorInv /\ [FetchNext]_vars => TypeOK'
<1> SUFFICES ASSUME CursorInv, [FetchNext]_vars PROVE TypeOK'
  OBVIOUS
<1>t. TypeOK
  BY DEF CursorInv
<1>0. CASE UNCHANGED vars
  BY <1>0, <1>t DEF vars, TypeOK
<1>n. SUFFICES ASSUME NEW p \in Procs, Start(p) \/ Step(p) \/ ResearchRaises(p) \/ Crash(p)
               PROVE  TypeOK'
  BY <1>0 DEF FetchNext
<1>c. Working(p) => cur[p] \in Companies
  BY CursorIsCompany
<1>1. CASE Start(p)
  BY <1>1, <1>t, FileTypes DEF Start, TypeOK, disk, work, Nothing
<1>2. CASE TakeCached(p)
  <2>1. todo' \in [Procs -> SUBSET Companies]
    BY <1>2, <1>t, DropTypes DEF TakeCached, TypeOK
  <2>2. Least(todo[p]) \in Companies
    BY <1>2, <1>t, LeastIsMember DEF TakeCached, TypeOK
  <2>3. alls' \in [Procs -> [Companies -> File]]
    <3>1. alls' = alls \/ alls' = [alls EXCEPT ![p] = [alls[p] EXCEPT ![Least(todo[p])] = file[Least(todo[p])]]]
      BY <1>2 DEF TakeCached
    <3>2. file[Least(todo[p])] \in File
      BY <1>t, <2>2 DEF TypeOK
    <3>3. alls \in [Procs -> [Companies -> File]] /\ alls[p] \in [Companies -> File]
      BY <1>t DEF TypeOK
    <3>4. [alls[p] EXCEPT ![Least(todo[p])] = file[Least(todo[p])]] \in [Companies -> File]
      BY <2>2, <3>2, <3>3
    <3> QED BY <3>1, <3>3, <3>4
  <2>4. pc' = pc \/ pc' = [pc EXCEPT ![p] = "died"]
    BY <1>2 DEF TakeCached
  <2> QED BY <1>2, <1>t, <2>1, <2>3, <2>4 DEF TakeCached, TypeOK, disk, work, bounds
<1>3. CASE BeginResearch(p)
  BY <1>3, <1>t, LeastIsMember DEF BeginResearch, TypeOK, disk, work, bounds
<1>4. CASE Load(p)
  <2>1. PICK answer \in {"good", "short", "raised"} :
            /\ html' = [html EXCEPT ![p] = IF answer = "raised" THEN @ ELSE answer]
            /\ IF answer = "good" \/ LastLoad(p)
                 THEN pc' = [pc EXCEPT ![p] = "serp"] /\ try' = [try EXCEPT ![p] = 0]
                 ELSE try' = [try EXCEPT ![p] = @ + 1] /\ UNCHANGED pc
    BY <1>4 DEF Load
  <2>2. html' \in [Procs -> {"none", "short", "good"}]
    BY <1>t, <2>1 DEF TypeOK
  <2>3. try' \in [Procs -> 0 .. TRIES - 1]
    <3>1. try \in [Procs -> 0 .. TRIES - 1] /\ try[p] \in 0 .. TRIES - 1
      BY <1>t DEF TypeOK
    <3>2. CASE answer = "good" \/ LastLoad(p)
      BY <2>1, <3>1, <3>2
    <3>3. CASE ~(answer = "good" \/ LastLoad(p))
      <4>1. try' = [try EXCEPT ![p] = @ + 1] /\ try[p] + 1 # TRIES
        BY <2>1, <3>3 DEF LastLoad
      <4> QED BY <3>1, <4>1
    <3> QED BY <3>2, <3>3
  <2>4. pc' = pc \/ pc' = [pc EXCEPT ![p] = "serp"]
    BY <2>1
  <2> QED BY <1>4, <1>t, <2>2, <2>3, <2>4 DEF Load, TypeOK, disk, bounds
<1>5. CASE SerpFailed(p)
  <2>0. rec[p] \in Record /\ rec' = [rec EXCEPT ![p] = [rec[p] EXCEPT !.errors = @ + 1]]
    BY <1>5, <1>t DEF SerpFailed, TypeOK
  <2>1. rec' \in [Procs -> Record]
    <3>1. rec[p].errors + 1 \in Nat
      BY <2>0 DEF Record
    <3>2. [rec[p] EXCEPT !.errors = @ + 1] \in Record
      BY <2>0, <3>1, RecordUpdates
    <3> QED BY <1>t, <2>0, <3>2 DEF TypeOK
  <2> QED BY <1>5, <1>t, <2>1, NextQueryTypes DEF SerpFailed, TypeOK, disk, bounds
<1>14. CASE TruncateSerp(p)
  <2>1. raw' \in [Companies -> [Queries -> Page \cup {NoPage, TornPage}]] /\ redone' \subseteq Companies
    BY <1>14, <1>t, <1>c, RawUpdate DEF TypeOK, TruncateSerp, Working
  <2> QED BY <1>14, <1>t, <2>1 DEF TruncateSerp, TypeOK, work, bounds
<1>6. CASE SerpParsed(p)
  <2>1. PICK found \in Page : raw' = Archived(p, found) /\ rec' = [rec EXCEPT ![p].search[q[p]] = found]
    BY <1>6, ResultIsPage DEF SerpParsed
  <2>2. raw' \in [Companies -> [Queries -> Page \cup {NoPage, TornPage}]]
    BY <1>6, <1>t, <1>c, <2>1, RawUpdate DEF SerpParsed, Archived, Working
  <2>0. /\ rec[p] \in Record /\ q[p] \in Queries
        /\ rec' = [rec EXCEPT ![p] = [rec[p] EXCEPT !.search[q[p]] = found]]
    BY <1>t, <2>1 DEF TypeOK
  <2>3. rec' \in [Procs -> Record]
    BY <1>t, <2>0, RecordUpdates DEF TypeOK
  <2>4. NextQuery(p) /\ UNCHANGED <<file, redone, log, summaries, todo, resume, cur, try, alls, bounds>>
    BY <1>6 DEF SerpParsed
  <2>5. /\ html' \in [Procs -> {"none", "short", "good"}] /\ q' \in [Procs -> Queries]
        /\ pc' = [pc EXCEPT ![p] = "pages"] \/ pc' = [pc EXCEPT ![p] = "goto"]
    BY <1>t, <2>4, NextQueryTypes
  <2> QED BY <1>t, <2>2, <2>3, <2>4, <2>5 DEF TypeOK, bounds
<1>7. CASE OpenPages(p)
  <2>1. PICK tried \in 0..PAGES : \E good \in 0..tried :
            rec' = [rec EXCEPT ![p] = [rec[p] EXCEPT !.pages = good, !.errors = @ + (tried - good)]]
    BY <1>7 DEF OpenPages
  <2>2. PICK good \in 0..tried :
            rec' = [rec EXCEPT ![p] = [rec[p] EXCEPT !.pages = good, !.errors = @ + (tried - good)]]
    BY <2>1
  <2>3. good \in 0..PAGES /\ tried - good \in Nat /\ rec[p] \in Record
    BY <1>t DEF TypeOK
  <2>4. PICK r \in Record : r = [rec[p] EXCEPT !.pages = good]
    BY <2>3, RecordUpdates
  <2>5. rec' = [rec EXCEPT ![p] = [r EXCEPT !.errors = r.errors + (tried - good)]]
    <3>1. rec[p].errors = r.errors
      BY <2>3, <2>4 DEF Record
    <3> QED BY <2>2, <2>4, <3>1
  <2>6. r.errors + (tried - good) \in Nat
    BY <2>3, <2>4 DEF Record
  <2>7. [r EXCEPT !.errors = r.errors + (tried - good)] \in Record
    BY <2>6, RecordUpdates
  <2>8. rec' \in [Procs -> Record]
    BY <1>t, <2>5, <2>7 DEF TypeOK
  <2> QED BY <1>7, <1>t, <2>8 DEF OpenPages, TypeOK, disk, bounds
<1>8. CASE TruncateRecord(p)
  BY <1>8, <1>t, FileTypes DEF TruncateRecord, TypeOK, work, bounds
<1>9. CASE WriteRecord(p)
  <2>1. Whole(rec[p]) \in File /\ cur[p] \in Companies
    BY <1>9, <1>t, <1>c, FileTypes DEF WriteRecord, TypeOK, Working
  <2>2. file' \in [Companies -> File] /\ alls' \in [Procs -> [Companies -> File]]
    BY <1>9, <1>t, <2>1 DEF WriteRecord, TypeOK
  <2> QED BY <1>9, <1>t, <2>2, DropTypes, ResetTypes DEF WriteRecord, TypeOK, bounds
<1>10. CASE ResearchRaises(p)
  <2>1. cur[p] \in Companies
    BY <1>10, <1>c DEF ResearchRaises, Working
  <2>2. raw' \in [Companies -> [Queries -> Page \cup {NoPage, TornPage}]] /\ log' \subseteq Companies
    <3>1. \/ raw' = raw
          \/ \E found \in Page : raw' = Archived(p, found)
      BY <1>10, ResultIsPage DEF ResearchRaises
    <3>2. log' = log \cup {cur[p]}
      BY <1>10 DEF ResearchRaises, Reported
    <3>3. raw' \in [Companies -> [Queries -> Page \cup {NoPage, TornPage}]]
      <4>1. CASE raw' = raw
        BY <1>t, <4>1 DEF TypeOK
      <4>2. ASSUME NEW found \in Page, raw' = Archived(p, found)
            PROVE  raw' \in [Companies -> [Queries -> Page \cup {NoPage, TornPage}]]
        BY <1>t, <2>1, <4>2, RawUpdate DEF Archived
      <4> QED BY <3>1, <4>1, <4>2
    <3> QED BY <1>t, <2>1, <3>2, <3>3 DEF TypeOK
  <2> QED BY <1>10, <1>t, <2>2, DropTypes, ResetTypes DEF ResearchRaises, TypeOK, bounds
<1>11. CASE TruncateSummaries(p)
  BY <1>11, <1>t, FileTypes DEF TruncateSummaries, TypeOK, work, bounds, Nothing
<1>12. CASE WriteSummaries(p)
  BY <1>12, <1>t DEF WriteSummaries, TypeOK, work, bounds
<1>13. CASE Crash(p)
  BY <1>13, <1>t, ResetTypes DEF Crash, TypeOK, disk
<1> QED BY <1>n, <1>1, <1>2, <1>3, <1>4, <1>5, <1>6, <1>7, <1>8, <1>9, <1>10, <1>11, <1>12, <1>13, <1>14 DEF Step

----------------------------------------------------------------------------
Acts(p) == Start(p) \/ Step(p) \/ ResearchRaises(p) \/ Crash(p)

(* What belongs to the other processes stays as it is.                      *)
LEMMA OthersStay ==
    ASSUME TypeOK, NEW p \in Procs, Acts(p), NEW o \in Procs, o # p
    PROVE  /\ pc'[o] = pc[o] /\ todo'[o] = todo[o] /\ cur'[o] = cur[o] /\ rec'[o] = rec[o]
           /\ q'[o] = q[o] /\ alls'[o] = alls[o] /\ resume'[o] = resume[o]
<1> USE DEF TypeOK, disk, control, work, bounds
<1>1. CASE Start(p)
  BY <1>1 DEF Start
<1>2. CASE TakeCached(p)
  BY <1>2 DEF TakeCached, Drop
<1>3. CASE BeginResearch(p)
  BY <1>3 DEF BeginResearch
<1>4. CASE Load(p)
  BY <1>4 DEF Load
<1>5. CASE SerpFailed(p)
  BY <1>5, NextQueryTypes DEF SerpFailed, NextQuery
<1>6. CASE SerpParsed(p)
  <2>1. PICK found : rec' = [rec EXCEPT ![p].search[q[p]] = found]
    BY <1>6 DEF SerpParsed
  <2>2. rec'[o] = rec[o]
    BY <2>1
  <2>3. /\ pc' = [pc EXCEPT ![p] = "pages"] \/ pc' = [pc EXCEPT ![p] = "goto"]
        /\ q'[o] = q[o] /\ UNCHANGED <<todo, cur, alls, resume>>
    BY <1>6, NextQueryTypes DEF SerpParsed, NextQuery
  <2> QED BY <2>2, <2>3
<1>14. CASE TruncateSerp(p)
  BY <1>14 DEF TruncateSerp
<1>7. CASE OpenPages(p)
  BY <1>7 DEF OpenPages
<1>8. CASE TruncateRecord(p)
  BY <1>8 DEF TruncateRecord
<1>9. CASE WriteRecord(p)
  BY <1>9 DEF WriteRecord, Drop, ResetWork
<1>10. CASE ResearchRaises(p)
  BY <1>10 DEF ResearchRaises, Drop, ResetWork
<1>11. CASE TruncateSummaries(p)
  BY <1>11 DEF TruncateSummaries
<1>12. CASE WriteSummaries(p)
  BY <1>12 DEF WriteSummaries
<1>13. CASE Crash(p)
  BY <1>13 DEF Crash, ResetWork
<1> QED BY <1>1, <1>2, <1>3, <1>4, <1>5, <1>6, <1>7, <1>8, <1>9, <1>10, <1>11, <1>12, <1>13, <1>14 DEF Acts, Step

(* The place of the process that acts, after its step.                      *)
LEMMA NextOnList == CursorInv /\ [FetchNext]_vars => OnList'
<1> SUFFICES ASSUME CursorInv, [FetchNext]_vars PROVE OnList'
  OBVIOUS
<1>0. CASE UNCHANGED vars
  BY <1>0 DEF vars, CursorInv, OnList, Working
<1>n. SUFFICES ASSUME NEW p \in Procs, Acts(p) PROVE OnList'
  BY <1>0 DEF FetchNext, Acts
<1>t. TypeOK /\ OnList
  BY DEF CursorInv
<1>o. SUFFICES /\ Working(p)' => todo'[p] # {} /\ cur'[p] = Least(todo'[p])
               /\ pc'[p] \in {"sum", "done"} => todo'[p] = {}
  BY <1>n, <1>t, OthersStay DEF OnList, Working
<1> USE DEF TypeOK, OnList, Working, disk, control, work, bounds
<1>1. CASE Start(p)
  BY <1>1, <1>t DEF Start
<1>2. CASE TakeCached(p)
  BY <1>2, <1>t DEF TakeCached
<1>3. CASE BeginResearch(p)
  BY <1>3, <1>t DEF BeginResearch
<1>4. CASE Load(p)
  BY <1>4, <1>t DEF Load
<1>5. CASE SerpFailed(p)
  BY <1>5, <1>t, NextQueryTypes DEF SerpFailed
<1>6. CASE SerpParsed(p)
  BY <1>6, <1>t, NextQueryTypes DEF SerpParsed
<1>14. CASE TruncateSerp(p)
  BY <1>14, <1>t DEF TruncateSerp
<1>7. CASE OpenPages(p)
  BY <1>7, <1>t DEF OpenPages
<1>8. CASE TruncateRecord(p)
  BY <1>8, <1>t DEF TruncateRecord
<1>9. CASE WriteRecord(p)
  BY <1>9, <1>t DEF WriteRecord
<1>10. CASE ResearchRaises(p)
  BY <1>10, <1>t DEF ResearchRaises
<1>11. CASE TruncateSummaries(p)
  BY <1>11, <1>t DEF TruncateSummaries
<1>12. CASE WriteSummaries(p)
  BY <1>12, <1>t DEF WriteSummaries
<1>13. CASE Crash(p)
  BY <1>13, <1>t DEF Crash
<1> QED BY <1>n, <1>1, <1>2, <1>3, <1>4, <1>5, <1>6, <1>7, <1>8, <1>9, <1>10, <1>11, <1>12, <1>13, <1>14 DEF Acts, Step

(* The files of the fetcher and the variables of its processes keep their   *)
(* types, whatever is killed, resumed and raised (lines 88-180).            *)
THEOREM CursorHolds == Spec => []CursorInv
<1>1. CursorInv /\ [FetchNext]_vars => CursorInv'
  BY NextTypes, NextOnList DEF CursorInv
<1> QED BY InitCursor, <1>1, PTL DEF Spec

----------------------------------------------------------------------------
(* The lists of the processes do not overlap.                               *)
Apart == \A p, o \in Procs : p # o => Assignment[p] \cap Assignment[o] = {}

(* The pages from which a record quotes are the ones in raw/.               *)
Quotes(r, pages) == \A k \in Queries : r.search[k] # NoPage => pages[k] = r.search[k]

(* Inductive strengthening of RecordsAreTraceable: the record a process is  *)
(* still making is traceable as well, it says nothing yet of the query that *)
(* is answered next, and there is none between companies.                   *)
WorkTraced(p) ==
    /\ IF Working(p) THEN Quotes(rec[p], raw[cur[p]]) ELSE rec[p] = NewRecord
    /\ pc[p] \in {"goto", "serp", "archive"} => \A k \in Queries : k >= q[p] => rec[p].search[k] = NoPage
    /\ ~Working(p) => q[p] = 0
    /\ pc[p] = "archive" => cur[p] \in redone
    /\ ~Stopped(p) => todo[p] \subseteq Assignment[p]
TraceInv == CursorInv /\ (\A p \in Procs : WorkTraced(p)) /\ RecordsAreTraceable

LEMMA NewQuotesNothing ==
    None.state # "whole" /\ Torn.state # "whole" /\ \A pages : Quotes(NewRecord, pages)
BY NewIsRecord DEF Quotes, None, Torn

(* Processes at work are at work on different companies.                    *)
LEMMA WorkApart ==
    ASSUME Apart, CursorInv, \A p \in Procs : ~Stopped(p) => todo[p] \subseteq Assignment[p],
           NEW p \in Procs, NEW o \in Procs, p # o, Working(p), Working(o)
    PROVE  cur[p] # cur[o]
BY CursorIsCompany DEF Apart, Working, Stopped

(* A page in raw/ changes only where the process that acts writes it, and   *)
(* the company is noted in redone before.                                   *)
LEMMA RawSteps ==
    ASSUME CursorInv, NEW p \in Procs, Acts(p), NEW c \in Companies, WorkTraced(p)
    PROVE  \/ raw'[c] = raw[c]
           \/ pc[p] \in {"serp", "archive"} /\ c = cur[p] /\ c \in redone'
<1> USE DEF disk, control, work, bounds
<1>t. TypeOK
  BY DEF CursorInv
<1>1. CASE TruncateSerp(p)
  BY <1>1, <1>t DEF TruncateSerp, TypeOK
<1>2. CASE SerpParsed(p)
  <2>1. PICK found \in Results(p) : raw' = Archived(p, found)
    BY <1>2 DEF SerpParsed
  <2> QED BY <1>2, <1>t, <2>1 DEF SerpParsed, Archived, WorkTraced, TypeOK
<1>3. CASE ResearchRaises(p) /\ raw' # raw
  <2>1. PICK found \in Results(p) : raw' = Archived(p, found) /\ pc[p] = "archive" /\ UNCHANGED redone
    BY <1>3 DEF ResearchRaises
  <2> QED BY <1>t, <2>1 DEF Archived, WorkTraced, TypeOK
<1>4. CASE UNCHANGED raw
  BY <1>4
<1> QED BY <1>1, <1>2, <1>3, <1>4 DEF Acts, Step, Start, TakeCached, BeginResearch, Load, SerpFailed, OpenPages,
           TruncateRecord, WriteRecord, TruncateSummaries, WriteSummaries, Crash

(* What a step does to the record in the making and the place in its list.  *)
LEMMA ActorTraced ==
    ASSUME TraceInv, NEW p \in Procs, Acts(p)
    PROVE  WorkTraced(p)'
<1>t. CursorInv /\ TypeOK /\ WorkTraced(p) /\ q[p] \in Queries /\ rec[p] \in Record
  BY DEF TraceInv, CursorInv, TypeOK
<1>w. Working(p) => cur[p] \in Companies /\ cur[p] \in todo[p] /\ Quotes(rec[p], raw[cur[p]])
  BY <1>t, CursorIsCompany DEF WorkTraced
<1>n. ~Working(p) => rec[p] = NewRecord /\ q[p] = 0
  BY <1>t DEF WorkTraced
<1> USE DEF Working, Stopped, disk, control, work, bounds
<1>1. CASE Start(p)
  BY <1>1, <1>t, <1>n DEF Start, TypeOK, WorkTraced
<1>2. CASE TakeCached(p)
  <2>1. pc'[p] \in {"loop", "died"} /\ todo'[p] \subseteq todo[p] /\ UNCHANGED <<rec, q>>
    BY <1>2, <1>t DEF TakeCached, TypeOK, Drop
  <2> QED BY <1>2, <1>t, <1>n, <2>1 DEF TakeCached, WorkTraced
<1>3. CASE BeginResearch(p)
  <2>1. rec'[p] = NewRecord /\ q'[p] = 0 /\ pc'[p] = "goto" /\ todo' = todo
    BY <1>3, <1>t, <1>n DEF BeginResearch, TypeOK
  <2> QED BY <1>3, <1>t, <2>1, NewIsRecord, NewQuotesNothing DEF BeginResearch, WorkTraced
<1>4. CASE Load(p)
  <2>1. UNCHANGED <<rec, q, cur, raw, todo>> /\ pc[p] = "goto" /\ pc'[p] \in {"goto", "serp"}
    BY <1>4, <1>t DEF Load, TypeOK
  <2> QED BY <1>t, <1>w, <2>1 DEF WorkTraced
<1>q. ASSUME NextQuery(p), pc[p] \in {"serp", "archive"}, UNCHANGED <<cur, todo>>,
             Quotes(rec'[p], raw'[cur[p]]), \A k \in Queries : k >= q[p] + 1 => rec'[p].search[k] = NoPage
      PROVE  WorkTraced(p)'
  <2>1. CASE q[p] + 1 = NQ
    <3>1. pc'[p] = "pages"
      BY <1>q, <1>t, <2>1 DEF NextQuery, TypeOK
    <3> QED BY <1>q, <1>t, <3>1 DEF WorkTraced
  <2>2. CASE q[p] + 1 # NQ
    <3>1. pc'[p] = "goto" /\ q'[p] = q[p] + 1
      BY <1>q, <1>t, <2>2 DEF NextQuery, TypeOK
    <3> QED BY <1>q, <1>t, <3>1 DEF WorkTraced
  <2> QED BY <2>1, <2>2
<1>a. pc[p] \in {"goto", "serp", "archive"} => \A k \in Queries : k >= q[p] => rec[p].search[k] = NoPage
  BY <1>t DEF WorkTraced
<1>5. CASE SerpFailed(p)
  <2>1. rec' = [rec EXCEPT ![p] = [rec[p] EXCEPT !.errors = @ + 1]]
    BY <1>5 DEF SerpFailed
  <2>2. rec'[p].search = rec[p].search
    BY <1>t, <2>1 DEF TypeOK, Record
  <2>3. Quotes(rec'[p], raw[cur[p]])
    BY <1>5, <1>w, <2>2 DEF SerpFailed, Quotes
  <2>4. \A k \in Queries : k >= q[p] + 1 => rec'[p].search[k] = NoPage
    BY <1>5, <1>a, <1>t, <2>2 DEF SerpFailed, Queries
  <2> QED BY <1>5, <1>q, <2>3, <2>4 DEF SerpFailed
<1>14. CASE TruncateSerp(p)
  <2>1. UNCHANGED <<rec, q, cur, todo>> /\ pc[p] = "serp" /\ pc'[p] = "archive" /\ cur[p] \in redone'
    BY <1>14, <1>t DEF TruncateSerp, TypeOK
  <2>2. \A k \in Queries : k # q[p] => raw'[cur[p]][k] = raw[cur[p]][k]
    BY <1>14, <1>t, <1>w DEF TruncateSerp, TypeOK
  <2>3. rec[p].search[q[p]] = NoPage
    BY <1>t, <1>a, <2>1 DEF Queries
  <2>4. Quotes(rec[p], raw'[cur[p]])
    BY <1>w, <2>1, <2>2, <2>3 DEF Quotes
  <2> QED BY <1>t, <1>a, <2>1, <2>4 DEF WorkTraced
<1>6. CASE SerpParsed(p)
  <2>1. PICK found \in Page : raw' = [raw EXCEPT ![cur[p]][q[p]] = found]
                              /\ rec' = [rec EXCEPT ![p] = [rec[p] EXCEPT !.search[q[p]] = found]]
    BY <1>6, ResultIsPage DEF SerpParsed, Archived
  <2>2. rec'[p].search = [rec[p].search EXCEPT ![q[p]] = found]
    BY <1>t, <2>1 DEF TypeOK, Record
  <2>3. raw'[cur[p]] = [raw[cur[p]] EXCEPT ![q[p]] = found] /\ raw[cur[p]] \in [Queries -> Page \cup {NoPage, TornPage}]
    BY <1>6, <1>t, <1>w, <2>1 DEF TypeOK, SerpParsed
  <2>4. rec[p].search \in [Queries -> Page \cup {NoPage}]
    BY <1>t DEF Record
  <2>5. Quotes(rec'[p], raw'[cur[p]])
    BY <1>6, <1>t, <1>w, <2>2, <2>3, <2>4 DEF Quotes, SerpParsed
  <2>6. \A k \in Queries : k >= q[p] + 1 => rec'[p].search[k] = NoPage
    BY <1>6, <1>a, <1>t, <2>2, <2>4 DEF SerpParsed, Queries
  <2> QED BY <1>6, <1>q, <2>5, <2>6 DEF SerpParsed
<1>7. CASE OpenPages(p)
  <2>1. PICK tried \in 0..PAGES : \E good \in 0..tried :
            rec' = [rec EXCEPT ![p] = [rec[p] EXCEPT !.pages = good, !.errors = @ + (tried - good)]]
    BY <1>7 DEF OpenPages
  <2>2. PICK good \in 0..tried :
            rec' = [rec EXCEPT ![p] = [rec[p] EXCEPT !.pages = good, !.errors = @ + (tried - good)]]
    BY <2>1
  <2>4. rec'[p].search = rec[p].search
    BY <1>t, <2>2 DEF TypeOK, Record
  <2>5. UNCHANGED <<q, cur, raw, todo>> /\ pc[p] = "pages" /\ pc'[p] = "record"
    BY <1>7, <1>t DEF OpenPages, TypeOK
  <2> QED BY <1>t, <1>w, <2>4, <2>5 DEF WorkTraced, Quotes
<1>8. CASE TruncateRecord(p)
  <2>1. UNCHANGED <<rec, q, cur, raw, todo>> /\ pc[p] = "record" /\ pc'[p] = "flush"
    BY <1>8, <1>t DEF TruncateRecord, TypeOK
  <2> QED BY <1>t, <1>w, <2>1 DEF WorkTraced
<1>r. ASSUME ResetWork(p), pc'[p] \in {"loop", "idle"}, todo'[p] \subseteq todo[p], ~Stopped(p)
      PROVE  WorkTraced(p)'
  BY <1>r, <1>t DEF ResetWork, TypeOK, WorkTraced
<1>9. CASE WriteRecord(p)
  BY <1>9, <1>r, <1>t DEF WriteRecord, Drop, TypeOK
<1>10. CASE ResearchRaises(p)
  BY <1>10, <1>r, <1>t DEF ResearchRaises, Drop, TypeOK
<1>11. CASE TruncateSummaries(p)
  <2>1. UNCHANGED <<rec, q, todo>> /\ pc[p] = "loop" /\ pc'[p] = "sum"
    BY <1>11, <1>t DEF TruncateSummaries, TypeOK
  <2> QED BY <1>t, <1>n, <2>1 DEF WorkTraced
<1>12. CASE WriteSummaries(p)
  <2>1. UNCHANGED <<rec, q, todo>> /\ pc[p] = "sum" /\ pc'[p] = "done"
    BY <1>12, <1>t DEF WriteSummaries, TypeOK
  <2> QED BY <1>t, <1>n, <2>1 DEF WorkTraced
<1>13. CASE Crash(p)
  BY <1>13, <1>r, <1>t DEF Crash, TypeOK
<1> QED BY <1>1, <1>2, <1>3, <1>4, <1>5, <1>6, <1>7, <1>8, <1>9, <1>10, <1>11, <1>12, <1>13, <1>14 DEF Acts, Step

(* A file that is whole after a step was so before it, or was just written  *)
(* by the process that acts; only then is its company no longer in redone.  *)
LEMMA FileSteps ==
    ASSUME CursorInv, NEW p \in Procs, Acts(p), NEW c \in Companies
    PROVE  \/ file'[c] = file[c] /\ (c \in redone => c \in redone')
           \/ pc[p] = "record" /\ cur[p] = c /\ file'[c] = Torn /\ UNCHANGED <<todo, cur, resume>> /\ pc'[p] = "flush"
           \/ pc[p] = "flush" /\ cur[p] = c /\ file'[c] = Whole(rec[p]) /\ UNCHANGED raw
<1> USE DEF disk, control, work, bounds
<1>t. TypeOK
  BY DEF CursorInv
<1>1. CASE TruncateRecord(p)
  BY <1>1, <1>t DEF TruncateRecord, TypeOK
<1>2. CASE WriteRecord(p)
  BY <1>2, <1>t DEF WriteRecord, TypeOK
<1>3. CASE UNCHANGED <<file, redone>>
  BY <1>3
<1>4. CASE TruncateSerp(p)
  BY <1>4 DEF TruncateSerp
<1> QED BY <1>1, <1>2, <1>3, <1>4 DEF Acts, Step, Start, TakeCached, BeginResearch, Load, SerpFailed, SerpParsed,
           OpenPages, ResearchRaises, TruncateSummaries, WriteSummaries, Crash

(* Another process is not disturbed: it works on another company.           *)
LEMMA OtherTraced ==
    ASSUME Apart, TraceInv, NEW p \in Procs, Acts(p), NEW o \in Procs, o # p
    PROVE  WorkTraced(o)'
<1>t. CursorInv /\ TypeOK /\ WorkTraced(p) /\ WorkTraced(o)
  BY DEF TraceInv, CursorInv
<1>l. \A r \in Procs : ~Stopped(r) => todo[r] \subseteq Assignment[r]
  BY DEF TraceInv, WorkTraced
<1>1. /\ pc'[o] = pc[o] /\ cur'[o] = cur[o] /\ rec'[o] = rec[o] /\ todo'[o] = todo[o] /\ q'[o] = q[o]
  BY <1>t, OthersStay
<1>2. ASSUME Working(o) PROVE cur[o] \in Companies /\ (Working(p) => cur[p] # cur[o])
  BY <1>t, <1>l, <1>2, CursorIsCompany, WorkApart
<1>3. Working(o) => raw'[cur[o]] = raw[cur[o]]
  BY <1>t, <1>2, RawSteps DEF Working
<1>4. Working(o) /\ cur[o] \in redone => cur[o] \in redone'
  BY <1>t, <1>2, FileSteps DEF Working
<1> QED BY <1>t, <1>1, <1>3, <1>4 DEF WorkTraced, Working, Stopped

LEMMA TraceInductive == Apart /\ TraceInv /\ [FetchNext]_vars => TraceInv'
<1> SUFFICES ASSUME Apart, TraceInv, [FetchNext]_vars PROVE TraceInv'
  OBVIOUS
<1>t. CursorInv /\ TypeOK /\ (\A o \in Procs : WorkTraced(o)) /\ RecordsAreTraceable
  BY DEF TraceInv, CursorInv
<1>1. CursorInv'
  BY <1>t, NextTypes, NextOnList DEF CursorInv
<1>0. CASE UNCHANGED vars
  BY <1>0, <1>1, <1>t DEF vars, TraceInv, WorkTraced, RecordsAreTraceable, Working, Quotes, Stopped
<1>2. ASSUME NEW p \in Procs, Acts(p) PROVE TraceInv'
  <2>1. \A o \in Procs : WorkTraced(o)'
    BY <1>2, ActorTraced, OtherTraced
  <2>2. ASSUME NEW c \in Companies, c \notin redone', file'[c].state = "whole"
        PROVE  Quotes(file'[c].rec, raw'[c])
    <3>0. raw'[c] = raw[c]
      BY <1>2, <1>t, <2>2, RawSteps
    <3>1. CASE file'[c] = file[c] /\ (c \in redone => c \in redone')
      BY <1>t, <2>2, <3>0, <3>1 DEF RecordsAreTraceable, Quotes
    <3>2. CASE file'[c] = Torn
      BY <2>2, <3>2, NewQuotesNothing
    <3>3. CASE pc[p] = "flush" /\ cur[p] = c /\ file'[c] = Whole(rec[p]) /\ UNCHANGED raw
      <4>1. file'[c].rec = rec[p]
        BY <3>3 DEF Whole
      <4> QED BY <1>t, <3>0, <3>3, <4>1 DEF WorkTraced, Working
    <3> QED BY <1>2, <1>t, <3>1, <3>2, <3>3, FileSteps
  <2>4. RecordsAreTraceable'
    BY <2>2 DEF RecordsAreTraceable, Quotes
  <2> QED BY <1>1, <2>1, <2>4 DEF TraceInv
<1> QED BY <1>0, <1>2 DEF FetchNext, Acts

(* When the lists do not overlap, a record on disk answers for its          *)
(* searches: each page it quotes is the one that raw/ holds, whatever was   *)
(* killed, torn and fetched again, but for the companies that a run without *)
(* --resume has begun anew and not yet recorded (lines 90-104, 164).        *)
THEOREM TraceHolds == ASSUME Apart PROVE Spec => []RecordsAreTraceable
<1>1. Init => TraceInv
  BY InitCursor, NewQuotesNothing DEF Init, TraceInv, WorkTraced, RecordsAreTraceable, Working, Nothing, Stopped
<1>2. TraceInv => RecordsAreTraceable
  BY DEF TraceInv
<1>3. TraceInv /\ [FetchNext]_vars => TraceInv'
  BY TraceInductive
<1> QED BY <1>1, <1>2, <1>3, PTL DEF Spec

----------------------------------------------------------------------------
(* Inductive strengthening of NoCompanyDropped: what has left the list of a *)
(* live process is among its records or has an error file.                  *)
Accounted(p) == Assignment[p] \ todo[p] \subseteq Holds(alls[p]) \cup log
DropInv == CursorInv /\ \A p \in Procs : pc[p] \notin {"idle", "died"} => Accounted(p)

LEMMA LogGrows == ASSUME NEW p \in Procs, Acts(p) PROVE log \subseteq log'
BY DEF Acts, Step, Start, TakeCached, BeginResearch, Load, SerpFailed, TruncateSerp, SerpParsed, OpenPages,
       TruncateRecord, WriteRecord, ResearchRaises, Reported, TruncateSummaries, WriteSummaries, Crash, disk

(* One more record in what a process holds.                                 *)
LEMMA HoldsMore ==
    ASSUME TypeOK, NEW p \in Procs, NEW c \in Companies, NEW f \in File, f.state = "whole",
           alls' = [alls EXCEPT ![p][c] = f]
    PROVE  Holds(alls[p]) \cup {c} \subseteq Holds(alls'[p])
<1>1. alls \in [Procs -> [Companies -> File]] /\ alls[p] \in [Companies -> File]
  BY DEF TypeOK
<1>2. alls'[p] = [alls[p] EXCEPT ![c] = f]
  BY <1>1
<1> QED BY <1>1, <1>2 DEF Holds

LEMMA DropInductive == DropInv /\ [FetchNext]_vars => DropInv'
<1> SUFFICES ASSUME DropInv, [FetchNext]_vars PROVE DropInv'
  OBVIOUS
<1>t. CursorInv /\ TypeOK /\ OnList
  BY DEF DropInv, CursorInv
<1>c. CursorInv'
  BY <1>t, NextTypes, NextOnList DEF CursorInv
<1>0. CASE UNCHANGED vars
  BY <1>0, <1>c DEF vars, DropInv, Accounted
<1>n. SUFFICES ASSUME NEW p \in Procs, Acts(p)
               PROVE  \A o \in Procs : pc'[o] \notin {"idle", "died"} => Accounted(o)'
  BY <1>0, <1>c DEF FetchNext, Acts, DropInv
<1>l. log \subseteq log'
  BY <1>n, LogGrows
<1>o. SUFFICES ASSUME pc'[p] \notin {"idle", "died"} PROVE Accounted(p)'
  BY <1>n, <1>t, <1>l, OthersStay DEF DropInv, Accounted
<1>a. pc[p] \notin {"idle", "died"} => Accounted(p)
  BY DEF DropInv
<1>s. ASSUME pc[p] \notin {"idle", "died"}, todo' = todo, alls' = alls PROVE Accounted(p)'
  BY <1>s, <1>a, <1>l DEF Accounted
<1> USE DEF disk, control, work, bounds
<1>1. CASE Start(p)
  BY <1>1, <1>t DEF Start, TypeOK, Accounted
<1>2. CASE TakeCached(p)
  <2>1. Least(todo[p]) \in Companies /\ todo'[p] = todo[p] \ {Least(todo[p])}
    BY <1>2, <1>o, <1>t, LeastIsMember DEF TakeCached, Drop, TypeOK
  <2>2. /\ alls' = [alls EXCEPT ![p][Least(todo[p])] = file[Least(todo[p])]]
        /\ file[Least(todo[p])].state = "whole" /\ file[Least(todo[p])] \in File
    BY <1>2, <1>o, <1>t, <2>1 DEF TakeCached, TypeOK
  <2>3. Holds(alls[p]) \cup {Least(todo[p])} \subseteq Holds(alls'[p])
    BY <1>t, <2>1, <2>2, HoldsMore
  <2> QED BY <1>2, <1>a, <1>l, <2>1, <2>3 DEF TakeCached, Accounted
<1>3. CASE BeginResearch(p)
  BY <1>3, <1>s DEF BeginResearch
<1>4. CASE Load(p)
  BY <1>4, <1>s DEF Load
<1>5. CASE SerpFailed(p)
  BY <1>5, <1>s DEF SerpFailed
<1>6. CASE SerpParsed(p)
  BY <1>6, <1>s DEF SerpParsed
<1>14. CASE TruncateSerp(p)
  BY <1>14, <1>s DEF TruncateSerp
<1>7. CASE OpenPages(p)
  BY <1>7, <1>s DEF OpenPages
<1>8. CASE TruncateRecord(p)
  BY <1>8, <1>s DEF TruncateRecord
<1>9. CASE WriteRecord(p)
  <2>1. cur[p] \in Companies /\ cur[p] = Least(todo[p]) /\ rec[p] \in Record
    BY <1>9, <1>t, CursorIsCompany DEF WriteRecord, Working, OnList, TypeOK
  <2>2. todo'[p] = todo[p] \ {cur[p]}
    BY <1>9, <1>t, <2>1 DEF WriteRecord, Drop, TypeOK
  <2>3. Whole(rec[p]) \in File /\ Whole(rec[p]).state = "whole"
    BY <2>1, FileTypes DEF Whole
  <2>4. Holds(alls[p]) \cup {cur[p]} \subseteq Holds(alls'[p])
    BY <1>9, <1>t, <2>1, <2>3, HoldsMore DEF WriteRecord
  <2> QED BY <1>9, <1>a, <1>l, <2>2, <2>4 DEF WriteRecord, Accounted
<1>10. CASE ResearchRaises(p)
  <2>1. todo'[p] = todo[p] \ {cur[p]}
    BY <1>10, <1>t DEF ResearchRaises, Drop, TypeOK, OnList, Working
  <2>2. cur[p] \in log' /\ alls' = alls
    BY <1>10 DEF ResearchRaises, Reported
  <2> QED BY <1>10, <1>a, <1>l, <2>1, <2>2 DEF ResearchRaises, Accounted
<1>11. CASE TruncateSummaries(p)
  BY <1>11, <1>s DEF TruncateSummaries
<1>12. CASE WriteSummaries(p)
  BY <1>12, <1>s DEF WriteSummaries
<1>13. CASE Crash(p)
  BY <1>13, <1>o, <1>t DEF Crash, TypeOK
<1> QED BY <1>n, <1>1, <1>2, <1>3, <1>4, <1>5, <1>6, <1>7, <1>8, <1>9, <1>10, <1>11, <1>12, <1>13, <1>14 DEF Acts, Step

(* No company is lost: a process that comes to its end has a record or an   *)
(* error file for every company of its list (lines 156-170).                *)
THEOREM DropHolds == Spec => []NoCompanyDropped
<1>1. Init => DropInv
  BY InitCursor DEF Init, DropInv
<1>2. DropInv => NoCompanyDropped
  BY DEF DropInv, CursorInv, OnList, NoCompanyDropped, Accounted
<1> QED BY <1>1, <1>2, DropInductive, PTL DEF Spec

----------------------------------------------------------------------------
(* Inductive invariant of ResumeKeepsRecords: a process that was started    *)
(* with --resume works on a company of its list that has no whole record.   *)
OwnCompany(p) ==
    /\ ~Stopped(p) => todo[p] \subseteq Assignment[p]
    /\ Working(p) /\ resume[p] => file[cur[p]].state # "whole"
KeepInv == CursorInv /\ \A p \in Procs : OwnCompany(p)

LEMMA KeepInductive == Apart /\ KeepInv /\ [FetchNext]_vars => KeepInv'
<1> SUFFICES ASSUME Apart, KeepInv, [FetchNext]_vars PROVE KeepInv'
  OBVIOUS
<1>t. CursorInv /\ TypeOK /\ OnList
  BY DEF KeepInv, CursorInv
<1>k. \A p \in Procs : OwnCompany(p)
  BY DEF KeepInv
<1>c. CursorInv'
  BY <1>t, NextTypes, NextOnList DEF CursorInv
<1>0. CASE UNCHANGED vars
  BY <1>0, <1>c DEF vars, KeepInv, OwnCompany, Stopped, Working
<1>n. SUFFICES ASSUME NEW p \in Procs, Acts(p)
               PROVE  \A o \in Procs : OwnCompany(o)'
  BY <1>0, <1>c DEF FetchNext, Acts, KeepInv
<1>o. ASSUME NEW o \in Procs, o # p
      PROVE  OwnCompany(o)'
  <2>1. pc'[o] = pc[o] /\ todo'[o] = todo[o] /\ cur'[o] = cur[o] /\ resume'[o] = resume[o]
    BY <1>n, <1>t, <1>o, OthersStay
  <2>2. ASSUME Working(o) PROVE file'[cur[o]] = file[cur[o]]
    <3>1. cur[o] \in Assignment[o] /\ cur[o] \in Companies
      BY <1>t, <1>k, <2>2, CursorIsCompany DEF OwnCompany, Stopped, Working
    <3>2. Working(p) => cur[p] \in Assignment[p]
      BY <1>t, <1>k, CursorIsCompany DEF OwnCompany, Stopped, Working
    <3> QED BY <1>n, <1>t, <1>o, <3>1, <3>2, FileSteps DEF Apart, Working
  <2> QED BY <1>k, <2>1, <2>2 DEF OwnCompany, Stopped, Working
<1>p. SUFFICES OwnCompany(p)'
  BY <1>o
<1>q. OwnCompany(p)
  BY <1>k
<1> USE DEF OwnCompany, Stopped, Working, TypeOK, disk, control, work, bounds
<1>1. CASE Start(p)
  BY <1>1, <1>t DEF Start
<1>2. CASE TakeCached(p)
  <2>1. todo'[p] \subseteq todo[p] /\ pc'[p] \in {"loop", "died"} /\ resume' = resume
    BY <1>2, <1>t DEF TakeCached, Drop
  <2> QED BY <1>2, <1>q, <2>1 DEF TakeCached
<1>3. CASE BeginResearch(p)
  <2>1. cur'[p] = Least(todo[p]) /\ file' = file /\ todo' = todo /\ resume' = resume /\ pc[p] = "loop"
    BY <1>3, <1>t DEF BeginResearch
  <2>2. resume[p] => file[Least(todo[p])] = None
    BY <1>3, <1>q DEF BeginResearch, Cached
  <2>3. None.state # "whole"
    BY DEF None
  <2>4. todo[p] \subseteq Assignment[p]
    BY <1>q, <2>1
  <2> QED BY <1>3, <1>t, <2>1, <2>2, <2>3, <2>4 DEF BeginResearch
<1>4. CASE Load(p)
  BY <1>4, <1>t, <1>q DEF Load
<1>5. CASE SerpFailed(p)
  BY <1>5, <1>t, <1>q, NextQueryTypes DEF SerpFailed
<1>6. CASE SerpParsed(p)
  BY <1>6, <1>t, <1>q, NextQueryTypes DEF SerpParsed
<1>14. CASE TruncateSerp(p)
  BY <1>14, <1>t, <1>q DEF TruncateSerp
<1>7. CASE OpenPages(p)
  BY <1>7, <1>t, <1>q DEF OpenPages
<1>8. CASE TruncateRecord(p)
  <2>1. cur[p] \in Companies
    BY <1>8, <1>t, CursorIsCompany DEF TruncateRecord
  <2>2. file'[cur[p]] = Torn
    BY <1>8, <1>t, <2>1 DEF TruncateRecord
  <2>3. Torn.state # "whole"
    BY DEF Torn
  <2> QED BY <1>8, <1>q, <2>2, <2>3 DEF TruncateRecord
<1>9. CASE WriteRecord(p)
  BY <1>9, <1>t, <1>q DEF WriteRecord, Drop
<1>10. CASE ResearchRaises(p)
  BY <1>10, <1>t, <1>q DEF ResearchRaises, Drop
<1>11. CASE TruncateSummaries(p)
  BY <1>11, <1>t, <1>q DEF TruncateSummaries
<1>12. CASE WriteSummaries(p)
  BY <1>12, <1>t, <1>q DEF WriteSummaries
<1>13. CASE Crash(p)
  BY <1>13, <1>t DEF Crash
<1> QED BY <1>n, <1>1, <1>2, <1>3, <1>4, <1>5, <1>6, <1>7, <1>8, <1>9, <1>10, <1>11, <1>12, <1>13, <1>14 DEF Acts, Step

(* When the lists do not overlap, no step of any process changes a record   *)
(* that was written, as long as the runs over its company are started with  *)
(* --resume (lines 158-164).                                                *)
THEOREM ResumeHolds == ASSUME Apart PROVE Spec => ResumeKeepsRecords
<1>1. Init => KeepInv
  BY InitCursor DEF Init, KeepInv, OwnCompany, Stopped, Working
<1>2. KeepInv /\ [FetchNext]_vars => KeepInv'
  BY KeepInductive
<1>3. KeepInv /\ [FetchNext]_vars => [\A c \in Companies :
                                                file[c].state = "whole" /\ ResumedOnly(c) => file'[c] = file[c]]_vars
  <2> SUFFICES ASSUME KeepInv, FetchNext, NEW c \in Companies, file[c].state = "whole", ResumedOnly(c)
               PROVE  file'[c] = file[c]
    OBVIOUS
  <2>1. PICK p \in Procs : Acts(p)
    BY DEF FetchNext, Acts
  <2>2. pc[p] \in {"record", "flush"} => cur[p] # c
    BY CursorIsCompany DEF KeepInv, OwnCompany, Working, Stopped, ResumedOnly
  <2>3. CursorInv
    BY DEF KeepInv
  <2> QED BY <2>1, <2>2, <2>3, FileSteps
<1> QED BY <1>1, <1>2, <1>3, PTL DEF Spec, ResumeKeepsRecords

----------------------------------------------------------------------------
(* The report scripts                                                       *)

Alike(text) == text.end => text.profiles.kind = text.non.kind /\ text.profiles # Gone

(* Inductive strengthening of HalvesFillTogether.  While assemble.py has    *)
(* read the profiles and not the other fragments, the half that is done is  *)
(* what the other half is going to be; at every other step the text held in *)
(* memory has both halves alike, so that the write keeps them alike.  A     *)
(* text that was cut has no end, and is none of this.                       *)
HalvesInv ==
    /\ report.text \in Text /\ jtext \in Text
    /\ fragments \in [Halves -> Nat]
    /\ Alike(report.text)
    /\ IF jpc = "non"
         THEN jtext.end => /\ jtext.profiles.kind = IF jtext.non = Marker THEN "fragments" ELSE jtext.non.kind
                           /\ jtext.profiles # Gone
         ELSE Alike(jtext)

LEMMA NoTextIsText == NoText \in Text /\ Alike(NoText)
BY DEF NoText, Text, Slot, Gone, Alike

LEMMA CutIsText == ASSUME NEW text \in Text, NEW n \in 1..4 PROVE Cut(text, n) \in Text /\ Alike(Cut(text, n))
BY DEF Cut, Text, Slot, Alike

(* A place that holds a marker holds fragments once it is filled, and any   *)
(* other place keeps what it holds.                                         *)
LEMMA FilledSlot ==
    ASSUME NEW h \in Halves, NEW slot \in Slot, fragments \in [Halves -> Nat], Readable(h)
    PROVE  /\ Filled(h, slot) \in Slot
           /\ Filled(h, slot).kind = IF slot = Marker THEN "fragments" ELSE slot.kind
<1>1. CASE slot = Marker
  BY <1>1 DEF Filled, Fragments, Readable, Slot
<1>2. CASE slot # Marker
  BY <1>2 DEF Filled
<1> QED BY <1>1, <1>2

(* Gone, a marker and fragments are told apart by their kind. *)
LEMMA MarkerByKind ==
    ASSUME NEW slot \in Slot
    PROVE  (slot = Marker <=> slot.kind = "marker") /\ (slot = Gone <=> slot.kind = "gone")
BY DEF Slot, Gone, Marker

(* A script that ends, or a step that leaves the report and the text alone, *)
(* keeps the invariant.                                                     *)
LEMMA EndKeeps ==
    ASSUME HalvesInv, NEW script, End(script), UNCHANGED files
    PROVE  HalvesInv'
BY NoTextIsText DEF HalvesInv, End, files, Alike

LEMMA QuietKeeps ==
    ASSUME HalvesInv, UNCHANGED <<report, jtext>>, fragments' \in [Halves -> Nat],
           jpc' = jpc \/ (jpc # "non" /\ jpc' # "non")
    PROVE  HalvesInv'
BY DEF HalvesInv, Alike

LEMMA HalvesInductive == HalvesInv /\ [ReportNext]_allVars => HalvesInv'
<1> SUFFICES ASSUME HalvesInv, [ReportNext]_allVars PROVE HalvesInv'
  OBVIOUS
<1>f. fragments \in [Halves -> Nat]
  BY DEF HalvesInv
<1>1. CASE FetchPart
  BY <1>1, <1>f, QuietKeeps DEF FetchPart, files, jlocals
<1>2. CASE (\E h \in Halves : WriteFragments(h)) /\ UNCHANGED vars
  <2>1. PICK h \in Halves : WriteFragments(h)
    BY <1>2
  <2>2. fragments' \in [Halves -> Nat]
    BY <2>1, <1>f DEF WriteFragments
  <2> QED BY <2>1, <2>2, QuietKeeps DEF WriteFragments, jlocals
<1>3. CASE BeginDigests \/ BeginScaffold \/ BeginAssemble
  BY <1>3, <1>f, QuietKeeps DEF BeginDigests, BeginScaffold, BeginAssemble, Begin, files
<1>4. CASE Merge
  <2>1. UNCHANGED files
    BY <1>4 DEF Merge
  <2>2. jpc = "merge"
    BY <1>4 DEF Merge
  <2>3. End("none") \/ UNCHANGED <<jpc, jtext>>
    BY <1>4 DEF Merge
  <2>4. CASE End("none")
    BY <2>1, <2>4, EndKeeps
  <2>5. CASE UNCHANGED <<jpc, jtext>>
    BY <2>1, <2>5, <1>f, QuietKeeps DEF files
  <2> QED BY <2>3, <2>4, <2>5
<1>5. CASE TruncateSummary \/ WriteSummary \/ TruncateDigests
  BY <1>5, <1>f, QuietKeeps DEF TruncateSummary, WriteSummary, TruncateDigests, Goto, files
<1>6. CASE WriteDigests
  BY <1>6, NoTextIsText DEF WriteDigests, End, HalvesInv, Alike
<1>7. CASE MakeTables
  <2>1. CASE digests.state = "whole" /\ summaries.state = "whole"
    <3>1. jtext' = [overview |-> Digested(digests.of), appendix |-> Holds(summaries.recs),
                    profiles |-> Marker, non |-> Marker, end |-> TRUE]
      BY <1>7, <2>1 DEF MakeTables
    <3>2. Digested(digests.of) \subseteq Companies /\ Holds(summaries.recs) \subseteq Companies
      BY DEF Digested, Holds
    <3>3. jtext' \in Text /\ Alike(jtext')
      BY <3>1, <3>2 DEF Text, Slot, Alike, Gone, Marker
    <3>4. jpc' = "truncateReport" /\ UNCHANGED files
      BY <1>7, <2>1 DEF MakeTables, Goto
    <3> QED BY <3>3, <3>4 DEF HalvesInv, files, Alike
  <2>2. CASE ~(digests.state = "whole" /\ summaries.state = "whole")
    <3>1. End("none") /\ UNCHANGED files
      BY <1>7, <2>2 DEF MakeTables
    <3> QED BY <3>1, EndKeeps
  <2> QED BY <2>1, <2>2
<1>8. CASE InjectProfiles
  <2>1. CASE report.state \in {"torn", "whole"} /\ Readable("profiles")
    <3>1. /\ jtext' = [report.text EXCEPT !.profiles = Filled("profiles", @)]
          /\ jpc' = "non" /\ UNCHANGED files
      BY <1>8, <2>1 DEF InjectProfiles, Goto
    <3>2. report.text \in Text /\ report.text.profiles \in Slot /\ report.text.non \in Slot
      BY DEF HalvesInv, Text
    <3>3. /\ Filled("profiles", report.text.profiles) \in Slot
          /\ Filled("profiles", report.text.profiles).kind
               = IF report.text.profiles = Marker THEN "fragments" ELSE report.text.profiles.kind
      BY <2>1, <3>2, <1>f, FilledSlot DEF Halves
    <3>4. jtext' \in Text /\ jtext'.non = report.text.non /\ jtext'.end = report.text.end
          /\ jtext'.profiles = Filled("profiles", report.text.profiles)
      BY <3>1, <3>2, <3>3 DEF Text
    <3>5. report.text.end => /\ report.text.profiles = Marker <=> report.text.non = Marker
                             /\ report.text.profiles.kind = report.text.non.kind
                             /\ report.text.profiles.kind # "gone"
      BY <3>2, MarkerByKind DEF HalvesInv, Alike
    <3>7. jtext'.end => jtext'.profiles.kind # "gone"
      BY <3>3, <3>4, <3>5
    <3>8. jtext'.end => jtext'.profiles # Gone
      BY <3>7 DEF Gone
    <3>6. jtext'.end => /\ jtext'.profiles.kind = IF jtext'.non = Marker THEN "fragments" ELSE jtext'.non.kind
                        /\ jtext'.profiles # Gone
      BY <3>3, <3>4, <3>5, <3>8
    <3> QED BY <3>1, <3>4, <3>6 DEF HalvesInv, files, Alike
  <2>2. CASE ~(report.state \in {"torn", "whole"} /\ Readable("profiles"))
    <3>1. End("none") /\ UNCHANGED files
      BY <1>8, <2>2 DEF InjectProfiles
    <3> QED BY <3>1, EndKeeps
  <2> QED BY <2>1, <2>2
<1>9. CASE InjectNonStartup
  <2>1. CASE Readable("non")
    <3>1. /\ jtext' = [jtext EXCEPT !.non = Filled("non", @)]
          /\ jpc' = "truncateReport" /\ UNCHANGED files
      BY <1>9, <2>1 DEF InjectNonStartup, Goto
    <3>2. jtext \in Text /\ jtext.non \in Slot
      BY DEF HalvesInv, Text
    <3>3. /\ Filled("non", jtext.non) \in Slot
          /\ Filled("non", jtext.non).kind
               = IF jtext.non = Marker THEN "fragments" ELSE jtext.non.kind
      BY <2>1, <3>2, <1>f, FilledSlot DEF Halves
    <3>4. jtext' \in Text /\ jtext'.profiles = jtext.profiles /\ jtext'.end = jtext.end
          /\ jtext'.non = Filled("non", jtext.non)
      BY <3>1, <3>2, <3>3 DEF Text
    <3>5. jpc = "non"
      BY <1>9 DEF InjectNonStartup
    <3>6. Alike(jtext')
      BY <3>3, <3>4, <3>5 DEF HalvesInv, Alike
    <3> QED BY <3>1, <3>4, <3>6 DEF HalvesInv, files, Alike
  <2>2. CASE ~Readable("non")
    <3>1. End("none") /\ UNCHANGED files
      BY <1>9, <2>2 DEF InjectNonStartup
    <3> QED BY <3>1, EndKeeps
  <2> QED BY <2>1, <2>2
<1>10. CASE TruncateReport
  BY <1>10, NoTextIsText DEF TruncateReport, Goto, HalvesInv, Alike
<1>11. CASE WriteReport
  BY <1>11, NoTextIsText DEF WriteReport, End, HalvesInv, Alike
<1>12. CASE KillJob
  <2>1. End("none") /\ UNCHANGED fragments
    BY <1>12 DEF KillJob
  <2>2. CASE UNCHANGED report
    BY <1>12, <2>1, <2>2, EndKeeps DEF KillJob, files
  <2>3. CASE PartWritten
    <3>1. report'.text \in Text /\ Alike(report'.text)
      BY <2>3, CutIsText, NoTextIsText DEF PartWritten, HalvesInv
    <3> QED BY <2>1, <3>1, NoTextIsText DEF End, HalvesInv, Alike
  <2> QED BY <1>12, <2>2, <2>3 DEF KillJob
<1>13. CASE UNCHANGED allVars
  BY <1>13, <1>f, QuietKeeps DEF allVars, reportVars
<1> QED
  BY <1>1, <1>2, <1>3, <1>4, <1>5, <1>6, <1>7, <1>8, <1>9, <1>10, <1>11, <1>12, <1>13
     DEF ReportNext, JobStep

(* However often the fragments are rewritten and the scripts run, fail and  *)
(* are killed, in the middle of a write too, a report.html that has its end *)
(* never has one half filled in and the other still missing (assemble.py    *)
(* lines 5-18, build_scaffold.py line 160).                                 *)
THEOREM HalvesHold == ReportSpec => []HalvesFillTogether
<1>1. Init /\ ReportInit => HalvesInv
  BY NoTextIsText DEF ReportInit, HalvesInv, Alike
<1>2. HalvesInv => HalvesFillTogether
  BY DEF HalvesInv, HalvesFillTogether, Alike
<1> QED BY <1>1, <1>2, HalvesInductive, PTL DEF ReportSpec

----------------------------------------------------------------------------
(* recs says of c what the file of c says.                                  *)
SameAt(recs, c) == IF file[c].state = "whole" THEN recs[c] = file[c] ELSE recs[c].state # "whole"

MergeTypes == CursorInv /\ jtodo \subseteq Companies /\ jrecs \in [Companies -> File]

(* A script holds records only while it runs, a script that has ended runs  *)
(* no more, and the steps that write the report are not build_digests.py's. *)
Places ==
    /\ ended # "none" => jpc = "idle"
    /\ jpc = "idle" => jrecs = Nothing
    /\ jpc \in {"tables", "profiles", "non", "truncateReport", "writeReport"} => job # "digests"

(* What build_digests.py has done so far, as long as nothing it reads has   *)
(* changed: the files no longer in its list are merged, and after the list  *)
(* all of them; then the summary holds the same.                            *)
Merged ==
    settled =>
        /\ jpc = "merge" => \A c \in Companies \ jtodo : SameAt(jrecs, c)
        /\ jpc \in {"summary", "digest", "writeDigests"} => \A c \in Companies : SameAt(jrecs, c)
        /\ jpc \in {"digest", "writeDigests"} => summaries.recs = jrecs

MergeInv == MergeTypes /\ Places /\ Merged /\ MergeIsComplete

(* The same records give the same digests. *)
LEMMA SameRecords ==
    ASSUME NEW recs, \A c \in Companies : SameAt(recs, c)
    PROVE  /\ Holds(recs) = Holds(file) /\ \A c \in Holds(file) : recs[c] = file[c]
           /\ Digests(recs) = Digests(file)
<1>1. Holds(recs) = Holds(file) /\ \A c \in Holds(file) : recs[c] = file[c]
  BY DEF SameAt, Holds
<1>2. \A c \in Companies : (IF c \in Holds(recs) THEN DigestOf(c, recs[c].rec) ELSE NoDigest)
                           = (IF c \in Holds(file) THEN DigestOf(c, file[c].rec) ELSE NoDigest)
  BY <1>1
<1> QED BY <1>1, <1>2 DEF Digests

(* The scripts touch no more of the fetchers' state than summaries.json.    *)
LEMMA FetchersStay ==
    ASSUME CursorInv, UNCHANGED <<file, raw, redone, log, control, work>>,
           summaries'.state \in {"none", "torn", "whole"}, summaries'.recs \in [Companies -> File]
    PROVE  CursorInv'
BY DEF CursorInv, TypeOK, OnList, Working, control, work

LEMMA UntouchedFetchers == ASSUME CursorInv, UNCHANGED <<disk, control, work>> PROVE CursorInv'
BY FetchersStay DEF disk, CursorInv, TypeOK

LEMMA NothingIsTyped == Nothing \in [Companies -> File] /\ \A c \in Companies : Nothing[c].state = "none"
BY FileTypes DEF Nothing, None

LEMMA TypesInductive == MergeTypes /\ [ReportNext]_allVars => MergeTypes'
<1> SUFFICES ASSUME MergeTypes, [ReportNext]_allVars PROVE MergeTypes'
  OBVIOUS
<1> USE DEF MergeTypes
<1>t. TypeOK
  BY DEF CursorInv
<1>v. UNCHANGED vars => UNCHANGED <<disk, control, work>>
  BY DEF vars, disk, control, work
<1>e. \A x : End(x) => jtodo' = {} /\ jrecs' = Nothing
  BY DEF End
<1>1. CASE FetchPart
  <2>1. CursorInv'
    BY <1>1, NextTypes, NextOnList DEF FetchPart, CursorInv
  <2> QED BY <1>1, <2>1 DEF FetchPart, jlocals
<1>2. CASE (\E h \in Halves : WriteFragments(h)) /\ UNCHANGED vars
  BY <1>2, <1>v, UntouchedFetchers DEF WriteFragments, jlocals
<1>3. CASE BeginDigests
  <2>1. RecordFiles \subseteq Companies
    BY DEF RecordFiles
  <2> QED BY <1>3, <1>v, <2>1, UntouchedFetchers DEF BeginDigests, Begin
<1>4. CASE BeginScaffold \/ BeginAssemble
  BY <1>4, <1>v, UntouchedFetchers DEF BeginScaffold, BeginAssemble, Begin
<1>5. CASE Merge
  <2>1. CursorInv'
    BY <1>5, <1>v, UntouchedFetchers DEF Merge
  <2>2. Least(jtodo) \in Companies
    BY <1>5, LeastIsMember DEF Merge
  <2>3. CASE file[Least(jtodo)].state = "whole"
    <3>1. jrecs' = [jrecs EXCEPT ![Least(jtodo)] = file[Least(jtodo)]] /\ jtodo' = jtodo \ {Least(jtodo)}
      BY <1>5, <2>3 DEF Merge, Rest
    <3> QED BY <1>t, <2>1, <2>2, <3>1 DEF TypeOK
  <2>4. CASE file[Least(jtodo)].state # "whole"
    <3>1. End("none")
      BY <1>5, <2>4 DEF Merge
    <3> QED BY <1>e, <2>1, <3>1, NothingIsTyped
  <2> QED BY <2>3, <2>4
<1>6. CASE TruncateSummary
  <2>1. UNCHANGED <<file, raw, redone, log, control, work, jtodo, jrecs>> /\ summaries' = [state |-> "torn", recs |-> Nothing]
    BY <1>6 DEF TruncateSummary
  <2> QED BY <2>1, FetchersStay, NothingIsTyped
<1>7. CASE WriteSummary
  <2>1. UNCHANGED <<file, raw, redone, log, control, work, jtodo, jrecs>> /\ summaries' = [state |-> "whole", recs |-> jrecs]
    BY <1>7 DEF WriteSummary
  <2> QED BY <2>1, FetchersStay
<1>8. CASE TruncateDigests \/ TruncateReport
  BY <1>8, <1>v, UntouchedFetchers DEF TruncateDigests, TruncateReport
<1>9. CASE WriteDigests \/ WriteReport
  BY <1>9, <1>v, <1>e, UntouchedFetchers, NothingIsTyped DEF WriteDigests, WriteReport
<1>10. CASE MakeTables \/ InjectProfiles \/ InjectNonStartup
  <2>1. UNCHANGED vars /\ (UNCHANGED <<jtodo, jrecs>> \/ End("none"))
    BY <1>10 DEF MakeTables, InjectProfiles, InjectNonStartup
  <2> QED BY <1>v, <1>e, <2>1, UntouchedFetchers, NothingIsTyped
<1>11. CASE KillJob
  BY <1>11, <1>e, UntouchedFetchers, NothingIsTyped DEF KillJob
<1>12. CASE UNCHANGED allVars
  BY <1>12, <1>v, UntouchedFetchers DEF allVars, reportVars
<1> QED BY <1>1, <1>2, <1>3, <1>4, <1>5, <1>6, <1>7, <1>8, <1>9, <1>10, <1>11, <1>12 DEF ReportNext, JobStep

LEMMA PlacesInductive == MergeTypes /\ Places /\ [ReportNext]_allVars => Places'
<1> SUFFICES ASSUME MergeTypes, Places, [ReportNext]_allVars PROVE Places'
  OBVIOUS
<1> USE DEF Places
<1>e. \A x : End(x) => jpc' = "idle" /\ jrecs' = Nothing
  BY DEF End
<1>1. CASE FetchPart \/ ((\E h \in Halves : WriteFragments(h)) /\ UNCHANGED vars)
  BY <1>1 DEF FetchPart, WriteFragments, jlocals
<1>2. CASE BeginDigests \/ BeginScaffold \/ BeginAssemble
  BY <1>2 DEF BeginDigests, BeginScaffold, BeginAssemble, Begin
<1>3. CASE Merge
  <2>1. jpc = "merge" /\ ended = "none"
    BY <1>3 DEF Merge
  <2>2. End("none") \/ UNCHANGED <<jpc, ended>>
    BY <1>3 DEF Merge
  <2> QED BY <1>e, <2>1, <2>2
<1>4. CASE TruncateSummary \/ WriteSummary \/ TruncateDigests \/ TruncateReport
  BY <1>4 DEF TruncateSummary, WriteSummary, TruncateDigests, TruncateReport, Goto
<1>5. CASE WriteDigests \/ WriteReport \/ KillJob
  BY <1>5, <1>e DEF WriteDigests, WriteReport, KillJob
<1>6. CASE MakeTables \/ InjectProfiles \/ InjectNonStartup
  <2>1. /\ jpc \in {"tables", "profiles", "non"}
        /\ End("none") \/ (UNCHANGED <<job, ended>> /\ jpc' \in {"non", "truncateReport"})
    BY <1>6 DEF MakeTables, InjectProfiles, InjectNonStartup, Goto
  <2> QED BY <1>e, <2>1
<1>7. CASE UNCHANGED allVars
  BY <1>7 DEF allVars, reportVars, jlocals
<1> QED BY <1>1, <1>2, <1>3, <1>4, <1>5, <1>6, <1>7 DEF ReportNext, JobStep

(* A step of something else than the merge, which leaves what the merge     *)
(* reads and writes alone.                                                  *)
LEMMA MergeUndisturbed ==
    ASSUME Merged, MergeIsComplete, settled' => settled /\ UNCHANGED <<file, summaries, digests>>,
           UNCHANGED <<jpc, jtodo, jrecs, ended>>
    PROVE  Merged' /\ MergeIsComplete'
<1>1. CASE ~settled'
  BY <1>1 DEF Merged, MergeIsComplete
<1>2. CASE settled'
  <2>1. settled /\ UNCHANGED <<file, summaries, digests>>
    BY <1>2
  <2> QED BY <2>1 DEF Merged, MergeIsComplete, SameAt, Holds, Digests
<1> QED BY <1>1, <1>2

LEMMA MergeInductive == MergeInv /\ [ReportNext]_allVars => MergeInv'
<1> SUFFICES ASSUME MergeInv, [ReportNext]_allVars PROVE MergeInv'
  OBVIOUS
<1>t. MergeTypes /\ Places /\ Merged /\ MergeIsComplete /\ TypeOK
  BY DEF MergeInv, MergeTypes, CursorInv
<1>k. MergeTypes' /\ Places'
  BY <1>t, TypesInductive, PlacesInductive
<1> SUFFICES Merged' /\ MergeIsComplete'
  BY <1>k DEF MergeInv
<1>e. \A x : End(x) => jpc' = "idle" /\ ended' = x
  BY DEF End
<1>i. jpc' = "idle" => Merged'
  BY DEF Merged
<1>d. ended' # "digests" => MergeIsComplete'
  BY DEF MergeIsComplete
<1>v. UNCHANGED vars => UNCHANGED <<file, summaries>>
  BY DEF vars
<1>1. CASE FetchPart
  BY <1>1, <1>t, MergeUndisturbed DEF FetchPart, files, jlocals
<1>2. CASE (\E h \in Halves : WriteFragments(h)) /\ UNCHANGED vars
  BY <1>2, <1>t, MergeUndisturbed DEF WriteFragments, jlocals
<1>3. CASE BeginDigests
  <2>1. /\ jpc' = "merge" /\ jrecs' = Nothing /\ ended' = "none" /\ UNCHANGED file
        /\ jtodo' = {c \in Companies : file[c].state # "none"}
    BY <1>3, <1>t, <1>v DEF BeginDigests, Begin, Places, RecordFiles
  <2>2. \A c \in Companies \ jtodo' : SameAt(jrecs, c)'
    BY <2>1, NothingIsTyped DEF SameAt
  <2> QED BY <1>d, <2>1, <2>2 DEF Merged
<1>4. CASE BeginScaffold \/ BeginAssemble
  BY <1>4, <1>d DEF BeginScaffold, BeginAssemble, Begin, Merged
<1>5. CASE Merge
  <2>1. CASE file[Least(jtodo)].state = "whole"
    <3>1. /\ jrecs' = [jrecs EXCEPT ![Least(jtodo)] = file[Least(jtodo)]]
          /\ jtodo' = jtodo \ {Least(jtodo)}
          /\ UNCHANGED <<jpc, ended, file, settled>> /\ jpc = "merge"
      BY <1>5, <1>v, <2>1 DEF Merge, Rest
    <3>2. Least(jtodo) \in Companies
      BY <1>5, <1>t, LeastIsMember DEF Merge, MergeTypes
    <3>3. settled => \A c \in Companies \ jtodo' : SameAt(jrecs, c)'
      BY <1>t, <2>1, <3>1, <3>2 DEF Merged, SameAt, MergeTypes
    <3>4. ended' # "digests"
      BY <1>t, <3>1 DEF Places
    <3> QED BY <1>d, <3>1, <3>3, <3>4 DEF Merged
  <2>2. CASE file[Least(jtodo)].state # "whole"
    <3>1. End("none")
      BY <1>5, <2>2 DEF Merge
    <3> QED BY <1>e, <1>i, <1>d, <3>1
  <2> QED BY <2>1, <2>2
<1>6. CASE TruncateSummary
  <2>1. /\ jpc = "merge" /\ jtodo = {} /\ jpc' = "summary" /\ ended' # "digests"
        /\ UNCHANGED <<file, jrecs, settled>>
    BY <1>6, <1>t DEF TruncateSummary, Goto, Places
  <2> QED BY <1>d, <1>t, <2>1 DEF Merged, SameAt
<1>7. CASE WriteSummary
  <2>1. /\ jpc = "summary" /\ jpc' = "digest" /\ ended' # "digests" /\ summaries'.recs = jrecs
        /\ UNCHANGED <<file, jrecs, settled>>
    BY <1>7, <1>t DEF WriteSummary, Goto, Places
  <2> QED BY <1>d, <1>t, <2>1 DEF Merged, SameAt
<1>8. CASE TruncateDigests
  <2>1. /\ jpc = "digest" /\ jpc' = "writeDigests" /\ ended' # "digests"
        /\ UNCHANGED <<file, summaries, jrecs, settled>>
    BY <1>8, <1>t, <1>v DEF TruncateDigests, Goto, Places
  <2> QED BY <1>d, <1>t, <2>1 DEF Merged, SameAt
<1>9. CASE WriteDigests
  <2>1. /\ jpc = "writeDigests" /\ jpc' = "idle" /\ digests'.of = Digests(jrecs)
        /\ UNCHANGED <<file, summaries, settled>>
    BY <1>9, <1>e, <1>v DEF WriteDigests
  <2>2. settled => summaries.recs = jrecs /\ \A c \in Companies : SameAt(jrecs, c)
    BY <1>t, <2>1 DEF Merged
  <2>3. settled => /\ Holds(summaries.recs) = Holds(file) /\ \A c \in Holds(file) : summaries.recs[c] = file[c]
                   /\ Digests(jrecs) = Digests(file)
    BY <2>2, SameRecords
  <2> QED BY <1>i, <2>1, <2>3 DEF MergeIsComplete, Holds, Digests
<1>10. CASE MakeTables \/ InjectProfiles \/ InjectNonStartup
  <2>1. /\ jpc \in {"tables", "profiles", "non"}
        /\ End("none") \/ (UNCHANGED ended /\ jpc' \in {"non", "truncateReport"})
    BY <1>10 DEF MakeTables, InjectProfiles, InjectNonStartup, Goto
  <2>2. ended' # "digests"
    BY <1>e, <1>t, <2>1 DEF Places
  <2> QED BY <1>e, <1>d, <1>i, <2>1, <2>2 DEF Merged
<1>11. CASE TruncateReport
  BY <1>11, <1>d, <1>t DEF TruncateReport, Goto, Places, Merged
<1>12. CASE WriteReport
  <2>1. jpc' = "idle" /\ ended' = job /\ job # "digests"
    BY <1>12, <1>e, <1>t DEF WriteReport, Places
  <2> QED BY <1>i, <1>d, <2>1
<1>13. CASE KillJob
  BY <1>13, <1>e, <1>i, <1>d DEF KillJob
<1>14. CASE UNCHANGED allVars
  BY <1>14, <1>t, <1>v, MergeUndisturbed DEF allVars, reportVars, jlocals
<1> QED
  BY <1>1, <1>2, <1>3, <1>4, <1>5, <1>6, <1>7, <1>8, <1>9, <1>10, <1>11, <1>12, <1>13, <1>14
     DEF ReportNext, JobStep

(* Whatever the fetch processes left behind, build_digests.py restores a    *)
(* summary of every record on disk, and digests of the same records, unless *)
(* a fetch process writes meanwhile (lines 7-20, 36-63).                    *)
THEOREM MergeHolds == ReportSpec => []MergeIsComplete
<1>1. Init /\ ReportInit => MergeInv
  BY InitCursor, NothingIsTyped DEF ReportInit, MergeInv, MergeTypes, Places, Merged, MergeIsComplete
<1>2. MergeInv => MergeIsComplete
  BY DEF MergeInv
<1> QED BY <1>1, <1>2, MergeInductive, PTL DEF ReportSpec

----------------------------------------------------------------------------
(* The papers                                                               *)
HIDE CompanyFetchAssumption DEF CompanyFetchAssumption
USE PaperDownloadAssumption DEF PaperDownloadAssumption

MetaRow == [id : Ids, failed : BOOLEAN]

LEMMA CurIdType == ASSUME entry \in DOMAIN PAPERS PROVE CurId \in Ids
BY DEF CurId, Ids

LEMMA NoRows == <<>> \in Seq(MetaRow)
OBVIOUS

LEMMA AppendRow ==
    ASSUME DownloadTypeOK, NEW b \in BOOLEAN, entry \in DOMAIN PAPERS
    PROVE  Append(meta, Row(CurId, b)) \in Seq(MetaRow)
<1>1. Row(CurId, b) \in MetaRow
  BY CurIdType DEF Row, MetaRow
<1> QED BY <1>1 DEF DownloadTypeOK, MetaRow

----------------------------------------------------------------------------
LEMMA SettleTypes ==
    ASSUME DownloadTypeOK, NEW s \in BOOLEAN, NEW b \in Bodies, Settle(s, b)
    PROVE  /\ ok' \in Nat /\ skip' \in Nat /\ fail' \in Nat
           /\ attempt' \in 0..RETRY /\ http' = "none"
           /\ at' \in {"entry", "done"} /\ entry' \in DOMAIN PAPERS
           /\ run' \in 0..MaxRuns /\ had' \subseteq Ids
<1>1. ok' \in Nat /\ skip' \in Nat /\ fail' \in Nat
  BY DEF Settle, DownloadTypeOK
<1>2. entry' \in DOMAIN PAPERS
  BY DEF Settle, DownloadTypeOK
<1> QED BY <1>1, <1>2 DEF Settle, DownloadTypeOK

LEMMA InitTypes == DownloadInit => DownloadTypeOK
BY NoRows DEF DownloadInit, DownloadTypeOK, Bodies, MetaRow

LEMMA DownloadTypes == DownloadTypeOK /\ [DownloadNext]_downloadVars => DownloadTypeOK'
<1> SUFFICES ASSUME DownloadTypeOK, [DownloadNext]_downloadVars PROVE DownloadTypeOK'
  OBVIOUS
<1>c. CurId \in Ids /\ pdf[CurId] \in Bodies
  BY CurIdType DEF DownloadTypeOK
<1>1. CASE StartDownload
  BY <1>1, NoRows DEF StartDownload, NewRows, CountersReset, DownloadTypeOK, MetaRow
<1>2. CASE SkipExisting
  BY <1>2, <1>c, SettleTypes DEF SkipExisting, DownloadTypeOK
<1>3. CASE Request
  BY <1>3 DEF Request, DownloadTypeOK, counters
<1>4. CASE CurlReceives
  BY <1>4, <1>c DEF CurlReceives, DownloadTypeOK, counters, Bodies
<1>5. CASE CurlEnds
  <2>1. PICK answer \in {<<"200", "complete">>, <<"200", "empty">>,
                         <<"other", "partial">>, <<"other", pdf[CurId]>>} :
            http' = answer[1] /\ pdf' = [pdf EXCEPT ![CurId] = answer[2]]
    BY <1>5 DEF CurlEnds
  <2>2. answer[1] \in {"200", "other"} /\ answer[2] \in Bodies
    BY <1>c DEF Bodies
  <2>3. at' = "check" /\ UNCHANGED <<run, entry, attempt, meta, ok, skip, fail, had>>
    BY <1>5 DEF CurlEnds, counters
  <2>4. pdf' \in [Ids -> Bodies] /\ http' \in {"none", "200", "other"}
    BY <1>c, <2>1, <2>2 DEF DownloadTypeOK
  <2> QED BY <2>3, <2>4 DEF DownloadTypeOK
<1>6. CASE Accept
  <2>1. meta' \in Seq(MetaRow)
    BY <1>6, AppendRow DEF Accept, DownloadTypeOK
  <2> QED BY <1>6, <1>c, <2>1, SettleTypes DEF Accept, DownloadTypeOK, MetaRow
<1>7. CASE Retry
  <2>1. attempt' \in 0..RETRY
    BY <1>7 DEF Retry, AttemptsLeft, NextAttempt, DownloadTypeOK
  <2> QED BY <1>7, <1>c, <2>1 DEF Retry, DownloadTypeOK, counters, Bodies
<1>8. CASE GiveUp
  <2>1. meta' \in Seq(MetaRow)
    BY <1>8, AppendRow DEF GiveUp, DownloadTypeOK
  <2>2. pdf' \in [Ids -> Bodies]
    BY <1>8, <1>c DEF GiveUp, DownloadTypeOK, Bodies
  <2> QED BY <1>8, <2>1, <2>2, SettleTypes DEF GiveUp, DownloadTypeOK, MetaRow, Bodies
<1>9. CASE Kill
  BY <1>9 DEF Kill, DownloadTypeOK, counters
<1>10. CASE UNCHANGED downloadVars
  BY <1>10 DEF downloadVars, DownloadTypeOK
<1> QED BY <1>1, <1>2, <1>3, <1>4, <1>5, <1>6, <1>7, <1>8, <1>9, <1>10 DEF DownloadNext, DownloadStep

(* The script's variables and files keep their types, whatever list it is   *)
(* given and however often it is killed and started (lines 13-100).         *)
THEOREM DownloadTyping == DownloadSpec => []DownloadTypeOK
BY InitTypes, DownloadTypes, PTL DEF DownloadSpec

----------------------------------------------------------------------------
(* The rows stand for entries the run has passed, so that what happens to   *)
(* the file of the current entry does not touch them; and a 200 is only     *)
(* printed of a body that has all arrived.                                  *)
Passed == \A k \in DOMAIN meta : \E j \in DOMAIN PAPERS :
              meta[k].id = Id(PAPERS[j]) /\ (j < entry \/ at = "done")
TrueCode == at = "check" /\ http = "200" => pdf[CurId] \in {"complete", "empty"}
RowsInv == DownloadTypeOK /\ Passed /\ TrueCode /\ RowsMatchFiles

(* A row speaks of another file than the one the run is working on.         *)
LEMMA RowsElsewhere ==
    ASSUME RowsInv, at # "done", NEW k \in DOMAIN meta
    PROVE  meta[k].id \in Ids /\ meta[k].id # CurId
BY DEF RowsInv, Passed, DownloadTypeOK, CurId, Ids

LEMMA SettlePasses ==
    ASSUME DownloadTypeOK, NEW s, NEW b, Settle(s, b),
           NEW j \in DOMAIN PAPERS, j <= entry
    PROVE  j < entry' \/ at' = "done"
BY DEF Settle, DownloadTypeOK

LEMMA AppendKeeps ==
    ASSUME RowsInv, at = "check", NEW failed \in BOOLEAN,
           meta' = Append(meta, Row(CurId, failed)),
           NEW s, NEW b, Settle(s, b),
           pdf' = [pdf EXCEPT ![CurId] = IF failed THEN "absent" ELSE "complete"]
    PROVE  Passed' /\ RowsMatchFiles'
<1>1. /\ entry \in DOMAIN PAPERS /\ CurId \in Ids /\ CurId = Id(PAPERS[entry])
      /\ DOMAIN meta = 1..Len(meta) /\ Len(meta) \in Nat
  BY CurIdType DEF RowsInv, DownloadTypeOK, CurId
<1>2. Row(CurId, failed).id = CurId /\ Row(CurId, failed).failed = failed
  BY DEF Row
<1>3. /\ DOMAIN meta' = 1 .. Len(meta) + 1
      /\ meta'[Len(meta) + 1] = Row(CurId, failed)
      /\ \A k \in DOMAIN meta : meta'[k] = meta[k]
  <2>1. meta \in Seq(MetaRow) /\ Row(CurId, failed) \in MetaRow
    BY <1>1 DEF RowsInv, DownloadTypeOK, MetaRow, Row
  <2> QED BY <1>1, <2>1, AppendProperties
<1>4. ASSUME NEW k \in DOMAIN meta'
      PROVE  /\ \E j \in DOMAIN PAPERS : meta'[k].id = Id(PAPERS[j]) /\ (j < entry' \/ at' = "done")
             /\ pdf'[meta'[k].id] = IF meta'[k].failed THEN "absent" ELSE "complete"
  <2>1. CASE k = Len(meta) + 1
    BY <1>1, <1>2, <1>3, <2>1, SettlePasses DEF RowsInv, DownloadTypeOK
  <2>2. CASE k # Len(meta) + 1
    <3>1. k \in DOMAIN meta /\ meta'[k] = meta[k]
      BY <1>1, <1>3, <2>2
    <3>2. meta[k].id \in Ids /\ meta[k].id # CurId
      BY <3>1, RowsElsewhere
    <3>3. pdf'[meta[k].id] = pdf[meta[k].id]
      BY <3>2 DEF RowsInv, DownloadTypeOK
    <3>4. PICK j \in DOMAIN PAPERS : meta[k].id = Id(PAPERS[j]) /\ j < entry
      BY <3>1 DEF RowsInv, Passed
    <3>5. j < entry' \/ at' = "done"
      BY <3>4, SettlePasses DEF RowsInv, DownloadTypeOK
    <3> QED BY <3>1, <3>3, <3>4, <3>5 DEF RowsInv, RowsMatchFiles
  <2> QED BY <2>1, <2>2
<1> QED BY <1>4 DEF Passed, RowsMatchFiles

(* A step that logs nothing, keeps every file but the current one, and goes *)
(* on with this entry or a later one.                                       *)
LEMMA QuietRowsKeep ==
    ASSUME RowsInv, UNCHANGED meta, at # "done",
           \A n \in Ids \ {CurId} : pdf'[n] = pdf[n],
           \A j \in DOMAIN PAPERS : j < entry => j < entry' \/ at' = "done"
    PROVE  Passed' /\ RowsMatchFiles'
BY RowsElsewhere DEF RowsInv, Passed, RowsMatchFiles

LEMMA RowsInductive == RowsInv /\ [DownloadNext]_downloadVars => RowsInv'
<1> SUFFICES ASSUME RowsInv, [DownloadNext]_downloadVars PROVE RowsInv'
  OBVIOUS
<1>t. DownloadTypeOK /\ DownloadTypeOK'
  BY DownloadTypes DEF RowsInv
<1>c. CurId \in Ids /\ pdf[CurId] \in Bodies
  BY <1>t, CurIdType DEF DownloadTypeOK
<1>1. CASE StartDownload
  BY <1>1, <1>t DEF StartDownload, NewRows, RowsInv, Passed, TrueCode, RowsMatchFiles
<1>2. CASE SkipExisting
  <2>1. \A j \in DOMAIN PAPERS : j < entry => j < entry' \/ at' = "done"
    BY <1>2, <1>t DEF SkipExisting, Settle, DownloadTypeOK
  <2>2. at # "done" /\ UNCHANGED <<pdf, meta>>
    BY <1>2 DEF SkipExisting
  <2>3. Passed' /\ RowsMatchFiles'
    BY <2>1, <2>2, QuietRowsKeep
  <2> QED BY <1>2, <1>t, <2>3 DEF SkipExisting, Settle, RowsInv, TrueCode
<1>3. CASE Request
  BY <1>3, <1>t, QuietRowsKeep DEF Request, RowsInv, TrueCode
<1>4. CASE CurlReceives
  BY <1>4, <1>t, <1>c, QuietRowsKeep DEF CurlReceives, RowsInv, TrueCode, DownloadTypeOK
<1>5. CASE CurlEnds
  <2>1. PICK answer \in {<<"200", "complete">>, <<"200", "empty">>,
                         <<"other", "partial">>, <<"other", pdf[CurId]>>} :
            http' = answer[1] /\ pdf' = [pdf EXCEPT ![CurId] = answer[2]]
    BY <1>5 DEF CurlEnds
  <2>2. CurId' = CurId /\ pdf'[CurId] = answer[2]
    <3>1. entry' = entry
      BY <1>5 DEF CurlEnds
    <3> QED BY <1>c, <1>t, <2>1, <3>1 DEF CurId, DownloadTypeOK
  <2>3. Passed' /\ RowsMatchFiles'
    BY <1>5, <1>t, <2>1, QuietRowsKeep DEF CurlEnds, DownloadTypeOK
  <2> QED BY <1>t, <2>1, <2>2, <2>3 DEF RowsInv, TrueCode
<1>6. CASE Accept
  <2>1. pdf[CurId] = "complete"
    BY <1>6 DEF Accept, Accepted, NonEmpty, RowsInv, TrueCode
  <2>2. pdf' = [pdf EXCEPT ![CurId] = "complete"]
    BY <1>6, <1>t, <1>c, <2>1 DEF Accept, DownloadTypeOK
  <2>3. Passed' /\ RowsMatchFiles'
    BY <1>6, <2>2, AppendKeeps DEF Accept
  <2> QED BY <1>6, <1>t, <2>3 DEF Accept, Settle, RowsInv, TrueCode
<1>7. CASE Retry
  BY <1>7, <1>t, <1>c, QuietRowsKeep DEF Retry, RowsInv, TrueCode, DownloadTypeOK
<1>8. CASE GiveUp
  <2>1. Passed' /\ RowsMatchFiles'
    BY <1>8, AppendKeeps DEF GiveUp
  <2> QED BY <1>8, <1>t, <2>1 DEF GiveUp, Settle, RowsInv, TrueCode
<1>9. CASE Kill
  BY <1>9, <1>t, QuietRowsKeep DEF Kill, RowsInv, TrueCode
<1>10. CASE UNCHANGED downloadVars
  BY <1>10, <1>t DEF downloadVars, RowsInv, Passed, TrueCode, RowsMatchFiles, CurId
<1> QED BY <1>1, <1>2, <1>3, <1>4, <1>5, <1>6, <1>7, <1>8, <1>9, <1>10 DEF DownloadNext, DownloadStep

(* Whatever was killed before, a row of metadata.tsv without FAILED stands  *)
(* beside a whole file and a FAILED row beside none (lines 55-77).          *)
THEOREM RowsTruthful == DownloadSpec => []RowsMatchFiles
<1>1. DownloadInit => RowsInv
  BY InitTypes DEF DownloadInit, RowsInv, Passed, TrueCode, RowsMatchFiles
<1>2. RowsInv => RowsMatchFiles
  BY DEF RowsInv
<1> QED BY <1>1, <1>2, RowsInductive, PTL DEF DownloadSpec

----------------------------------------------------------------------------
(* Where a request can touch the file: it is asked for only while it is not *)
(* whole, and a whole file is met after curl only with code 200.            *)
AskedWhenMissing ==
    /\ at = "curl" => pdf[CurId] # "complete"
    /\ at = "check" /\ pdf[CurId] = "complete" => http = "200"
StayInv == DownloadTypeOK /\ AskedWhenMissing

LEMMA StayStep ==
    ASSUME StayInv, [DownloadNext]_downloadVars
    PROVE  AskedWhenMissing' /\ \A n \in Ids : pdf[n] = "complete" => pdf'[n] = "complete"
<1>t. DownloadTypeOK /\ AskedWhenMissing
  BY DEF StayInv
<1>c. CurId \in Ids /\ pdf[CurId] \in Bodies /\ pdf \in [Ids -> Bodies]
  BY <1>t, CurIdType DEF DownloadTypeOK
<1>1. CASE StartDownload
  BY <1>1 DEF StartDownload, AskedWhenMissing
<1>2. CASE SkipExisting
  BY <1>2 DEF SkipExisting, Settle, AskedWhenMissing
<1>3. CASE Request
  BY <1>3 DEF Request, Missing, NonEmpty, AskedWhenMissing, CurId
<1>4. CASE CurlReceives
  BY <1>4, <1>t, <1>c DEF CurlReceives, AskedWhenMissing, CurId
<1>5. CASE CurlEnds
  <2>1. PICK answer \in {<<"200", "complete">>, <<"200", "empty">>,
                         <<"other", "partial">>, <<"other", pdf[CurId]>>} :
            http' = answer[1] /\ pdf' = [pdf EXCEPT ![CurId] = answer[2]]
    BY <1>5 DEF CurlEnds
  <2>2. pdf[CurId] # "complete" /\ at' = "check" /\ entry' = entry
    BY <1>5, <1>t DEF CurlEnds, AskedWhenMissing
  <2>3. CurId' = CurId
    BY <2>2 DEF CurId
  <2>4. answer[2] = "complete" => answer[1] = "200"
    BY <2>1, <2>2
  <2> QED BY <1>c, <2>1, <2>2, <2>3, <2>4 DEF AskedWhenMissing
<1>6. CASE Accept
  BY <1>6 DEF Accept, Settle, AskedWhenMissing
<1>7. CASE Retry
  <2>1. pdf[CurId] # "complete"
    BY <1>7, <1>t DEF Retry, Accepted, NonEmpty, AskedWhenMissing
  <2> QED BY <1>7, <1>c, <2>1 DEF Retry, AskedWhenMissing, CurId
<1>8. CASE GiveUp
  <2>1. pdf[CurId] # "complete"
    BY <1>8, <1>t DEF GiveUp, Accepted, NonEmpty, AskedWhenMissing
  <2> QED BY <1>8, <1>c, <2>1 DEF GiveUp, Settle, AskedWhenMissing
<1>9. CASE Kill
  BY <1>9 DEF Kill, AskedWhenMissing
<1>10. CASE UNCHANGED downloadVars
  BY <1>10, <1>t DEF downloadVars, AskedWhenMissing, CurId
<1> QED BY <1>1, <1>2, <1>3, <1>4, <1>5, <1>6, <1>7, <1>8, <1>9, <1>10 DEF DownloadNext, DownloadStep

(* No run damages a paper that was already fetched whole: not a later run,  *)
(* not a retry, not a kill (lines 55-58, 70).                               *)
THEOREM PapersStay == DownloadSpec => WholePapersStay
<1>1. DownloadInit => StayInv
  BY InitTypes DEF DownloadInit, StayInv, AskedWhenMissing
<1>2. StayInv /\ [DownloadNext]_downloadVars => StayInv'
  BY StayStep, DownloadTypes DEF StayInv
<1>3. StayInv /\ [DownloadNext]_downloadVars => [\A n \in Ids : pdf[n] = "complete" => pdf'[n] = "complete"]_downloadVars
  BY StayStep
<1> QED BY <1>1, <1>2, <1>3, PTL DEF DownloadSpec, WholePapersStay
=============================================================================
