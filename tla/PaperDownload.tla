--------------------------- MODULE PaperDownload ---------------------------
(***************************************************************************)
(* download_papers.sh: a sequential shell script that fetches a list of    *)
(* PDF files with curl, skips the files it already has, retries a failed   *)
(* request, and logs one metadata row per paper it requested.  The script  *)
(* may be killed at any step and started again; the files stay.            *)
(***************************************************************************)
EXTENDS Naturals, FiniteSets, Sequences, SequencesExt

CONSTANTS PAPERS,      \* the list of entries, each a sequence of tokens
          TAB,         \* the token that is a tab character
          RETRY,       \* requests per paper
          MaxRuns      \* bound: how often the script is started

(* ${entry%%TAB*}: what stands before the first tab, or the whole entry     *)
(* when it holds none.                                                      *)
FirstTab(e) == SelectInSeq(e, LAMBDA x : x = TAB)
Id(e) == IF TAB \in ToSet(e) THEN SubSeq(e, 1, FirstTab(e) - 1) ELSE e

Ids == {Id(PAPERS[k]) : k \in DOMAIN PAPERS}

ASSUME PaperDownloadAssumption ==
    /\ PAPERS # <<>> /\ Len(PAPERS) \in Nat /\ DOMAIN PAPERS = 1..Len(PAPERS)
    /\ \A j, k \in DOMAIN PAPERS : Id(PAPERS[j]) = Id(PAPERS[k]) => j = k
    /\ RETRY \in Nat \ {0}
    /\ MaxRuns \in Nat

VARIABLES at,       \* where the script is
          run,      \* how often it was started
          entry,    \* position in PAPERS
          attempt,  \* requests made for this entry
          http,     \* what curl -w printed: "200" or anything else
          pdf,      \* papers/<id>.pdf on disk
          meta,     \* the rows of metadata.tsv
          ok, skip, fail,
          had       \* history: the files that were there when the run began

downloadVars == <<at, run, entry, attempt, http, pdf, meta, ok, skip, fail, had>>
counters == <<ok, skip, fail>>

Bodies == {"absent", "empty", "partial", "complete"}

(* test -s "$pdf" *)
NonEmpty(body) == body \in {"partial", "complete"}

CurId == Id(PAPERS[entry])

Row(n, failed) == [id |-> n, failed |-> failed]

----------------------------------------------------------------------------
DownloadInit ==
    /\ at = "stopped" /\ run = 0 /\ entry = 1 /\ attempt = 0 /\ http = "none"
    /\ pdf = [n \in Ids |-> "absent"]
    /\ meta = <<>>
    /\ ok = 0 /\ skip = 0 /\ fail = 0
    /\ had = {}

(* A run begins by truncating metadata.tsv to its header line, and counts   *)
(* from zero.                                                               *)
NewRows == <<>>
CountersReset == ok' = 0 /\ skip' = 0 /\ fail' = 0

StartDownload ==
    /\ at \in {"stopped", "done"}
    /\ run < MaxRuns
    /\ at' = "entry"
    /\ run' = run + 1
    /\ meta' = NewRows
    /\ entry' = 1 /\ attempt' = 0 /\ http' = "none"
    /\ CountersReset
    /\ had' = {n \in Ids : NonEmpty(pdf[n])}
    /\ UNCHANGED pdf

(* fetch_one has returned and the file holds body: count the result and go *)
(* to the next entry.                                                      *)
Settle(success, body) ==
    /\ ok' = IF success /\ NonEmpty(body) THEN ok + 1 ELSE ok
    /\ skip' = IF success /\ ~NonEmpty(body) THEN skip + 1 ELSE skip
    /\ fail' = IF success THEN fail ELSE fail + 1
    /\ attempt' = 0
    /\ http' = "none"
    /\ IF entry < Len(PAPERS)
         THEN at' = "entry" /\ entry' = entry + 1
         ELSE at' = "done" /\ UNCHANGED entry
    /\ UNCHANGED <<run, had>>

(* A file that is already there and not empty is not requested. *)
SkipExisting ==
    /\ at = "entry"
    /\ NonEmpty(pdf[CurId])
    /\ Settle(TRUE, pdf[CurId])
    /\ UNCHANGED <<pdf, meta>>

(* Mutant of Missing: everything is requested again. *)
Always == TRUE

Missing == ~NonEmpty(pdf[CurId])

Request ==
    /\ at = "entry"
    /\ Missing
    /\ at' = "curl"
    /\ attempt' = 1
    /\ UNCHANGED <<run, entry, http, pdf, meta, counters, had>>

(* curl -o writes the body into the final file as it arrives. *)
CurlReceives ==
    /\ at = "curl"
    /\ pdf[CurId] # "partial"
    /\ pdf' = [pdf EXCEPT ![CurId] = "partial"]
    /\ UNCHANGED <<at, run, entry, attempt, http, meta, counters, had>>

(* curl ends.  "200" alone means a whole body; a transfer that broke off or *)
(* hit --max-time prints the code and then 000.                             *)
CurlEnds ==
    /\ at = "curl"
    /\ \E answer \in {<<"200", "complete">>, <<"200", "empty">>,
                      <<"other", "partial">>, <<"other", pdf[CurId]>>} :
         /\ http' = answer[1]
         /\ pdf' = [pdf EXCEPT ![CurId] = answer[2]]
    /\ at' = "check"
    /\ UNCHANGED <<run, entry, attempt, meta, counters, had>>

(* Mutant of Accepted: any body will do. *)
AcceptedBody == NonEmpty(pdf[CurId])

Accepted == http = "200" /\ NonEmpty(pdf[CurId])

Accept ==
    /\ at = "check"
    /\ Accepted
    /\ meta' = Append(meta, Row(CurId, FALSE))
    /\ Settle(TRUE, pdf[CurId])
    /\ UNCHANGED pdf

(* Mutant of the loop: an attempt that is not counted. *)
SameAttempt == attempt

AttemptsLeft == attempt < RETRY
NextAttempt == attempt + 1

Retry ==
    /\ at = "check"
    /\ ~Accepted
    /\ AttemptsLeft
    /\ pdf' = [pdf EXCEPT ![CurId] = "absent"]
    /\ at' = "curl"
    /\ attempt' = NextAttempt
    /\ http' = "none"
    /\ UNCHANGED <<run, entry, meta, counters, had>>

GiveUp ==
    /\ at = "check"
    /\ ~Accepted
    /\ ~AttemptsLeft
    /\ pdf' = [pdf EXCEPT ![CurId] = "absent"]
    /\ meta' = Append(meta, Row(CurId, TRUE))
    /\ Settle(FALSE, "absent")

(* The script is killed: what is on disk stays. *)
Kill ==
    /\ at \in {"entry", "curl", "check"}
    /\ at' = "stopped"
    /\ UNCHANGED <<run, entry, attempt, http, pdf, meta, counters, had>>

DownloadStep == SkipExisting \/ Request \/ CurlReceives \/ CurlEnds \/ Accept \/ Retry \/ GiveUp

DownloadNext == StartDownload \/ DownloadStep \/ Kill

(* The shell goes on, and curl ends: --max-time bounds each request.        *)
DownloadFairness == WF_downloadVars(SkipExisting \/ Request \/ CurlEnds \/ Accept \/ Retry \/ GiveUp)

DownloadSpec == DownloadInit /\ [][DownloadNext]_downloadVars /\ DownloadFairness

----------------------------------------------------------------------------
DownloadTypeOK ==
    /\ at \in {"stopped", "entry", "curl", "check", "done"}
    /\ run \in 0..MaxRuns
    /\ entry \in DOMAIN PAPERS
    /\ attempt \in 0..RETRY
    /\ http \in {"none", "200", "other"}
    /\ pdf \in [Ids -> Bodies]
    /\ meta \in Seq([id : Ids, failed : BOOLEAN])
    /\ ok \in Nat /\ skip \in Nat /\ fail \in Nat
    /\ had \subseteq Ids

(* A row of metadata.tsv tells the truth about the disk, whatever was       *)
(* killed before: a row without FAILED stands beside a whole file, a FAILED *)
(* row beside none (lines 63-77).                                           *)
RowsMatchFiles ==
    \A k \in DOMAIN meta :
        pdf[meta[k].id] = IF meta[k].failed THEN "absent" ELSE "complete"

(* What a finished run logged: exactly the papers it did not find on disk,  *)
(* each once (lines 55-78).                                                 *)
RowsAreTheRequested ==
    /\ IsInjective(meta)
    /\ at = "done" => {meta[k].id : k \in DOMAIN meta} = Ids \ had

(* The counters of a finished run add up to the list, and the failures are  *)
(* the FAILED rows (lines 85-97).                                           *)
CountersAddUp ==
    at = "done" =>
        /\ ok + skip + fail = Len(PAPERS)
        /\ fail = Cardinality({k \in DOMAIN meta : meta[k].failed})

(* A file that is there when a run looks at it is never requested again, so *)
(* no step damages a whole paper (lines 55-58, 70).                         *)
WholePapersStay ==
    [][\A n \in Ids : pdf[n] = "complete" => pdf'[n] = "complete"]_downloadVars

(* A run that is not killed comes to its summary.                           *)
RunEnds == at = "entry" ~> at \in {"stopped", "done"}

----------------------------------------------------------------------------
(* What the script says of itself and does not do. *)

(* Line 5: the files are papers/<arxiv_id>.pdf, an identifier being the     *)
(* first token of the entry.                                                *)
FilesAreNamedByArxivId ==
    \A n \in Ids : pdf[n] # "absent" => \E k \in DOMAIN PAPERS : n = <<PAPERS[k][1]>>

(* Lines 56 and 103: the summary counts as SKIP what was reported as SKIP.  *)
SkipsAreCounted == at = "done" => skip = Cardinality(had)
=============================================================================
