--------------------------- MODULE CompanyReport ---------------------------
(***************************************************************************)
(* The scripts that turn the records of fetch_companies.py into a report,  *)
(* started by hand and possibly while fetch processes still run:           *)
(*   build_digests.py   merges all records into summaries.json and writes  *)
(*                      digests.json;                                      *)
(*   build_scaffold.py  writes report.html with an overview, an appendix   *)
(*                      and two markers;                                   *)
(*   assemble.py        replaces the markers by hand-written fragments.    *)
(***************************************************************************)
EXTENDS CompanyFetch

CONSTANTS NonStartup,   \* NON_STARTUP
          SAMPLE,       \* the company whose digest is printed at the end
          MaxJobs, MaxFragments   \* bounds

ASSUME CompanyReportAssumption ==
    /\ NonStartup \subseteq Companies
    /\ MaxJobs \in Nat /\ MaxFragments \in Nat

VARIABLES
    digests,    \* digests.json
    report,     \* report.html
    fragments,  \* versions of profiles*.html and of nonstartup*.html, 0: missing
    job, jpc,   \* the script that runs, and where it is
    jtodo, jrecs, jtext,
    ended,      \* the last script that ran to its end
    jobs,
    settled     \* history: nothing it reads has changed since build_digests.py began

files == <<digests, report, fragments>>
jlocals == <<job, jpc, jtodo, jrecs, jtext>>
reportVars == <<digests, report, fragments, job, jpc, jtodo, jrecs, jtext, ended, jobs, settled>>
allVars == <<vars, reportVars>>

(* A digest keeps the category, whether snippets and a page were found, and *)
(* at most two errors.                                                      *)
DigestOf(c, r) ==
    [category |-> IF c \in NonStartup THEN "non_startup" ELSE "startup",
     found |-> \E k \in Queries : r.search[k] = "found",
     page |-> r.pages > 0,
     errors |-> IF r.errors < 2 THEN r.errors ELSE 2]
NoDigest == [category |-> "none", found |-> FALSE, page |-> FALSE, errors |-> 0]
Digest == [category : {"startup", "non_startup", "none"}, found : BOOLEAN,
           page : BOOLEAN, errors : 0..2]

Digests(recs) ==
    [c \in Companies |-> IF c \in Holds(recs) THEN DigestOf(c, recs[c].rec) ELSE NoDigest]
Digested(d) == {c \in Companies : d[c] # NoDigest}

(* report.html in its order: the overview, two places that hold a marker, a *)
(* version of the fragments or neither, the appendix, and the closing tags. *)
Halves == {"profiles", "non"}
Gone == [kind |-> "gone", ver |-> 0]
Marker == [kind |-> "marker", ver |-> 0]
Slot == {Gone, Marker} \cup [kind : {"fragments"}, ver : Nat \ {0}]
Text == [overview : SUBSET Companies, appendix : SUBSET Companies, profiles : Slot, non : Slot,
         end : BOOLEAN]
NoText == [overview |-> {}, appendix |-> {}, profiles |-> Gone, non |-> Gone, end |-> FALSE]

(* The first n parts of a text; a part that is cut itself counts as gone.   *)
Cut(text, n) ==
    [overview |-> IF n > 0 THEN text.overview ELSE {},
     profiles |-> IF n > 1 THEN text.profiles ELSE Gone,
     non      |-> IF n > 2 THEN text.non ELSE Gone,
     appendix |-> IF n > 3 THEN text.appendix ELSE {},
     end      |-> FALSE]

ReportInit ==
    /\ digests = [state |-> "none", of |-> Digests(Nothing)]
    /\ report = [state |-> "none", text |-> NoText]
    /\ fragments = [h \in Halves |-> 0]
    /\ job = "none" /\ jpc = "idle" /\ jtodo = {} /\ jrecs = Nothing /\ jtext = NoText
    /\ ended = "none" /\ jobs = 0 /\ settled = FALSE

(* Someone writes or rewrites the fragments of one half. *)
WriteFragments(h) ==
    /\ fragments[h] < MaxFragments
    /\ fragments' = [fragments EXCEPT ![h] = @ + 1]
    /\ settled' = FALSE
    /\ UNCHANGED <<digests, report, jlocals, ended, jobs>>

----------------------------------------------------------------------------
Begin(script, first) ==
    /\ jpc = "idle"
    /\ jobs < MaxJobs
    /\ job' = script /\ jpc' = first
    /\ jobs' = jobs + 1
    /\ ended' = "none"
    /\ settled' = (script = "digests")
    /\ UNCHANGED <<files, jrecs, jtext>>

End(script) ==
    /\ job' = "none" /\ jpc' = "idle" /\ jtodo' = {} /\ jrecs' = Nothing /\ jtext' = NoText
    /\ ended' = script

Goto(step) == jpc' = step /\ UNCHANGED <<job, ended, jobs, settled>>

(* Mutants of the merge: only what is not yet in the summary is merged; the *)
(* loop does not move on.                                                   *)
NotYetMerged == {c \in Companies : file[c].state # "none" /\ summaries.recs[c] = None}
RestSame(c) == jtodo

RecordFiles == {c \in Companies : file[c].state # "none"}
Rest(c) == jtodo \ {c}

(* build_digests.py.  The list of files is made first; a file that is not   *)
(* whole JSON ends the script.                                              *)
BeginDigests ==
    /\ Begin("digests", "merge")
    /\ jtodo' = RecordFiles
    /\ UNCHANGED vars

Merge ==
    /\ jpc = "merge" /\ jtodo # {}
    /\ LET c == Least(jtodo) IN
         IF file[c].state = "whole"
           THEN /\ jrecs' = [jrecs EXCEPT ![c] = file[c]]
                /\ jtodo' = Rest(c)
                /\ UNCHANGED <<job, jpc, jtext, ended>>
           ELSE End("none")
    /\ UNCHANGED <<vars, files, jobs, settled>>

TruncateSummary ==
    /\ jpc = "merge" /\ jtodo = {}
    /\ summaries' = [state |-> "torn", recs |-> Nothing]
    /\ Goto("summary")
    /\ UNCHANGED <<file, raw, redone, log, control, work, bounds, files, jtodo, jrecs, jtext>>

WriteSummary ==
    /\ jpc = "summary"
    /\ summaries' = [state |-> "whole", recs |-> jrecs]
    /\ Goto("digest")
    /\ UNCHANGED <<file, raw, redone, log, control, work, bounds, files, jtodo, jrecs, jtext>>

TruncateDigests ==
    /\ jpc = "digest"
    /\ digests' = [state |-> "torn", of |-> Digests(Nothing)]
    /\ Goto("writeDigests")
    /\ UNCHANGED <<vars, report, fragments, jtodo, jrecs, jtext>>

(* The script ends with a KeyError when the sample was not merged, but only *)
(* after both files are written.                                            *)
WriteDigests ==
    /\ jpc = "writeDigests"
    /\ digests' = [state |-> "whole", of |-> Digests(jrecs)]
    /\ End(IF SAMPLE \in Holds(jrecs) THEN "digests" ELSE "none")
    /\ UNCHANGED <<vars, report, fragments, jobs, settled>>

(* build_scaffold.py.  Between its two reads only summaries.json can change. *)
BeginScaffold ==
    /\ Begin("scaffold", "tables")
    /\ UNCHANGED <<vars, jtodo>>

MakeTables ==
    /\ jpc = "tables"
    /\ IF digests.state = "whole" /\ summaries.state = "whole"
         THEN /\ jtext' = [overview |-> Digested(digests.of), appendix |-> Holds(summaries.recs),
                           profiles |-> Marker, non |-> Marker, end |-> TRUE]
              /\ Goto("truncateReport")
              /\ UNCHANGED <<jtodo, jrecs>>
         ELSE End("none") /\ UNCHANGED <<jobs, settled>>
    /\ UNCHANGED <<vars, files>>

(* assemble.py: the markers that are there are replaced.  An empty report,  *)
(* or a part of one, is a text like any other, unless it ends inside a      *)
(* character.                                                               *)
BeginAssemble ==
    /\ Begin("assemble", "profiles")
    /\ UNCHANGED <<vars, jtodo>>

Readable(h) == fragments[h] > 0

(* Mutant of Filled: the second marker is forgotten. *)
Fragments(h) == [kind |-> "fragments", ver |-> fragments[h]]
FilledFirst(h, slot) == IF slot = Marker /\ h = "profiles" THEN Fragments(h) ELSE slot

Filled(h, slot) == IF slot = Marker THEN Fragments(h) ELSE slot

(* The report and the profiles are read first ... *)
InjectProfiles ==
    /\ jpc = "profiles"
    /\ IF report.state \in {"torn", "whole"} /\ Readable("profiles")
         THEN /\ jtext' = [report.text EXCEPT !.profiles = Filled("profiles", @)]
              /\ Goto("non")
              /\ UNCHANGED <<jtodo, jrecs>>
         ELSE End("none") /\ UNCHANGED <<jobs, settled>>
    /\ UNCHANGED <<vars, files>>

(* ... and then the fragments of the other half. *)
InjectNonStartup ==
    /\ jpc = "non"
    /\ IF Readable("non")
         THEN /\ jtext' = [jtext EXCEPT !.non = Filled("non", @)]
              /\ Goto("truncateReport")
              /\ UNCHANGED <<jtodo, jrecs>>
         ELSE End("none") /\ UNCHANGED <<jobs, settled>>
    /\ UNCHANGED <<vars, files>>

(* Both scripts write report.html in place. *)
TruncateReport ==
    /\ jpc = "truncateReport"
    /\ report' = [state |-> "torn", text |-> NoText]
    /\ Goto("writeReport")
    /\ UNCHANGED <<vars, digests, fragments, jtodo, jrecs, jtext>>

WriteReport ==
    /\ jpc = "writeReport"
    /\ report' = [state |-> "whole", text |-> jtext]
    /\ End(job)
    /\ UNCHANGED <<vars, digests, fragments, jobs, settled>>

(* The text goes out in pieces: a script that is killed in the write leaves *)
(* some of them.  They may end inside a character: then nobody can read the *)
(* file, and what it holds is left out.                                     *)
PartWritten ==
    \/ \E n \in 1..4 : report' = [state |-> "torn", text |-> Cut(jtext, n)]
    \/ report' = [state |-> "split", text |-> NoText]

KillJob ==
    /\ jpc # "idle"
    /\ crashes < MaxCrashes
    /\ crashes' = crashes + 1
    /\ UNCHANGED report \/ (jpc = "writeReport" /\ PartWritten)
    /\ End("none")
    /\ UNCHANGED <<disk, control, work, starts, digests, fragments, jobs, settled>>

----------------------------------------------------------------------------
FetchPart ==
    /\ FetchNext
    /\ settled' = (settled /\ UNCHANGED <<file, summaries>>)
    /\ UNCHANGED <<files, jlocals, ended, jobs>>

JobStep ==
    \/ Merge \/ TruncateSummary \/ WriteSummary \/ TruncateDigests \/ WriteDigests
    \/ MakeTables \/ InjectProfiles \/ InjectNonStartup
    \/ TruncateReport \/ WriteReport

ReportNext ==
    \/ FetchPart
    \/ (\E h \in Halves : WriteFragments(h)) /\ UNCHANGED vars
    \/ BeginDigests \/ BeginScaffold \/ BeginAssemble
    \/ JobStep
    \/ KillJob

ReportSpec == Init /\ ReportInit /\ [][ReportNext]_allVars /\ WF_allVars(JobStep)

----------------------------------------------------------------------------
ReportTypeOK ==
    /\ digests.state \in {"none", "torn", "whole"}
    /\ digests.of \in [Companies -> Digest]
    /\ report.state \in {"none", "torn", "split", "whole"} /\ report.text \in Text
    /\ fragments \in [Halves -> Nat]
    /\ job \in {"none", "digests", "scaffold", "assemble"}
    /\ jpc \in {"idle", "merge", "summary", "digest", "writeDigests", "tables", "profiles",
                "non", "truncateReport", "writeReport"}
    /\ jtodo \subseteq Companies
    /\ jrecs \in [Companies -> File]
    /\ jtext \in Text
    /\ ended \in {"none", "digests", "scaffold", "assemble"}
    /\ settled \in BOOLEAN

(* build_digests repairs summaries.json: unless a fetch process writes       *)
(* meanwhile, every record is in it and is digested as it stands on disk,    *)
(* whatever subset was there before (lines 7-20, 36-63).                     *)
MergeIsComplete ==
    ended = "digests" /\ settled =>
        /\ Holds(summaries.recs) = Holds(file)
        /\ \A c \in Holds(file) : summaries.recs[c] = file[c]
        /\ digests.of = Digests(file)

(* A report that has its closing tags never has one half filled in and the   *)
(* other still missing, at whatever point fragments appear or are rewritten, *)
(* a script is killed, or build_scaffold.py or assemble.py runs again, over  *)
(* a report that was cut too (assemble.py lines 5-18).                       *)
HalvesFillTogether ==
    report.text.end => /\ report.text.profiles.kind = report.text.non.kind
                       /\ report.text.profiles # Gone

(* A script that is not killed ends, whatever it finds on disk.              *)
JobsEnd == jpc # "idle" ~> jpc = "idle"
=============================================================================
