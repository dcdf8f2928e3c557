----------------------------- MODULE SiteBuild -----------------------------
(***************************************************************************)
(* build_site.py: the program that rebuilds the static site in place.      *)
(*                                                                         *)
(* It reads the hand-written posts (posts/*.md), generates the sections of *)
(* index.html, posts.html and tags.html, and writes one HTML page per      *)
(* post.  The three site pages are their own templates: a build reads the  *)
(* page, replaces what stands between each pair of section markers, and    *)
(* writes the page back.  Every write truncates the file first, and a      *)
(* build may be killed at any step, while the author goes on editing.      *)
(***************************************************************************)
EXTENDS Naturals, FiniteSets

CONSTANTS
    Files,        \* names of the files posts/*.md
    Rank,         \* their place in the order of names, the newest the highest
    Slugs,
    Slug,         \* the name without its date: posts/<slug>.html
    Reports,      \* the entries of REPORTS that are cards (p0, p1 or p2)
    Featured,     \* the first p0 reports
    LatestReport, \* the one published last
    RECENT,       \* posts shown in the recent-posts band
    Saved,        \* the kinds of text the author saves
    NoMarker,     \* a section whose markers are not in the file
    NoPage,       \* an HTML page that does not exist
    TornPage,     \* an HTML page that was truncated and not written
    MaxEdits, MaxBuilds, MaxCrashes   \* bounds

ASSUME SiteBuildAssumption ==
    /\ IsFiniteSet(Files)
    /\ Rank \in [Files -> Nat]
    /\ \A f, g \in Files : Rank[f] = Rank[g] => f = g
    /\ Slug \in [Files -> Slugs]
    /\ Featured \subseteq Reports /\ LatestReport \in Reports
    /\ RECENT \in Nat
    /\ Saved \subseteq {"plain", "post", "untagged", "escape", "closer", "multiline"}
    /\ MaxEdits \in Nat /\ MaxBuilds \in Nat /\ MaxCrashes \in Nat

VARIABLES
    src,      \* the source of each post: which version, and what it is like
    onDisk,   \* the reports whose entry file exists
    page,     \* index.html, posts.html, tags.html: the content of each section
    split,    \* those of them whose file ends inside a UTF-8 character
    html,     \* posts/<slug>.html
    pc, at,   \* the builder: its step, and the page it is working on
    todo,     \* the files it has yet to parse or to render
    posts,    \* the posts it parsed
    cards,    \* the reports it makes cards for
    buf,      \* the page text it is about to write
    doc,      \* the post it has rendered and is about to write
    outcome,  \* how the last build ended
    edits, builds, crashes,
    clean     \* history: the sources are those the last build started from

disk == <<page, split, html>>
sources == <<src, onDisk, edits>>
locals == <<at, todo, posts, cards, buf, doc>>
history == <<outcome, builds, crashes, clean>>
vars == <<src, onDisk, page, split, html, pc, at, todo, posts, cards, buf, doc,
          outcome, edits, builds, crashes, clean>>

----------------------------------------------------------------------------
(* Sources and posts.  A post is a source whose front matter parses; it may *)
(* name no tags ("untagged").  Its excerpt may hold what the substitution   *)
(* does not carry over: "escape", a backslash that re.sub rejects in a      *)
(* replacement text; "closer", a bracket and a semicolon, which end the     *)
(* data in the next build's pattern; "multiline", a line break, which       *)
(* json.dumps escapes and re.sub restores.                                  *)
Kinds == {"absent", "plain", "post", "untagged", "escape", "closer", "multiline"}
Source == [ver : Nat, kind : Kinds]
Absent == [ver |-> 0, kind |-> "absent"]
Nothing == [f \in Files |-> Absent]

IsPost(c) == c.kind \in {"post", "untagged", "escape", "closer", "multiline"}
Parsed(c) == IF IsPost(c) THEN c ELSE Absent
Listed(P) == {f \in Files : IsPost(P[f])}
Tagged(P) == {f \in Listed(P) : P[f].kind # "untagged"}

(* Mutant of IsNewest: the files in rising order. *)
IsOldest(f, S) == \A g \in S : Rank[f] <= Rank[g]

(* The files come in falling order of their names. *)
IsNewest(f, S) == \A g \in S : Rank[g] <= Rank[f]

(* posts[:n] *)
Newest(P, n) == {f \in Listed(P) : Cardinality({g \in Listed(P) : Rank[g] > Rank[f]}) < n}
Only(P, S) == [f \in Files |-> IF f \in S THEN P[f] ELSE Absent]

----------------------------------------------------------------------------
(* The sections of the three pages, each with its place in the file. *)
Place == [index |-> [HERO |-> 1, TWO_UP |-> 2, FEATURED_REPORTS |-> 3,
                     PROJECT_CARDS |-> 4, TAG_CLOUD |-> 5, SEARCH_DB |-> 6],
          posts |-> [POSTS_FULL |-> 1, POSTS_DB |-> 2],
          tags  |-> [TAGS_SIDEBAR |-> 1, TAGS_FULL |-> 2]]
PageNames == {"index", "posts", "tags"}
Sections(p) == DOMAIN Place[p]
TagLists == {"TAG_CLOUD", "TAGS_SIDEBAR", "TAGS_FULL"}

(* What the generator of section s shows of the posts P and of the reports, *)
(* C being those found on disk: only the cards look at the disk.  A post is *)
(* counted and listed under its tags, so one without tags is in no tag list.*)
ShownPosts(s, P) ==
    IF s = "HERO" THEN Only(P, Newest(P, 1))
    ELSE IF s = "TWO_UP" THEN Only(P, Newest(P, RECENT))
    ELSE IF s \in {"FEATURED_REPORTS", "PROJECT_CARDS"} THEN Nothing
    ELSE IF s \in TagLists THEN Only(P, Tagged(P))
    ELSE P

ShownReports(s, C) ==
    IF s = "HERO" THEN {LatestReport}
    ELSE IF s = "FEATURED_REPORTS" THEN Featured
    ELSE IF s = "PROJECT_CARDS" THEN C
    ELSE IF s \in {"TWO_UP", "POSTS_FULL", "POSTS_DB"} THEN {}
    ELSE Reports

Gen(s, P, C) ==
    [shown |-> ShownPosts(s, P), reports |-> ShownReports(s, C), rest |-> FALSE]

(* The content of a section; rest: an end of an older text follows it. *)
Cell == [shown : [Files -> Source], reports : SUBSET Reports, rest : BOOLEAN]
PageText(p) == [Sections(p) -> Cell \cup {NoMarker}]

ASSUME MarkerAssumption == NoMarker \notin Cell

(* The sections that are JavaScript arrays, found up to the first "];".     *)
Data == {"SEARCH_DB", "POSTS_DB"}
LeavesRest(s, old) ==
    s \in Data /\ (old.rest \/ \E f \in Files : old.shown[f].kind = "closer")

(* Mutant of Sub: an empty section is written without its markers.         *)
IsEmpty(cell) == cell.shown = Nothing /\ cell.reports = {}
SubWithoutMarkers(s, old, new) == IF old = NoMarker \/ IsEmpty(new) THEN NoMarker ELSE new

(* re.sub: without the markers there is nothing to replace. *)
Sub(s, old, new) ==
    IF old = NoMarker THEN NoMarker ELSE [new EXCEPT !.rest = LeavesRest(s, old)]

(* Mutants of Regenerated: one section, or a whole page, is made from the   *)
(* files as they are now.                                                   *)
ParsedNow == [f \in Files |-> Parsed(src[f])]
RegeneratedSearchNow(p, P, C) ==
    [s \in Sections(p) |->
        Sub(s, page[p][s], Gen(s, IF s = "SEARCH_DB" THEN ParsedNow ELSE P, C))]
RegeneratedNow(p, P, C) ==
    [s \in Sections(p) |-> Sub(s, page[p][s], Gen(s, ParsedNow, C))]

Regenerated(p, P, C) == [s \in Sections(p) |-> Sub(s, page[p][s], Gen(s, P, C))]

Empty(p) == [s \in Sections(p) |-> NoMarker]
Prefix(p, text, n) == [s \in Sections(p) |-> IF Place[p][s] <= n THEN text[s] ELSE NoMarker]

(* The raw excerpts that a page's replacement texts contain. *)
Excerpts(p, P) ==
    IF p = "index" THEN Newest(P, 1) \cup Newest(P, RECENT) ELSE Listed(P)
BadEscape(p, P) == \E f \in Excerpts(p, P) : P[f].kind = "escape"

PostPage == [file : Files, meta : Source, body : Source]

ASSUME PageAssumption == NoPage \notin PostPage /\ TornPage \notin PostPage

----------------------------------------------------------------------------
Init ==
    /\ src = Nothing
    /\ onDisk \in SUBSET Reports
    /\ page = [p \in PageNames |-> [s \in Sections(p) |-> Gen(s, Nothing, onDisk)]]
    /\ split = {}
    /\ html = [g \in Slugs |-> NoPage]
    /\ pc = "idle" /\ at = "index" /\ todo = {} /\ posts = Nothing /\ cards = {}
    /\ buf = Empty("index") /\ doc = NoPage
    /\ outcome = "none"
    /\ edits = 0 /\ builds = 0 /\ crashes = 0
    /\ clean = FALSE

(* The author saves or deletes a post at any time. *)
SavePost(f, kind) ==
    /\ edits < MaxEdits
    /\ src' = [src EXCEPT ![f] = [ver |-> edits + 1, kind |-> kind]]
    /\ edits' = edits + 1
    /\ clean' = FALSE
    /\ UNCHANGED <<onDisk, disk, pc, locals, outcome, builds, crashes>>

DeletePost(f) ==
    /\ edits < MaxEdits
    /\ src[f] # Absent
    /\ src' = [src EXCEPT ![f] = Absent]
    /\ edits' = edits + 1
    /\ clean' = FALSE
    /\ UNCHANGED <<onDisk, disk, pc, locals, outcome, builds, crashes>>

(* sync_reports.sh copies the reports and then calls the build. *)
SyncReports(R) ==
    /\ pc = "idle"
    /\ edits < MaxEdits
    /\ R # onDisk
    /\ onDisk' = R
    /\ edits' = edits + 1
    /\ clean' = FALSE
    /\ UNCHANGED <<src, disk, pc, locals, outcome, builds, crashes>>

----------------------------------------------------------------------------
(* Mutant of Unreadable: a file without front matter is an error. *)
UnreadableOrPlain(f) == src[f].kind \in {"absent", "plain"}

(* open() fails on a file that was deleted after it was listed. *)
Unreadable(f) == src[f] = Absent

(* The builder's process is gone, and its variables with it. *)
Stop(how) ==
    /\ pc' = "idle" /\ at' = "index" /\ todo' = {} /\ posts' = Nothing /\ cards' = {}
    /\ buf' = Empty("index") /\ doc' = NoPage
    /\ outcome' = how

(* An uncaught exception; what was written stays. *)
Abort == Stop("aborted") /\ UNCHANGED <<sources, disk, builds, crashes, clean>>

StartBuild ==
    /\ pc = "idle"
    /\ builds < MaxBuilds
    /\ pc' = "parse"
    /\ todo' = {f \in Files : src[f] # Absent}
    /\ builds' = builds + 1
    /\ outcome' = "none"
    /\ clean' = TRUE
    /\ UNCHANGED <<sources, disk, at, posts, cards, buf, doc, crashes>>

(* One file of the list that glob returned, the newest name first.  One     *)
(* that has been deleted since is an error.                                 *)
ParsePost ==
    /\ pc = "parse"
    /\ \E f \in todo :
         /\ IsNewest(f, todo)
         /\ IF Unreadable(f)
              THEN Abort
              ELSE /\ posts' = [posts EXCEPT ![f] = Parsed(src[f])]
                   /\ todo' = todo \ {f}
                   /\ UNCHANGED <<sources, disk, pc, at, cards, buf, doc, history>>

Generate ==
    /\ pc = "parse"
    /\ todo = {}
    /\ cards' = onDisk
    /\ pc' = "read"
    /\ UNCHANGED <<sources, disk, at, todo, posts, buf, doc, history>>

(* A page that ends inside a character cannot be decoded: what a kill in    *)
(* the middle of a write has left stops every later build here.             *)
ReadPage ==
    /\ pc = "read"
    /\ IF at \in split \/ BadEscape(at, posts)
         THEN Abort
         ELSE /\ buf' = Regenerated(at, posts, cards)
              /\ pc' = "truncate"
              /\ UNCHANGED <<sources, disk, at, todo, posts, cards, doc, history>>

TruncatePage ==
    /\ pc = "truncate"
    /\ page' = [page EXCEPT ![at] = Empty(at)]
    /\ split' = split \ {at}
    /\ pc' = "write"
    /\ UNCHANGED <<sources, html, locals, history>>

(* Some bytes of the text have reached the file; the last ones may be the   *)
(* beginning of a character only.                                           *)
FlushPage ==
    /\ pc = "write"
    /\ \E n \in 1..Cardinality(Sections(at)) :
          /\ \A s \in Sections(at) : page[at][s] # NoMarker => Place[at][s] <= n
          /\ page' = [page EXCEPT ![at] = Prefix(at, buf, n)]
    /\ split' \in {split \ {at}, split \cup {at}}
    /\ UNCHANGED <<sources, html, pc, locals, history>>

(* Mutant of ToRender: pages for the recent posts only. *)
RecentOnly == Newest(posts, RECENT)

(* Every post of the parse gets its page. *)
ToRender == Listed(posts)

NextPage == [index |-> "posts", posts |-> "tags", tags |-> "index"]

WritePage ==
    /\ pc = "write"
    /\ page' = [page EXCEPT ![at] = buf]
    /\ split' = split \ {at}
    /\ at' = NextPage[at]
    /\ buf' = Empty(NextPage[at])
    /\ IF at = "tags"
         THEN pc' = "post" /\ todo' = ToRender
         ELSE pc' = "read" /\ UNCHANGED todo
    /\ UNCHANGED <<sources, html, posts, cards, doc, history>>

(* The page of a post takes its title and tags from the parse and reads the *)
(* file a second time for its body.                                         *)
RenderPost ==
    /\ pc = "post"
    /\ \E f \in todo :
         /\ IsNewest(f, todo)
         /\ IF Unreadable(f)
              THEN Abort
              ELSE /\ doc' = [file |-> f, meta |-> posts[f], body |-> src[f]]
                   /\ pc' = "postTruncate"
                   /\ UNCHANGED <<sources, disk, at, todo, posts, cards, buf, history>>

TruncatePostPage ==
    /\ pc = "postTruncate"
    /\ html' = [html EXCEPT ![Slug[doc.file]] = TornPage]
    /\ pc' = "postWrite"
    /\ UNCHANGED <<sources, page, split, locals, history>>

WritePostPage ==
    /\ pc = "postWrite"
    /\ html' = [html EXCEPT ![Slug[doc.file]] = doc]
    /\ todo' = todo \ {doc.file}
    /\ doc' = NoPage
    /\ pc' = "post"
    /\ UNCHANGED <<sources, page, split, at, posts, cards, buf, history>>

(* The build ends with restyle_reports.py, whose main returns at once. *)
RestyleReports ==
    /\ pc = "post"
    /\ todo = {}
    /\ Stop("ok")
    /\ UNCHANGED <<sources, disk, builds, crashes, clean>>

Crash ==
    /\ pc # "idle"
    /\ crashes < MaxCrashes
    /\ crashes' = crashes + 1
    /\ Stop("crashed")
    /\ UNCHANGED <<sources, disk, builds, clean>>

----------------------------------------------------------------------------
Author ==
    \/ \E f \in Files, kind \in Saved : SavePost(f, kind)
    \/ \E f \in Files : DeletePost(f)
    \/ \E R \in SUBSET Reports : SyncReports(R)

BuildStep ==
    \/ ParsePost \/ Generate
    \/ ReadPage \/ TruncatePage \/ WritePage
    \/ RenderPost \/ TruncatePostPage \/ WritePostPage
    \/ RestyleReports

Next == Author \/ StartBuild \/ BuildStep \/ FlushPage \/ Crash

Spec == Init /\ [][Next]_vars /\ WF_vars(BuildStep)

----------------------------------------------------------------------------
TypeOK ==
    /\ src \in [Files -> Source]
    /\ onDisk \subseteq Reports
    /\ DOMAIN page = PageNames
    /\ \A p \in PageNames : page[p] \in PageText(p)
    /\ split \subseteq PageNames
    /\ html \in [Slugs -> PostPage \cup {NoPage, TornPage}]
    /\ pc \in {"idle", "parse", "read", "truncate", "write",
               "post", "postTruncate", "postWrite"}
    /\ at \in PageNames
    /\ todo \subseteq Files
    /\ posts \in [Files -> Source]
    /\ cards \subseteq Reports
    /\ buf \in PageText(at)
    /\ doc \in PostPage \cup {NoPage}
    /\ outcome \in {"none", "ok", "aborted", "crashed"}
    /\ edits \in Nat /\ builds \in Nat /\ crashes \in Nat
    /\ clean \in BOOLEAN

----------------------------------------------------------------------------
Marked(p, s) == page[p][s] # NoMarker

(* From the posts that section s shows follows what section t of the same   *)
(* build shows: the listings show every post, the tag lists every tagged    *)
(* one.                                                                     *)
Listings == {"SEARCH_DB", "POSTS_FULL", "POSTS_DB"}
Determines(s, t) == s \in Listings \/ (s \in TagLists /\ t \in TagLists)

(* Whatever the author does meanwhile, and however builds end, a page never *)
(* mixes two parses: each section shows the selection of the posts that     *)
(* another section of the page calls for (main, lines 675-723).             *)
OneParsePerPage ==
    \A p \in PageNames : \A s, t \in Sections(p) :
        Marked(p, s) /\ Marked(p, t) /\ Determines(s, t) =>
            page[p][t].shown = ShownPosts(t, page[p][s].shown)

(* After a build that ran to its end, the three pages are of one parse,     *)
(* also when the author saved or deleted posts while it ran: every listing  *)
(* shows the same posts, the tag lists those of them that have tags, and    *)
(* hero and band the newest of them (lines 697-722).                        *)
PagesAgree ==
    outcome = "ok" =>
        \A p, q \in PageNames : \A s \in Sections(p), t \in Sections(q) :
            Marked(p, s) /\ Marked(q, t) /\ Determines(s, t) =>
                page[q][t].shown = ShownPosts(t, page[p][s].shown)

(* After a build that ran to its end, each post that posts.html lists has a *)
(* whole page, whose body is no older than the title and excerpt listed     *)
(* (lines 726-729, 553).                                                    *)
ListedPostsHavePages ==
    outcome = "ok" /\ Marked("posts", "POSTS_FULL") =>
        \A f \in Listed(page["posts"]["POSTS_FULL"].shown) :
            LET h == html[Slug[f]] IN
              /\ h \notin {NoPage, TornPage}
              /\ h.file = f => /\ h.meta = page["posts"]["POSTS_FULL"].shown[f]
                              /\ h.body.ver >= h.meta.ver

(* Only a crash takes the markers of a section away: no build that ran or   *)
(* aborted, and no sequence of them (lines 697-722).                        *)
MarkersOnlyLostByCrash ==
    crashes = 0 =>
        \A p \in PageNames : \A s \in Sections(p) :
            Marked(p, s) \/ (pc = "write" /\ at = p)

(* What the sources call for: every section that still has its markers, and *)
(* for every slug the page of the oldest post that has it (newer ones are   *)
(* written first and overwritten).                                          *)
Current ==
    LET P == [f \in Files |-> IF IsPost(src[f]) THEN src[f] ELSE Absent] IN
      /\ \A p \in PageNames : \A s \in Sections(p) :
            Marked(p, s) => /\ page[p][s].shown = ShownPosts(s, P)
                            /\ page[p][s].reports = ShownReports(s, onDisk)
      /\ \A f \in Listed(P) :
            (\A g \in Listed(P) : Slug[g] = Slug[f] => Rank[f] <= Rank[g]) =>
                html[Slug[f]] = [file |-> f, meta |-> src[f], body |-> src[f]]

(* Whatever crashed or failed before, a build that ran to its end on        *)
(* sources that did not change leaves the site they call for.               *)
CleanBuildIsCurrent == outcome = "ok" /\ clean => Current

(* A build that is started gets there, unless it is disturbed: by an edit,  *)
(* a crash, an excerpt that re.sub rejects, or a page that an earlier crash *)
(* left with half a character at its end.                                   *)
UndisturbedBuildSucceeds ==
    pc = "parse" ~>
        /\ pc = "idle"
        /\ \/ outcome = "ok" /\ Current
           \/ ~clean
           \/ outcome = "crashed"
           \/ \E f \in Files : src[f].kind = "escape"
           \/ split # {}

----------------------------------------------------------------------------
(* What the documentation says and the program does not do. *)

(* build_site.py line 6: a build makes the whole site from the templates,   *)
(* the report metadata and the posts.                                       *)
BuildMakesWholeSite ==
    outcome = "ok" => \A p \in PageNames : \A s \in Sections(p) : Marked(p, s)

(* experience.md line 85: SEARCH_DB is a JSON array, that is, no line ends   *)
(* in one of its strings and nothing of an older array follows it.          *)
SearchDataIsArray ==
    outcome = "ok" /\ Marked("index", "SEARCH_DB") =>
        LET db == page["index"]["SEARCH_DB"] IN
          ~db.rest /\ \A f \in Files : db.shown[f].kind # "multiline"

(* experience.md line 88: a search result leads to its page.                *)
SearchResultsExist ==
    outcome = "ok" /\ clean /\ Marked("index", "SEARCH_DB") =>
        page["index"]["SEARCH_DB"].reports \subseteq onDisk
=============================================================================
