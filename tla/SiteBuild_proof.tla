-------------------------- MODULE SiteBuild_proof --------------------------
(***************************************************************************)
(* Proofs about the site builder, for every set of posts and reports, any  *)
(* number of edits, builds and crashes.                                    *)
(***************************************************************************)
EXTENDS SiteBuild, TLAPS

----------------------------------------------------------------------------
(* What the operators of the model return. *)
LEMMA NothingType == Nothing \in [Files -> Source] /\ Absent \in Source
BY DEF Nothing, Absent, Source, Kinds

LEMMA ParsedType == ASSUME NEW c \in Source PROVE Parsed(c) \in Source
BY NothingType DEF Parsed, IsPost

LEMMA OnlyType ==
    ASSUME NEW P \in [Files -> Source], NEW S
    PROVE  Only(P, S) \in [Files -> Source]
BY NothingType DEF Only

LEMMA GenType ==
    ASSUME NEW s, NEW P \in [Files -> Source], NEW C \in SUBSET Reports
    PROVE  Gen(s, P, C) \in Cell
<1>1. ShownPosts(s, P) \in [Files -> Source]
  BY OnlyType, NothingType DEF ShownPosts
<1>2. ShownReports(s, C) \in SUBSET Reports
  BY SiteBuildAssumption DEF ShownReports, SiteBuildAssumption
<1> QED BY <1>1, <1>2 DEF Gen, Cell

LEMMA SubType ==
    ASSUME NEW s, NEW old, NEW new \in Cell
    PROVE  /\ Sub(s, old, new) \in Cell \cup {NoMarker}
           /\ old # NoMarker => Sub(s, old, new) \in Cell
<1>1. LeavesRest(s, old) \in BOOLEAN
  BY DEF LeavesRest
<1> QED BY <1>1 DEF Sub, Cell

LEMMA EmptyType == ASSUME NEW p PROVE Empty(p) \in PageText(p)
BY DEF Empty, PageText

LEMMA PrefixType ==
    ASSUME NEW p, NEW text \in PageText(p), NEW n PROVE Prefix(p, text, n) \in PageText(p)
BY DEF Prefix, PageText

LEMMA RegeneratedType ==
    ASSUME NEW p, NEW P \in [Files -> Source], NEW C \in SUBSET Reports
    PROVE  Regenerated(p, P, C) \in PageText(p)
BY GenType, SubType DEF Regenerated, PageText

LEMMA NextPageType == ASSUME NEW p \in PageNames PROVE NextPage[p] \in PageNames
BY DEF NextPage, PageNames

----------------------------------------------------------------------------
(* The type invariant, strengthened by what the last two steps of a page    *)
(* need: a post that is about to be written has been rendered.              *)
Rendered == pc \in {"postTruncate", "postWrite"} => doc \in PostPage
Types == TypeOK /\ Rendered

USE SiteBuildAssumption DEF SiteBuildAssumption

LEMMA StopTypes ==
    ASSUME Types, NEW how \in {"ok", "aborted", "crashed"}, Stop(how),
           src' \in [Files -> Source], UNCHANGED <<onDisk, edits, page, split, html>>,
           builds' \in Nat, crashes' \in Nat, clean' \in BOOLEAN
    PROVE  Types'
<1>1. "index" \in PageNames
  BY DEF PageNames
<1> QED BY <1>1, EmptyType, NothingType
        DEF Types, TypeOK, Rendered, Stop

LEMMA AbortTypes == ASSUME Types, Abort PROVE Types'
BY StopTypes DEF Abort, Types, TypeOK, sources, disk

(* What the author does leaves the builder and the site alone. *)
LEMMA AuthorTypes ==
    ASSUME Types, src' \in [Files -> Source], onDisk' \in SUBSET Reports, edits' \in Nat,
           clean' \in BOOLEAN, UNCHANGED <<disk, pc, locals, outcome, builds, crashes>>
    PROVE  Types'
<1>1. UNCHANGED <<page, split, html, pc, at, todo, posts, cards, buf, doc, outcome, builds, crashes>>
  BY DEF disk, locals
<1> QED BY <1>1 DEF Types, TypeOK, Rendered

(* Types is an inductive invariant. *)
LEMMA InitTypes == Init => Types
<1> SUFFICES ASSUME Init PROVE Types
  OBVIOUS
<1>1. onDisk \in SUBSET Reports
  BY DEF Init
<1>2. \A p \in PageNames : page[p] \in PageText(p)
  <2> SUFFICES ASSUME NEW p \in PageNames PROVE page[p] \in PageText(p)
    OBVIOUS
  <2>1. page[p] = [s \in Sections(p) |-> Gen(s, Nothing, onDisk)]
    BY DEF Init
  <2>2. \A s \in Sections(p) : Gen(s, Nothing, onDisk) \in Cell
    BY <1>1, GenType, NothingType
  <2> QED BY <2>1, <2>2 DEF PageText
<1>3. "index" \in PageNames
  BY DEF PageNames
<1> QED BY <1>1, <1>2, <1>3, NothingType, EmptyType DEF Init, Types, TypeOK, Rendered

LEMMA NextTypes == Types /\ [Next]_vars => Types'
<1> SUFFICES ASSUME Types, [Next]_vars PROVE Types'
  OBVIOUS
<1> USE DEF Types
<1>1. ASSUME NEW f \in Files, NEW kind \in Saved, SavePost(f, kind)
      PROVE  Types'
  <2>1. [ver |-> edits + 1, kind |-> kind] \in Source
    BY DEF Source, Kinds, TypeOK
  <2>2. src' \in [Files -> Source] /\ edits' \in Nat
    BY <1>1, <2>1 DEF SavePost, TypeOK
  <2>4. clean' \in BOOLEAN
    BY <1>1, Zenon DEF SavePost
  <2>3. onDisk' \in SUBSET Reports /\ UNCHANGED <<disk, pc, locals, outcome, builds, crashes>>
    BY <1>1 DEF SavePost, TypeOK
  <2> QED BY <2>2, <2>3, <2>4, AuthorTypes
<1>2. ASSUME NEW f \in Files, DeletePost(f) PROVE Types'
  <2>1. src' \in [Files -> Source] /\ edits' \in Nat
    BY <1>2, NothingType DEF DeletePost, TypeOK
  <2>3. clean' \in BOOLEAN
    BY <1>2, Zenon DEF DeletePost
  <2>2. onDisk' \in SUBSET Reports /\ UNCHANGED <<disk, pc, locals, outcome, builds, crashes>>
    BY <1>2 DEF DeletePost, TypeOK
  <2> QED BY <2>1, <2>2, <2>3, AuthorTypes
<1>3. ASSUME NEW R \in SUBSET Reports, SyncReports(R) PROVE Types'
  <2>1. src' \in [Files -> Source] /\ edits' \in Nat
    BY <1>3 DEF SyncReports, TypeOK
  <2>3. clean' \in BOOLEAN
    BY <1>3, Zenon DEF SyncReports
  <2>2. onDisk' \in SUBSET Reports /\ UNCHANGED <<disk, pc, locals, outcome, builds, crashes>>
    BY <1>3 DEF SyncReports, TypeOK
  <2> QED BY <2>1, <2>2, <2>3, AuthorTypes
<1>4. CASE StartBuild
  BY <1>4 DEF StartBuild, TypeOK, Rendered, sources, disk
<1>5. CASE ParsePost
  <2>1. PICK f \in todo : IF Unreadable(f) THEN Abort
                          ELSE /\ posts' = [posts EXCEPT ![f] = Parsed(src[f])]
                               /\ todo' = todo \ {f}
                               /\ UNCHANGED <<sources, disk, pc, at, cards, buf, doc, history>>
    BY <1>5 DEF ParsePost
  <2>2. CASE Unreadable(f)
    BY <2>1, <2>2, AbortTypes
  <2>3. CASE ~Unreadable(f)
    <3>1. Parsed(src[f]) \in Source
      BY ParsedType DEF TypeOK
    <3> QED BY <2>1, <2>3, <3>1 DEF TypeOK, Rendered, sources, disk, history
  <2> QED BY <2>2, <2>3
<1>6. CASE Generate
  BY <1>6 DEF Generate, TypeOK, Rendered, sources, disk, history
<1>7. CASE ReadPage
  <2>1. CASE at \in split \/ BadEscape(at, posts)
    BY <1>7, <2>1, AbortTypes DEF ReadPage
  <2>2. CASE ~(at \in split \/ BadEscape(at, posts))
    <3>1. Regenerated(at, posts, cards) \in PageText(at)
      BY RegeneratedType DEF TypeOK
    <3> QED BY <1>7, <2>2, <3>1 DEF ReadPage, TypeOK, Rendered, sources, disk, history
  <2> QED BY <2>1, <2>2
<1>8. CASE TruncatePage
  BY <1>8, EmptyType DEF TruncatePage, TypeOK, Rendered, sources, locals, history
<1>9. CASE FlushPage
  <2>1. PICK n : page' = [page EXCEPT ![at] = Prefix(at, buf, n)]
    BY <1>9 DEF FlushPage
  <2>2. Prefix(at, buf, n) \in PageText(at)
    BY PrefixType DEF TypeOK
  <2> QED BY <1>9, <2>1, <2>2 DEF FlushPage, TypeOK, Rendered, sources, locals, history
<1>10. CASE WritePage
  <2>1. ToRender \subseteq Files
    BY DEF ToRender, Listed
  <2>2. at' \in PageNames /\ buf' \in PageText(at')
    BY <1>10, NextPageType, EmptyType DEF WritePage, TypeOK
  <2>3. todo' \subseteq Files /\ pc' \in {"post", "read"}
    BY <1>10, <2>1 DEF WritePage, TypeOK
  <2>4. DOMAIN page' = PageNames /\ \A p \in PageNames : page'[p] \in PageText(p)
    BY <1>10 DEF WritePage, TypeOK
  <2> QED BY <1>10, <2>2, <2>3, <2>4 DEF WritePage, TypeOK, Rendered, sources, history
<1>11. CASE RenderPost
  <2>1. PICK f \in todo : IF Unreadable(f) THEN Abort
                          ELSE /\ doc' = [file |-> f, meta |-> posts[f], body |-> src[f]]
                               /\ pc' = "postTruncate"
                               /\ UNCHANGED <<sources, disk, at, todo, posts, cards, buf, history>>
    BY <1>11 DEF RenderPost
  <2>2. CASE Unreadable(f)
    BY <2>1, <2>2, AbortTypes
  <2>3. CASE ~Unreadable(f)
    <3>1. [file |-> f, meta |-> posts[f], body |-> src[f]] \in PostPage
      BY DEF PostPage, TypeOK
    <3> QED BY <2>1, <2>3, <3>1 DEF TypeOK, Rendered, sources, disk, history
  <2> QED BY <2>2, <2>3
<1>12. CASE TruncatePostPage
  BY <1>12 DEF TruncatePostPage, TypeOK, Rendered, sources, locals, history
<1>13. CASE WritePostPage
  BY <1>13 DEF WritePostPage, TypeOK, Rendered, sources, history
<1>14. CASE RestyleReports
  BY <1>14, StopTypes DEF RestyleReports, TypeOK, sources, disk
<1>15. CASE Crash
  BY <1>15, StopTypes DEF Crash, TypeOK, sources, disk
<1>16. CASE UNCHANGED vars
  BY <1>16 DEF vars, TypeOK, Rendered
<1> QED BY <1>1, <1>2, <1>3, <1>4, <1>5, <1>6, <1>7, <1>8, <1>9, <1>10, <1>11, <1>12,
           <1>13, <1>14, <1>15, <1>16 DEF Next, Author, BuildStep

(* The variables of the site and of the builder keep their types, whatever  *)
(* is edited, built or killed (the whole of main).                          *)
THEOREM Typing == Spec => []TypeOK
<1>1. Spec => []Types
  BY InitTypes, NextTypes, PTL DEF Spec
<1>2. Types => TypeOK
  BY DEF Types
<1> QED BY <1>1, <1>2, PTL

----------------------------------------------------------------------------
(* The steps as the three pages see them.  A step that is none of the four  *)
(* on pages either ends the builder or touches neither page nor buffer.     *)
Reads ==
    /\ pc = "read" /\ pc' = "truncate"
    /\ UNCHANGED <<page, at, posts, crashes>>
    /\ buf' = Regenerated(at, posts, cards)

Ends ==
    /\ UNCHANGED page
    /\ at' = "index" /\ buf' = Empty("index") /\ pc' = "idle"
    /\ pc \in {"truncate", "write"} => crashes' = crashes + 1
    /\ crashes' \in {crashes, crashes + 1}

Elsewhere ==
    /\ UNCHANGED <<page, at, buf, crashes>>
    /\ pc' \in {"truncate", "write"} <=> pc \in {"truncate", "write"}
    /\ pc' = "write" <=> pc = "write"

LEMMA StopEnds ==
    ASSUME NEW how, Stop(how), UNCHANGED page, crashes' \in {crashes, crashes + 1},
           pc \in {"truncate", "write"} => crashes' = crashes + 1
    PROVE  Ends
BY DEF Stop, Ends

LEMMA PageSteps ==
    ASSUME Types, [Next]_vars
    PROVE  \/ Reads \/ TruncatePage \/ FlushPage \/ WritePage \/ Ends \/ Elsewhere
<1> USE DEF Types, TypeOK
<1>1. ASSUME NEW f \in Files, NEW kind \in Saved, SavePost(f, kind)
      PROVE  Elsewhere
  BY <1>1 DEF SavePost, Elsewhere, disk, locals
<1>2. ASSUME NEW f \in Files, DeletePost(f) PROVE Elsewhere
  BY <1>2 DEF DeletePost, Elsewhere, disk, locals
<1>3. ASSUME NEW R \in SUBSET Reports, SyncReports(R) PROVE Elsewhere
  BY <1>3 DEF SyncReports, Elsewhere, disk, locals
<1>4. CASE StartBuild
  BY <1>4 DEF StartBuild, Elsewhere, disk
<1>5. CASE ParsePost
  BY <1>5, StopEnds DEF ParsePost, Abort, Elsewhere, disk, history
<1>6. CASE Generate
  BY <1>6 DEF Generate, Elsewhere, disk, history
<1>7. CASE ReadPage
  BY <1>7, StopEnds DEF ReadPage, Abort, Reads, disk, history
<1>8. CASE RenderPost
  BY <1>8, StopEnds DEF RenderPost, Abort, Elsewhere, disk, history
<1>9. CASE TruncatePostPage
  BY <1>9 DEF TruncatePostPage, Elsewhere, locals, history
<1>10. CASE WritePostPage
  BY <1>10 DEF WritePostPage, Elsewhere, history
<1>11. CASE RestyleReports
  BY <1>11, StopEnds DEF RestyleReports, disk
<1>12. CASE Crash
  BY <1>12, StopEnds DEF Crash, disk
<1>13. CASE UNCHANGED vars
  BY <1>13 DEF vars, Elsewhere
<1> QED BY <1>1, <1>2, <1>3, <1>4, <1>5, <1>6, <1>7, <1>8, <1>9, <1>10, <1>11, <1>12, <1>13
        DEF Next, Author, BuildStep

----------------------------------------------------------------------------
(* A page never mixes two parses, nor does the text that is about to be     *)
(* written: every text is generated from one value of posts, and what a     *)
(* truncation or a flush leaves is a part of such a text.                   *)
OneParse(p, text) ==
    \A s, t \in Sections(p) :
        text[s] # NoMarker /\ text[t] # NoMarker /\ Determines(s, t) =>
            text[t].shown = ShownPosts(t, text[s].shown)

OneParseInv == /\ \A p \in PageNames : OneParse(p, page[p])
               /\ OneParse(at, buf)

(* What s shows of P is enough to tell what t shows of P.                   *)
LEMMA ShownFollows ==
    ASSUME NEW s, NEW t, Determines(s, t), NEW P
    PROVE  ShownPosts(t, ShownPosts(s, P)) = ShownPosts(t, P)
<1>1. CASE s \in Listings
  BY <1>1 DEF Listings, TagLists, ShownPosts
<1>2. CASE s \in TagLists /\ t \in TagLists
  <2> DEFINE Q == Only(P, Tagged(P))
  <2>1. ShownPosts(s, P) = Q /\ ShownPosts(t, P) = Q /\ ShownPosts(t, Q) = Only(Q, Tagged(Q))
    BY <1>2 DEF TagLists, ShownPosts
  <2>2. \A f \in Files : Q[f] = IF f \in Tagged(P) THEN P[f] ELSE Absent
    BY DEF Only
  <2>3. ~IsPost(Absent)
    BY DEF IsPost, Absent
  <2>4. Tagged(Q) = Tagged(P)
    BY <2>2, <2>3 DEF Tagged, Listed
  <2>5. Only(Q, Tagged(Q)) = Q
    BY <2>2, <2>4 DEF Only
  <2> QED BY <2>1, <2>5
<1> QED BY <1>1, <1>2 DEF Determines

LEMMA EmptyOneParse == ASSUME NEW p PROVE OneParse(p, Empty(p))
BY DEF OneParse, Empty

LEMMA PrefixOneParse ==
    ASSUME NEW p, NEW text, NEW n, OneParse(p, text)
    PROVE  OneParse(p, Prefix(p, text, n))
BY DEF OneParse, Prefix

(* A section that is regenerated shows the posts it is given. *)
LEMMA RegeneratedShows ==
    ASSUME NEW p, NEW P, NEW C, NEW s \in Sections(p), Regenerated(p, P, C)[s] # NoMarker
    PROVE  Regenerated(p, P, C)[s].shown = ShownPosts(s, P)
<1>1. Regenerated(p, P, C)[s] = Sub(s, page[p][s], Gen(s, P, C))
  BY DEF Regenerated
<1>2. Sub(s, page[p][s], Gen(s, P, C)).shown = Gen(s, P, C).shown
  BY <1>1 DEF Sub, Gen
<1> QED BY <1>1, <1>2 DEF Gen

LEMMA RegeneratedOneParse ==
    ASSUME NEW p, NEW P, NEW C PROVE OneParse(p, Regenerated(p, P, C))
<1> DEFINE text == Regenerated(p, P, C)
<1>1. ASSUME NEW s \in Sections(p), text[s] # NoMarker
      PROVE  text[s].shown = ShownPosts(s, P)
  BY <1>1, RegeneratedShows
<1> QED BY <1>1, ShownFollows DEF OneParse

LEMMA OneParseInductive == Types /\ OneParseInv /\ [Next]_vars => OneParseInv'
<1> SUFFICES ASSUME Types, OneParseInv, [Next]_vars PROVE OneParseInv'
  OBVIOUS
<1> USE DEF OneParseInv
<1>1. CASE Reads
  BY <1>1, RegeneratedOneParse DEF Reads
<1>2. CASE TruncatePage
  BY <1>2, EmptyOneParse DEF TruncatePage, locals, Types, TypeOK
<1>3. CASE FlushPage
  BY <1>3, PrefixOneParse DEF FlushPage, locals, Types, TypeOK
<1>4. CASE WritePage
  BY <1>4, EmptyOneParse DEF WritePage, Types, TypeOK
<1>5. CASE Ends
  BY <1>5, EmptyOneParse DEF Ends
<1>6. CASE Elsewhere
  BY <1>6 DEF Elsewhere
<1> QED BY <1>1, <1>2, <1>3, <1>4, <1>5, <1>6, PageSteps

LEMMA OneParseInit == Init => OneParseInv
<1> SUFFICES ASSUME Init PROVE OneParseInv
  OBVIOUS
<1>1. ASSUME NEW p \in PageNames PROVE OneParse(p, page[p])
  <2>1. page[p] = [s \in Sections(p) |-> Gen(s, Nothing, onDisk)]
    BY DEF Init
  <2>2. \A s \in Sections(p) : page[p][s].shown = ShownPosts(s, Nothing)
    BY <2>1 DEF Gen
  <2> QED BY <2>2, ShownFollows DEF OneParse
<1> QED BY <1>1, EmptyOneParse DEF Init, OneParseInv

(* Every section of a page shows the posts of the same parse, whatever the  *)
(* author does meanwhile and however often builds are killed (main, lines   *)
(* 697-722).                                                                *)
THEOREM OneParseHolds == Spec => []OneParsePerPage
<1>1. Init => Types /\ OneParseInv
  BY InitTypes, OneParseInit
<1>2. Types /\ OneParseInv /\ [Next]_vars => (Types /\ OneParseInv)'
  BY NextTypes, OneParseInductive
<1>3. OneParseInv => OneParsePerPage
  BY DEF OneParseInv, OneParse, OneParsePerPage, Marked
<1> QED BY <1>1, <1>2, <1>3, PTL DEF Spec

----------------------------------------------------------------------------
(* Until a build is killed, the builder's text has every marker that the    *)
(* page it read had, and only the page that is being written lacks some.    *)
FullText(p, text) == \A s \in Sections(p) : text[s] # NoMarker

MarkersInv ==
    crashes = 0 =>
        /\ \A p \in PageNames : FullText(p, page[p]) \/ (pc = "write" /\ at = p)
        /\ pc \in {"truncate", "write"} => FullText(at, buf)

LEMMA RegeneratedFull ==
    ASSUME NEW p, FullText(p, page[p]), NEW P \in [Files -> Source], NEW C \in SUBSET Reports
    PROVE  FullText(p, Regenerated(p, P, C))
<1>1. \A s \in Sections(p) : Sub(s, page[p][s], Gen(s, P, C)) \in Cell
  BY GenType, SubType DEF FullText
<1> QED BY <1>1, MarkerAssumption DEF FullText, Regenerated, MarkerAssumption

LEMMA MarkersInductive == Types /\ MarkersInv /\ [Next]_vars => MarkersInv'
<1> SUFFICES ASSUME Types, MarkersInv, [Next]_vars, crashes' = 0 PROVE MarkersInv'
  BY DEF MarkersInv
<1> USE DEF MarkersInv, Types, TypeOK
<1>1. CASE Reads
  <2>1. FullText(at, page[at])
    BY <1>1 DEF Reads
  <2>2. FullText(at, buf')
    BY <1>1, <2>1, RegeneratedFull DEF Reads
  <2> QED BY <1>1, <2>2 DEF Reads
<1>2. CASE TruncatePage
  BY <1>2 DEF TruncatePage, locals, history
<1>3. CASE FlushPage
  BY <1>3 DEF FlushPage, locals, history
<1>4. CASE WritePage
  <2>1. crashes = 0 /\ pc = "write" /\ pc' \notin {"truncate", "write"}
    BY <1>4 DEF WritePage, history
  <2>2. page' = [page EXCEPT ![at] = buf] /\ FullText(at, buf)
    BY <1>4, <2>1 DEF WritePage
  <2> QED BY <2>1, <2>2
<1>5. CASE Ends
  <2>1. crashes = 0 /\ pc \notin {"truncate", "write"}
    BY <1>5 DEF Ends
  <2> QED BY <1>5, <2>1 DEF Ends
<1>6. CASE Elsewhere
  BY <1>6 DEF Elsewhere
<1> QED BY <1>1, <1>2, <1>3, <1>4, <1>5, <1>6, PageSteps

LEMMA MarkersInit == Init => MarkersInv
<1> SUFFICES ASSUME Init PROVE MarkersInv
  OBVIOUS
<1>1. ASSUME NEW p \in PageNames PROVE FullText(p, page[p])
  <2>1. page[p] = [s \in Sections(p) |-> Gen(s, Nothing, onDisk)]
    BY DEF Init
  <2>2. \A s \in Sections(p) : Gen(s, Nothing, onDisk) # NoMarker
    BY GenType, NothingType, MarkerAssumption DEF MarkerAssumption, Init
  <2> QED BY <2>1, <2>2 DEF FullText
<1> QED BY <1>1 DEF MarkersInv, Init

(* No build that runs to its end or aborts takes the markers of a section   *)
(* away, nor does any sequence of them (main, lines 697-722).               *)
THEOREM MarkersHold == Spec => []MarkersOnlyLostByCrash
<1>1. Init => Types /\ MarkersInv
  BY InitTypes, MarkersInit
<1>2. Types /\ MarkersInv /\ [Next]_vars => (Types /\ MarkersInv)'
  BY NextTypes, MarkersInductive
<1>3. MarkersInv => MarkersOnlyLostByCrash
  BY DEF MarkersInv, FullText, MarkersOnlyLostByCrash, Marked
<1> QED BY <1>1, <1>2, <1>3, PTL DEF Spec

----------------------------------------------------------------------------
(* The pages that the running build has written show the posts it parsed,   *)
(* and so does the text it is about to write; when it has come to its end   *)
(* all three pages show them.                                               *)
Lists(p, text, P) ==
    \A s \in Sections(p) : text[s] # NoMarker => text[s].shown = ShownPosts(s, P)

Earlier(p) == IF p = "index" THEN {} ELSE IF p = "posts" THEN {"index"} ELSE {"index", "posts"}
Written ==
    IF pc \in {"read", "truncate", "write"} THEN Earlier(at)
    ELSE IF pc \in {"post", "postTruncate", "postWrite"} THEN PageNames
    ELSE {}

AgreeInv ==
    /\ \A p \in Written : Lists(p, page[p], posts)
    /\ pc \in {"truncate", "write"} => Lists(at, buf, posts)
    /\ pc \in {"idle", "parse"} => at = "index"
    /\ outcome = "ok" => pc = "idle" /\ \E P : \A p \in PageNames : Lists(p, page[p], P)

LEMMA RegeneratedLists ==
    ASSUME NEW p, NEW P, NEW C PROVE Lists(p, Regenerated(p, P, C), P)
BY RegeneratedShows DEF Lists

(* A builder that stops leaves an invariant state, unless it claims success. *)
LEMMA StopAgrees ==
    ASSUME NEW how \in {"aborted", "crashed"}, Stop(how)
    PROVE  AgreeInv'
BY DEF Stop, AgreeInv, Written

LEMMA AbortAgrees == ASSUME Abort PROVE AgreeInv'
BY StopAgrees DEF Abort

(* A step that leaves the pages, the parse, the buffer and the place alone. *)
LEMMA IdleAgrees ==
    ASSUME AgreeInv, UNCHANGED <<page, posts, buf, at, pc, outcome>>
    PROVE  AgreeInv'
BY DEF AgreeInv, Written, Lists

LEMMA PostAgrees ==
    ASSUME AgreeInv, pc \in {"post", "postTruncate", "postWrite"}, pc' \in {"post", "postTruncate", "postWrite"},
           UNCHANGED <<page, posts, outcome>>
    PROVE  AgreeInv'
BY DEF AgreeInv, Written, Lists

LEMMA AgreeInductive == Types /\ AgreeInv /\ [Next]_vars => AgreeInv'
<1> SUFFICES ASSUME Types, AgreeInv, [Next]_vars PROVE AgreeInv'
  OBVIOUS
<1> USE DEF Types, TypeOK
<1>1. ASSUME NEW f \in Files, NEW kind \in Saved, SavePost(f, kind)
      PROVE  AgreeInv'
  BY <1>1, IdleAgrees DEF SavePost, disk, locals
<1>2. ASSUME NEW f \in Files, DeletePost(f) PROVE AgreeInv'
  BY <1>2, IdleAgrees DEF DeletePost, disk, locals
<1>3. ASSUME NEW R \in SUBSET Reports, SyncReports(R) PROVE AgreeInv'
  BY <1>3, IdleAgrees DEF SyncReports, disk, locals
<1>4. CASE StartBuild
  BY <1>4 DEF StartBuild, AgreeInv, Written
<1>5. CASE ParsePost
  <2>1. CASE Abort
    BY <2>1, AbortAgrees
  <2>2. CASE pc = "parse" /\ UNCHANGED <<pc, at, outcome>>
    BY <2>2 DEF AgreeInv, Written
  <2> QED BY <1>5, <2>1, <2>2 DEF ParsePost, history
<1>6. CASE Generate
  BY <1>6 DEF Generate, AgreeInv, Written, Earlier, history
<1>7. CASE ReadPage
  <2>1. CASE Abort
    BY <2>1, AbortAgrees
  <2>2. CASE /\ pc = "read" /\ pc' = "truncate"
             /\ UNCHANGED <<page, at, posts, outcome>>
             /\ buf' = Regenerated(at, posts, cards)
    <3>1. Lists(at, buf', posts)
      BY <2>2, RegeneratedLists
    <3> QED BY <2>2, <3>1 DEF AgreeInv, Written, Lists
  <2> QED BY <1>7, <2>1, <2>2 DEF ReadPage, disk, history
<1>8. CASE TruncatePage
  <2>1. at \notin Written
    BY <1>8 DEF TruncatePage, Written, Earlier, PageNames
  <2>2. Written' = Written
    BY <1>8 DEF TruncatePage, Written, locals
  <2>3. \A p \in Written : page'[p] = page[p]
    BY <1>8, <2>1 DEF TruncatePage, Written, Earlier, PageNames
  <2> QED BY <1>8, <2>2, <2>3 DEF TruncatePage, AgreeInv, Lists, locals, history
<1>9. CASE FlushPage
  <2>1. at \notin Written
    BY <1>9 DEF FlushPage, Written, Earlier, PageNames
  <2>2. Written' = Written
    BY <1>9 DEF FlushPage, Written, locals
  <2>3. \A p \in Written : page'[p] = page[p]
    BY <1>9, <2>1 DEF FlushPage, Written, Earlier, PageNames
  <2> QED BY <1>9, <2>2, <2>3 DEF FlushPage, AgreeInv, Lists, locals, history
<1>10. CASE WritePage
  <2>1. Written' \subseteq Written \cup {at}
    BY <1>10 DEF WritePage, Written, Earlier, NextPage, PageNames
  <2>2. \A p \in Written \cup {at} : page'[p] = IF p = at THEN buf ELSE page[p]
    BY <1>10 DEF WritePage, Written, Earlier, PageNames
  <2>3. \A p \in Written' : Lists(p, page'[p], posts)
    BY <1>10, <2>1, <2>2 DEF WritePage, AgreeInv
  <2>4. pc' \in {"read", "post"} /\ posts' = posts /\ outcome' # "ok"
    BY <1>10 DEF WritePage, AgreeInv, history
  <2> QED BY <2>3, <2>4 DEF AgreeInv, Lists
<1>11. CASE RenderPost
  BY <1>11, AbortAgrees, PostAgrees DEF RenderPost, disk, history
<1>12. CASE TruncatePostPage
  BY <1>12, PostAgrees DEF TruncatePostPage, locals, history
<1>13. CASE WritePostPage
  BY <1>13, PostAgrees DEF WritePostPage, history
<1>14. CASE RestyleReports
  <2>1. \A p \in PageNames : Lists(p, page[p], posts)
    BY <1>14 DEF RestyleReports, AgreeInv, Written
  <2> QED BY <1>14, <2>1 DEF RestyleReports, Stop, AgreeInv, Written, Lists, disk
<1>15. CASE Crash
  BY <1>15, StopAgrees DEF Crash
<1>16. CASE UNCHANGED vars
  BY <1>16, IdleAgrees DEF vars
<1> QED BY <1>1, <1>2, <1>3, <1>4, <1>5, <1>6, <1>7, <1>8, <1>9, <1>10, <1>11, <1>12,
           <1>13, <1>14, <1>15, <1>16 DEF Next, Author, BuildStep

(* After a build that ran to its end the three pages are of one parse, also *)
(* when the author saved or deleted posts while it ran: the listings show   *)
(* the same posts, the tag lists those of them that have tags (main, lines  *)
(* 675-722).                                                                *)
THEOREM PagesAgreeHolds == Spec => []PagesAgree
<1>1. Init => Types /\ AgreeInv
  BY InitTypes DEF Init, AgreeInv, Written
<1>2. Types /\ AgreeInv /\ [Next]_vars => (Types /\ AgreeInv)'
  BY NextTypes, AgreeInductive
<1>3. AgreeInv => PagesAgree
  BY ShownFollows DEF AgreeInv, Lists, PagesAgree, Marked
<1> QED BY <1>1, <1>2, <1>3, PTL DEF Spec

----------------------------------------------------------------------------
(* The page h of the slug of f is whole and, if it is of f, as P says.      *)
Finished(f, P, h) ==
    /\ h \notin {NoPage, TornPage}
    /\ h.file = f => h.meta = P[f] /\ h.body.ver >= h.meta.ver

Posting == pc \in {"post", "postTruncate", "postWrite"}

(* Versions only grow: a source that is still there is no older than its    *)
(* parse.                                                                   *)
VersionInv ==
    \A f \in Files : /\ src[f].ver <= edits /\ posts[f].ver <= edits
                     /\ src[f] # Absent => posts[f].ver <= src[f].ver

(* Inductive strengthening of ListedPostsHavePages: the posts that are no   *)
(* longer to be rendered have their pages, except while the one of the same *)
(* slug is being written.                                                   *)
RenderInv ==
    /\ Posting => todo \subseteq Listed(posts)
    /\ pc \in {"postTruncate", "postWrite"} =>
          doc.file \in todo /\ doc.meta = posts[doc.file] /\ doc.body.ver >= doc.meta.ver
    /\ Posting => \A f \in Listed(posts) \ todo :
          Finished(f, posts, html[Slug[f]]) \/ (pc = "postWrite" /\ Slug[f] = Slug[doc.file])
    /\ outcome = "ok" =>
          /\ pc = "idle"
          /\ \E P : Lists("posts", page["posts"], P) /\ \A f \in Listed(P) : Finished(f, P, html[Slug[f]])

LEMMA ParsedVersion == ASSUME NEW c \in Source PROVE Parsed(c).ver \in Nat /\ Parsed(c).ver <= c.ver
BY DEF Parsed, Absent, Source

LEMMA VersionInductive == Types /\ VersionInv /\ [Next]_vars => VersionInv'
<1> SUFFICES ASSUME Types, VersionInv, [Next]_vars PROVE VersionInv'
  OBVIOUS
<1>t. /\ src \in [Files -> Source] /\ posts \in [Files -> Source] /\ edits \in Nat
      /\ \A f \in Files : src[f].ver \in Nat /\ posts[f].ver \in Nat
  BY DEF Types, TypeOK, Source
<1> USE DEF VersionInv
<1>u. ASSUME UNCHANGED <<src, edits>>, \/ UNCHANGED posts
                                       \/ posts' = Nothing
                                       \/ \E f \in Files : posts' = [posts EXCEPT ![f] = Parsed(src[f])]
      PROVE  VersionInv'
  <2>1. CASE UNCHANGED posts
    BY <1>u, <2>1
  <2>2. CASE posts' = Nothing
    BY <1>t, <1>u, <2>2 DEF Nothing, Absent
  <2>3. ASSUME NEW f \in Files, posts' = [posts EXCEPT ![f] = Parsed(src[f])] PROVE VersionInv'
    <3>1. posts'[f].ver \in Nat /\ posts'[f].ver <= src[f].ver
      BY <1>t, <2>3, ParsedVersion
    <3>2. \A g \in Files : g # f => posts'[g] = posts[g]
      BY <1>t, <2>3
    <3> QED BY <1>t, <1>u, <3>1, <3>2
  <2> QED BY <1>u, <2>1, <2>2, <2>3
<1>1. ASSUME NEW f \in Files, NEW kind \in Saved, SavePost(f, kind)
      PROVE  VersionInv'
  <2>1. src' = [src EXCEPT ![f] = [ver |-> edits + 1, kind |-> kind]] /\ edits' = edits + 1 /\ posts' = posts
    BY <1>1 DEF SavePost, locals
  <2>2. src'[f].ver = edits + 1 /\ \A g \in Files : g # f => src'[g] = src[g]
    BY <1>t, <2>1
  <2> QED BY <1>t, <2>1, <2>2
<1>2. ASSUME NEW f \in Files, DeletePost(f) PROVE VersionInv'
  <2>1. src' = [src EXCEPT ![f] = Absent] /\ edits' = edits + 1 /\ posts' = posts
    BY <1>2 DEF DeletePost, locals
  <2>2. src'[f] = Absent /\ Absent.ver = 0 /\ \A g \in Files : g # f => src'[g] = src[g]
    BY <1>t, <2>1 DEF Absent
  <2> QED BY <1>t, <2>1, <2>2
<1>3. ASSUME NEW R \in SUBSET Reports, SyncReports(R) PROVE VersionInv'
  BY <1>3, <1>t DEF SyncReports, locals
<1>4. CASE StartBuild \/ Generate \/ TruncatePage \/ FlushPage \/ WritePage \/ TruncatePostPage \/ WritePostPage
  BY <1>4, <1>u DEF StartBuild, Generate, TruncatePage, FlushPage, WritePage, TruncatePostPage, WritePostPage,
                    sources, locals
<1>5. CASE ParsePost
  <2>1. PICK f \in todo : IF Unreadable(f) THEN Abort
                          ELSE posts' = [posts EXCEPT ![f] = Parsed(src[f])] /\ UNCHANGED sources
    BY <1>5 DEF ParsePost
  <2>2. f \in Files
    BY DEF Types, TypeOK
  <2> QED BY <1>u, <2>1, <2>2 DEF Abort, Stop, sources
<1>6. CASE ReadPage \/ RenderPost \/ RestyleReports \/ Crash
  BY <1>6, <1>u DEF ReadPage, RenderPost, RestyleReports, Crash, Abort, Stop, sources
<1>7. CASE UNCHANGED vars
  BY <1>7, <1>u DEF vars
<1> QED BY <1>1, <1>2, <1>3, <1>4, <1>5, <1>6, <1>7 DEF Next, Author, BuildStep

LEMMA StopRenders ==
    ASSUME NEW how \in {"aborted", "crashed"}, Stop(how)
    PROVE  RenderInv'
BY DEF Stop, RenderInv, Posting

LEMMA AbortRenders == ASSUME Abort PROVE RenderInv'
BY StopRenders DEF Abort

(* A step that leaves the posts and their pages alone. *)
LEMMA StillRenders ==
    ASSUME RenderInv, UNCHANGED <<page, html, posts, todo, doc, pc, outcome>>
    PROVE  RenderInv'
BY DEF RenderInv, Posting, Listed, Lists, Finished

(* A step before the post pages. *)
LEMMA NotYetRenders ==
    ASSUME pc' \in {"parse", "read", "truncate", "write"}, outcome' # "ok"
    PROVE  RenderInv'
BY DEF RenderInv, Posting

LEMMA RenderInductive == Types /\ AgreeInv /\ VersionInv /\ RenderInv /\ [Next]_vars => RenderInv'
<1> SUFFICES ASSUME Types, AgreeInv, VersionInv, RenderInv, [Next]_vars PROVE RenderInv'
  OBVIOUS
<1>o. pc # "idle" => outcome # "ok"
  BY DEF AgreeInv
<1>t. TypeOK /\ Rendered
  BY DEF Types
<1>1. ASSUME NEW f \in Files, NEW kind \in Saved, SavePost(f, kind)
      PROVE  RenderInv'
  BY <1>1, StillRenders DEF SavePost, disk, locals
<1>2. ASSUME NEW f \in Files, DeletePost(f) PROVE RenderInv'
  BY <1>2, StillRenders DEF DeletePost, disk, locals
<1>3. ASSUME NEW R \in SUBSET Reports, SyncReports(R) PROVE RenderInv'
  BY <1>3, StillRenders DEF SyncReports, disk, locals
<1>4. CASE StartBuild
  BY <1>4, NotYetRenders DEF StartBuild
<1>5. CASE ParsePost
  BY <1>5, <1>o, AbortRenders, NotYetRenders DEF ParsePost, history
<1>6. CASE Generate
  BY <1>6, <1>o, NotYetRenders DEF Generate, history
<1>7. CASE ReadPage
  BY <1>7, <1>o, AbortRenders, NotYetRenders DEF ReadPage, history
<1>8. CASE TruncatePage \/ FlushPage
  BY <1>8, <1>o, NotYetRenders DEF TruncatePage, FlushPage, history
<1>9. CASE WritePage
  <2>1. outcome' # "ok" /\ posts' = posts /\ pc' \in {"read", "post"}
        /\ (pc' = "post" => todo' = Listed(posts))
    BY <1>9, <1>o DEF WritePage, history, ToRender
  <2> QED BY <2>1 DEF RenderInv, Posting, Listed
<1>10. CASE RenderPost
  <2>1. CASE Abort
    BY <2>1, AbortRenders
  <2>2. CASE ~Abort
    <3>1. PICK f \in todo : /\ src[f] # Absent
                            /\ doc' = [file |-> f, meta |-> posts[f], body |-> src[f]]
                            /\ pc' = "postTruncate" /\ UNCHANGED <<html, todo, posts, outcome>> /\ pc = "post"
      BY <1>10, <2>2 DEF RenderPost, Unreadable, disk, history
    <3>2. f \in Files /\ src[f].ver >= posts[f].ver
      BY <1>t, <3>1 DEF TypeOK, VersionInv, Source
    <3>3. doc'.file = f /\ doc'.meta = posts[f] /\ doc'.body.ver >= doc'.meta.ver
      BY <3>1, <3>2
    <3> QED BY <1>o, <3>1, <3>3 DEF RenderInv, Posting, Listed, Finished
  <2> QED BY <2>1, <2>2
<1>11. CASE TruncatePostPage
  <2>1. /\ pc = "postTruncate" /\ pc' = "postWrite" /\ UNCHANGED <<todo, posts, doc, outcome>>
        /\ html' = [html EXCEPT ![Slug[doc.file]] = TornPage]
    BY <1>11 DEF TruncatePostPage, locals, history
  <2>2. \A f \in Files : Slug[f] # Slug[doc.file] => html'[Slug[f]] = html[Slug[f]]
    BY <1>t, <2>1 DEF TypeOK
  <2>3. \A f \in Listed(posts) \ todo : Finished(f, posts, html'[Slug[f]]) \/ Slug[f] = Slug[doc.file]
    BY <2>1, <2>2 DEF RenderInv, Posting, Listed
  <2> QED BY <1>o, <2>1, <2>3 DEF RenderInv, Posting, Listed, Finished
<1>12. CASE WritePostPage
  <2>1. /\ pc = "postWrite" /\ pc' = "post" /\ UNCHANGED <<posts, outcome>>
        /\ html' = [html EXCEPT ![Slug[doc.file]] = doc] /\ todo' = todo \ {doc.file}
    BY <1>12 DEF WritePostPage, history
  <2>2. doc \in PostPage /\ doc.file \in Files
    BY <1>t, <2>1 DEF Rendered, PostPage
  <2>3. doc \notin {NoPage, TornPage}
    BY <2>2, PageAssumption DEF PageAssumption
  <2>4. ASSUME NEW f \in Listed(posts) \ todo' PROVE Finished(f, posts, html'[Slug[f]])
    <3>1. CASE Slug[f] = Slug[doc.file]
      <4>1. html'[Slug[f]] = doc
        BY <1>t, <2>1, <2>2, <3>1 DEF TypeOK
      <4> QED BY <2>1, <2>3, <4>1 DEF Finished, RenderInv
    <3>2. CASE Slug[f] # Slug[doc.file]
      <4>1. f \in Listed(posts) \ todo /\ html'[Slug[f]] = html[Slug[f]]
        BY <1>t, <2>1, <3>2 DEF TypeOK, Listed
      <4> QED BY <2>1, <3>2, <4>1 DEF RenderInv, Posting
    <3> QED BY <3>1, <3>2
  <2>5. todo' \subseteq Listed(posts)
    BY <2>1 DEF RenderInv, Posting
  <2> QED BY <1>o, <2>1, <2>4, <2>5 DEF RenderInv, Posting, Listed, Finished
<1>13. CASE RestyleReports
  <2>1. /\ pc = "post" /\ todo = {} /\ pc' = "idle" /\ UNCHANGED <<page, html>>
    BY <1>13 DEF RestyleReports, Stop, disk
  <2>2. Lists("posts", page["posts"], posts)
    BY <2>1 DEF AgreeInv, Written, PageNames
  <2>3. \A f \in Listed(posts) : Finished(f, posts, html[Slug[f]])
    BY <2>1 DEF RenderInv, Posting
  <2>4. \E P : Lists("posts", page'["posts"], P) /\ \A f \in Listed(P) : Finished(f, P, html'[Slug[f]])
    BY <2>1, <2>2, <2>3
  <2> QED BY <2>1, <2>4 DEF RenderInv, Posting, Lists, Listed, Finished
<1>14. CASE Crash
  BY <1>14, StopRenders DEF Crash
<1>15. CASE UNCHANGED vars
  BY <1>15, StillRenders DEF vars
<1> QED BY <1>1, <1>2, <1>3, <1>4, <1>5, <1>6, <1>7, <1>8, <1>9, <1>10, <1>11, <1>12,
           <1>13, <1>14, <1>15 DEF Next, Author, BuildStep

(* After a build that ran to its end every post that posts.html lists has a *)
(* whole page, no older than what is listed, whatever was edited meanwhile  *)
(* (main, lines 726-729, 553).                                              *)
THEOREM PostPagesHold == Spec => []ListedPostsHavePages
<1> DEFINE Inv == Types /\ AgreeInv /\ VersionInv /\ RenderInv
<1>1. Init => Inv
  <2> SUFFICES ASSUME Init PROVE Inv
    OBVIOUS
  <2>1. VersionInv
    BY DEF Init, VersionInv, Nothing, Absent
  <2>2. AgreeInv /\ RenderInv
    BY DEF Init, AgreeInv, Written, RenderInv, Posting
  <2> QED BY <2>1, <2>2, InitTypes
<1>2. Inv /\ [Next]_vars => Inv'
  BY NextTypes, AgreeInductive, VersionInductive, RenderInductive
<1>3. Inv => ListedPostsHavePages
  <2> SUFFICES ASSUME RenderInv, outcome = "ok", Marked("posts", "POSTS_FULL"),
                      NEW f \in Listed(page["posts"]["POSTS_FULL"].shown)
               PROVE  LET h == html[Slug[f]] IN
                        /\ h \notin {NoPage, TornPage}
                        /\ h.file = f => /\ h.meta = page["posts"]["POSTS_FULL"].shown[f]
                                        /\ h.body.ver >= h.meta.ver
    BY DEF ListedPostsHavePages
  <2>1. PICK P : Lists("posts", page["posts"], P) /\ \A g \in Listed(P) : Finished(g, P, html[Slug[g]])
    BY DEF RenderInv
  <2>2. "POSTS_FULL" \in Sections("posts") /\ ShownPosts("POSTS_FULL", P) = P
    BY DEF Sections, Place, ShownPosts, TagLists
  <2>3. page["posts"]["POSTS_FULL"].shown = P
    BY <2>1, <2>2 DEF Lists, Marked
  <2> QED BY <2>1, <2>3 DEF Finished
<1> QED BY <1>1, <1>2, <1>3, PTL DEF Spec

----------------------------------------------------------------------------
(* The posts that the sources call for. *)
Wanted == [f \in Files |-> Parsed(src[f])]

(* A page whose sections show P and the reports on disk, as far as it still *)
(* has their markers.                                                       *)
Shows(p, text, P, C) ==
    \A s \in Sections(p) : text[s] # NoMarker =>
        text[s].shown = ShownPosts(s, P) /\ text[s].reports = ShownReports(s, C)

(* The page of f is made of its present source. *)
Fresh(f) == html[Slug[f]] = [file |-> f, meta |-> src[f], body |-> src[f]]

(* No post of the same slug among S is older. *)
OldestOf(f, S) == \A g \in S : Slug[g] = Slug[f] => Rank[f] <= Rank[g]

(* Inductive strengthening of CleanBuildIsCurrent, for a build whose        *)
(* sources did not change: what it has parsed, generated, written and       *)
(* rendered so far is what they call for.  The posts to render are older    *)
(* than all rendered ones, so the oldest of a slug has the last word.       *)
Building == pc # "idle"
CurrentInv ==
    /\ Building /\ clean =>
        /\ pc = "parse" => \A f \in Files \ todo : posts[f] = Parsed(src[f])
        /\ pc # "parse" => posts = Wanted /\ cards = onDisk
        /\ \A p \in Written : Shows(p, page[p], posts, cards)
        /\ pc \in {"truncate", "write"} => Shows(at, buf, posts, cards)
        /\ Posting => \A f \in Listed(posts) \ todo : \A g \in todo : Rank[g] < Rank[f]
        /\ pc \in {"postTruncate", "postWrite"} =>
              IsNewest(doc.file, todo) /\ doc = [file |-> doc.file, meta |-> src[doc.file], body |-> src[doc.file]]
        /\ Posting => \A f \in Listed(posts) \ todo : OldestOf(f, Listed(posts) \ todo) =>
              Fresh(f) \/ (pc = "postWrite" /\ Slug[f] = Slug[doc.file])
    /\ outcome = "ok" => ~Building
    /\ outcome = "ok" /\ clean => Current
    /\ ~Building => posts = Nothing

LEMMA RegeneratedShowsAll ==
    ASSUME NEW p, NEW P, NEW C PROVE Shows(p, Regenerated(p, P, C), P, C)
<1> SUFFICES ASSUME NEW s \in Sections(p), Regenerated(p, P, C)[s] # NoMarker
             PROVE  /\ Regenerated(p, P, C)[s].shown = ShownPosts(s, P)
                    /\ Regenerated(p, P, C)[s].reports = ShownReports(s, C)
  BY DEF Shows
<1>1. Regenerated(p, P, C)[s] = Sub(s, page[p][s], Gen(s, P, C))
  BY DEF Regenerated
<1>2. Sub(s, page[p][s], Gen(s, P, C)).reports = Gen(s, P, C).reports
  BY <1>1 DEF Sub, Gen
<1> QED BY <1>1, <1>2, RegeneratedShows DEF Gen

LEMMA ListedIsSource == ASSUME NEW f \in Files, IsPost(Wanted[f]) PROVE Wanted[f] = src[f]
BY DEF Wanted, Parsed, IsPost, Absent

LEMMA StopIsCurrent ==
    ASSUME NEW how \in {"aborted", "crashed"}, Stop(how)
    PROVE  CurrentInv'
BY DEF Stop, CurrentInv, Building

LEMMA AbortIsCurrent == ASSUME Abort PROVE CurrentInv'
BY StopIsCurrent DEF Abort

(* An edit ends the claim, whether a build runs or not. *)
LEMMA EditIsCurrent ==
    ASSUME CurrentInv, clean' = FALSE, UNCHANGED <<pc, posts, outcome>>
    PROVE  CurrentInv'
BY DEF CurrentInv, Building

(* Nothing has happened. *)
LEMMA StillCurrent == ASSUME CurrentInv, UNCHANGED vars PROVE CurrentInv'
BY DEF CurrentInv, Building, vars, Wanted, Shows, Written, Earlier, Posting, Listed, IsNewest, OldestOf, Fresh, Current, Marked

LEMMA CurrentInductive == Types /\ AgreeInv /\ RenderInv /\ CurrentInv /\ [Next]_vars => CurrentInv'
<1> SUFFICES ASSUME Types, AgreeInv, RenderInv, CurrentInv, [Next]_vars PROVE CurrentInv'
  OBVIOUS
<1>t. TypeOK /\ Rendered
  BY DEF Types
<1>o. pc # "idle" => outcome # "ok"
  BY DEF AgreeInv
<1> USE DEF Building
<1>1. ASSUME NEW f \in Files, NEW kind \in Saved, SavePost(f, kind)
      PROVE  CurrentInv'
  BY <1>1, EditIsCurrent DEF SavePost, locals
<1>2. ASSUME NEW f \in Files, DeletePost(f) PROVE CurrentInv'
  BY <1>2, EditIsCurrent DEF DeletePost, locals
<1>3. ASSUME NEW R \in SUBSET Reports, SyncReports(R) PROVE CurrentInv'
  BY <1>3, EditIsCurrent DEF SyncReports, locals
<1>4. CASE StartBuild
  <2>1. /\ pc' = "parse" /\ posts' = Nothing /\ src' = src /\ outcome' # "ok"
        /\ todo' = {f \in Files : src[f] # Absent}
    BY <1>4 DEF StartBuild, CurrentInv, sources
  <2>2. \A f \in Files \ todo' : posts'[f] = Parsed(src'[f])
    BY <2>1 DEF Nothing, Parsed
  <2> QED BY <2>1, <2>2 DEF CurrentInv, Written, Posting
<1>5. CASE ParsePost
  <2>1. CASE Abort
    BY <2>1, AbortIsCurrent
  <2>2. CASE ~Abort
    <3>1. PICK f \in todo : /\ posts' = [posts EXCEPT ![f] = Parsed(src[f])] /\ todo' = todo \ {f}
                            /\ pc = "parse" /\ UNCHANGED <<src, pc, outcome, clean>>
      BY <1>5, <2>2 DEF ParsePost, sources, history
    <3>2. clean => \A g \in Files \ todo' : posts'[g] = Parsed(src'[g])
      BY <1>t, <3>1 DEF CurrentInv, TypeOK
    <3> QED BY <1>o, <3>1, <3>2 DEF CurrentInv, Written, Posting
  <2> QED BY <2>1, <2>2
<1>6. CASE Generate
  <2>1. /\ pc = "parse" /\ todo = {} /\ pc' = "read" /\ cards' = onDisk /\ at = "index"
        /\ UNCHANGED <<src, onDisk, at, posts, page, outcome, clean>>
    BY <1>6 DEF Generate, AgreeInv, sources, disk, history
  <2>2. clean => posts = Wanted
    BY <1>t, <2>1 DEF CurrentInv, Wanted, TypeOK
  <2> QED BY <1>o, <2>1, <2>2 DEF CurrentInv, Wanted, Written, Earlier, Posting
<1>7. CASE ReadPage
  <2>1. CASE Abort
    BY <2>1, AbortIsCurrent
  <2>2. CASE ~Abort
    <3>1. /\ pc = "read" /\ pc' = "truncate" /\ buf' = Regenerated(at, posts, cards)
          /\ UNCHANGED <<src, onDisk, page, at, posts, cards, outcome, clean>>
      BY <1>7, <2>2 DEF ReadPage, sources, disk, history
    <3>2. Shows(at, buf', posts, cards)
      BY <3>1, RegeneratedShowsAll
    <3> QED BY <1>o, <3>1, <3>2 DEF CurrentInv, Wanted, Written, Posting, Shows
  <2> QED BY <2>1, <2>2
<1>8. CASE TruncatePage \/ FlushPage
  <2>1. /\ pc \in {"truncate", "write"} /\ pc' = "write"
        /\ UNCHANGED <<src, onDisk, at, buf, posts, cards, outcome, clean>>
        /\ \A p \in PageNames \ {at} : page'[p] = page[p]
    BY <1>8, <1>t DEF TruncatePage, FlushPage, TypeOK, sources, locals, history
  <2>2. Written' = Written /\ Written \subseteq PageNames \ {at}
    BY <2>1 DEF Written, Earlier, PageNames
  <2> QED BY <1>o, <2>1, <2>2 DEF CurrentInv, Wanted, Posting, Shows
<1>9. CASE WritePage
  <2>1. /\ pc = "write" /\ pc' \in {"read", "post"}
        /\ UNCHANGED <<src, onDisk, posts, cards, outcome, clean>>
        /\ (pc' = "post" => todo' = Listed(posts))
    BY <1>9 DEF WritePage, ToRender, sources, history
  <2>2. Written' \subseteq Written \cup {at}
    BY <1>9 DEF WritePage, Written, Earlier, NextPage, PageNames
  <2>3. \A p \in Written \cup {at} : page'[p] = IF p = at THEN buf ELSE page[p]
    BY <1>9, <1>t DEF WritePage, Written, Earlier, PageNames, TypeOK
  <2>4. clean => \A p \in Written' : Shows(p, page'[p], posts, cards)
    BY <2>1, <2>2, <2>3 DEF CurrentInv
  <2>5. clean => posts = Wanted /\ cards = onDisk
    BY <2>1 DEF CurrentInv
  <2> QED BY <1>o, <2>1, <2>4, <2>5 DEF CurrentInv, Wanted, Posting, Shows, Listed
<1>10. CASE RenderPost
  <2>1. CASE Abort
    BY <2>1, AbortIsCurrent
  <2>2. CASE ~Abort
    <3>1. PICK f \in todo : /\ IsNewest(f, todo)
                            /\ doc' = [file |-> f, meta |-> posts[f], body |-> src[f]]
                            /\ pc = "post" /\ pc' = "postTruncate"
                            /\ UNCHANGED <<src, onDisk, page, html, todo, posts, cards, outcome, clean>>
      BY <1>10, <2>2 DEF RenderPost, sources, disk, history
    <3>2. f \in Listed(posts)
      BY <3>1 DEF RenderInv, Posting
    <3>3. clean => posts[f] = src[f]
      BY <3>1, <3>2, ListedIsSource DEF CurrentInv, Listed
    <3>4. doc'.file = f
      BY <3>1
    <3>5. clean => doc' = [file |-> doc'.file, meta |-> src[doc'.file], body |-> src[doc'.file]]
      BY <3>1, <3>3, <3>4
    <3>6. Written' = Written
      BY <3>1 DEF Written
    <3>7. IsNewest(doc'.file, todo)
      BY <3>1, <3>4
    <3> QED BY <1>o, <3>1, <3>5, <3>6, <3>7
            DEF CurrentInv, Wanted, Posting, Shows, Listed, OldestOf, Fresh, IsNewest
  <2> QED BY <2>1, <2>2
<1>11. CASE TruncatePostPage
  <2>1. /\ pc = "postTruncate" /\ pc' = "postWrite"
        /\ UNCHANGED <<src, onDisk, page, todo, posts, cards, doc, outcome, clean>>
        /\ html' = [html EXCEPT ![Slug[doc.file]] = TornPage]
    BY <1>11 DEF TruncatePostPage, sources, locals, history
  <2>2. Written' = Written
    BY <2>1 DEF Written
  <2>3. \A f \in Files : Slug[f] # Slug[doc.file] => html'[Slug[f]] = html[Slug[f]]
    BY <1>t, <2>1 DEF TypeOK
  <2>4. clean => \A f \in Listed(posts) \ todo : OldestOf(f, Listed(posts) \ todo) =>
                     Fresh(f)' \/ Slug[f] = Slug[doc.file]
    BY <2>1, <2>3 DEF CurrentInv, Posting, Fresh, Listed
  <2> QED BY <1>o, <2>1, <2>2, <2>4 DEF CurrentInv, Wanted, Posting, Shows, Listed, OldestOf, IsNewest
<1>12. CASE WritePostPage
  <2> DEFINE d == doc.file
             Done == Listed(posts) \ todo
             DoneNow == Listed(posts) \ todo'
  <2>1. /\ pc = "postWrite" /\ pc' = "post"
        /\ UNCHANGED <<src, onDisk, page, posts, cards, outcome, clean>>
        /\ html' = [html EXCEPT ![Slug[d]] = doc] /\ todo' = todo \ {d}
    BY <1>12 DEF WritePostPage, sources, history
  <2>2. Written' = Written
    BY <2>1 DEF Written
  <2>3. d \in todo /\ todo \subseteq Listed(posts) /\ Listed(posts) \subseteq Files /\ DoneNow = Done \cup {d}
    BY <2>1 DEF RenderInv, Posting, Listed
  <2>4. ASSUME clean PROVE /\ \A f \in Done, g \in todo : Rank[g] < Rank[f]
                           /\ IsNewest(d, todo) /\ doc = [file |-> d, meta |-> src[d], body |-> src[d]]
    BY <2>1, <2>4 DEF CurrentInv, Posting
  <2>5. ASSUME clean, NEW f \in DoneNow, NEW g \in todo' PROVE Rank[g] < Rank[f]
    <3>1. CASE f = d
      <4>1. Rank[g] <= Rank[d] /\ g # d /\ Rank[g] \in Nat /\ Rank[d] \in Nat
        BY <2>1, <2>3, <2>4, <2>5 DEF IsNewest
      <4>2. Rank[g] # Rank[d]
        BY <2>1, <2>3, <4>1
      <4> QED BY <3>1, <4>1, <4>2
    <3>2. CASE f # d
      BY <2>1, <2>3, <2>4, <2>5, <3>2
    <3> QED BY <3>1, <3>2
  <2>6. ASSUME clean, NEW f \in DoneNow, OldestOf(f, DoneNow) PROVE Fresh(f)'
    <3>1. CASE Slug[f] = Slug[d]
      <4>1. f = d
        <5>1. Rank[f] <= Rank[d] /\ Rank[f] \in Nat /\ Rank[d] \in Nat
          BY <2>3, <2>6, <3>1 DEF OldestOf
        <5>2. f # d => Rank[d] < Rank[f]
          BY <2>3, <2>4, <2>6
        <5> QED BY <5>1, <5>2
      <4>2. html'[Slug[d]] = doc
        BY <1>t, <2>1, <2>3 DEF TypeOK
      <4> QED BY <2>1, <2>4, <2>6, <4>1, <4>2 DEF Fresh
    <3>2. CASE Slug[f] # Slug[d]
      <4>1. f \in Done /\ OldestOf(f, Done)
        BY <2>3, <2>6, <3>2 DEF OldestOf
      <4>2. Fresh(f)
        BY <2>1, <2>6, <3>2, <4>1 DEF CurrentInv, Posting
      <4>3. html'[Slug[f]] = html[Slug[f]]
        BY <1>t, <2>1, <2>3, <3>2 DEF TypeOK
      <4> QED BY <2>1, <4>2, <4>3 DEF Fresh
    <3> QED BY <3>1, <3>2
  <2>7. clean => \A f \in DoneNow : \A g \in todo' : Rank[g] < Rank[f]
    BY <2>5
  <2>8. clean => \A f \in DoneNow : OldestOf(f, DoneNow) => Fresh(f)'
    BY <2>6
  <2>9. Listed(posts') \ todo' = DoneNow
    BY <2>1
  <2> QED BY <1>o, <2>1, <2>2, <2>7, <2>8 DEF CurrentInv, Wanted, Posting, Shows, Listed, OldestOf
<1>13. CASE RestyleReports
  <2>1. /\ pc = "post" /\ todo = {} /\ UNCHANGED <<src, onDisk, page, html, clean>>
        /\ pc' = "idle" /\ posts' = Nothing
    BY <1>13 DEF RestyleReports, Stop, sources, disk
  <2>2. ASSUME clean PROVE Current
    <3>1. posts = Wanted /\ cards = onDisk /\ \A p \in PageNames : Shows(p, page[p], posts, cards)
      BY <2>1, <2>2 DEF CurrentInv, Written
    <3>2. \A f \in Listed(Wanted) : OldestOf(f, Listed(Wanted)) => Fresh(f)
      BY <2>1, <2>2, <3>1 DEF CurrentInv, Posting
    <3>3. [f \in Files |-> IF IsPost(src[f]) THEN src[f] ELSE Absent] = Wanted
      BY DEF Wanted, Parsed
    <3>4. \A p \in PageNames : \A s \in Sections(p) :
             Marked(p, s) => /\ page[p][s].shown = ShownPosts(s, Wanted)
                             /\ page[p][s].reports = ShownReports(s, onDisk)
      BY <3>1 DEF Shows, Marked
    <3> QED BY <3>2, <3>3, <3>4 DEF Current, OldestOf, Fresh
  <2>3. clean' => Current'
    BY <2>1, <2>2 DEF Current, Marked
  <2> QED BY <2>1, <2>3 DEF CurrentInv
<1>14. CASE Crash
  BY <1>14, StopIsCurrent DEF Crash
<1>15. CASE UNCHANGED vars
  BY <1>15, StillCurrent
<1> QED BY <1>1, <1>2, <1>3, <1>4, <1>5, <1>6, <1>7, <1>8, <1>9, <1>10, <1>11, <1>12,
           <1>13, <1>14, <1>15 DEF Next, Author, BuildStep

(* Whatever was killed or aborted before, a build that ran to its end on    *)
(* sources that did not change leaves every section that still has its      *)
(* markers, and the pages of the posts, as the sources call for (main,      *)
(* lines 675-733).                                                          *)
THEOREM CleanBuildHolds == Spec => []CleanBuildIsCurrent
<1> DEFINE Inv == Types /\ AgreeInv /\ VersionInv /\ RenderInv /\ CurrentInv
<1>1. Init => Inv
  <2> SUFFICES ASSUME Init PROVE Inv
    OBVIOUS
  <2>1. VersionInv
    BY DEF Init, VersionInv, Nothing, Absent
  <2>2. AgreeInv /\ RenderInv /\ CurrentInv
    BY DEF Init, AgreeInv, Written, RenderInv, Posting, CurrentInv, Building
  <2> QED BY <2>1, <2>2, InitTypes
<1>2. Inv /\ [Next]_vars => Inv'
  BY NextTypes, AgreeInductive, VersionInductive, RenderInductive, CurrentInductive
<1>3. Inv => CleanBuildIsCurrent
  BY DEF CurrentInv, CleanBuildIsCurrent
<1> QED BY <1>1, <1>2, <1>3, PTL DEF Spec
=============================================================================
