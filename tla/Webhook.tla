------------------------------- MODULE Webhook -------------------------------
(***************************************************************************)
(* What the handlers of internal/web/webhook accept, and what the columns  *)
(* of migrations/001__create_table_builds.sql can hold.  Of a text the     *)
(* model has its length in bytes, at least its length in characters, and   *)
(* the facts the handlers test.  An answer other than the one of           *)
(* CreateBuild changes nothing: all that is modelled of it is that it is   *)
(* given, or that the handler panics, which net/http recovers from.        *)
(***************************************************************************)
EXTENDS Naturals

CONSTANT Configured    \* the repositories in the configuration

Meta == [ref : Nat, inRefs : BOOLEAN, sha : Nat, hex : BOOLEAN, author : Nat,
         message : Nat, splits : BOOLEAN,    \* byte 1000 is within a character
         nul : BOOLEAN,                      \* there is a NUL in a text
         link : Nat, https : BOOLEAN]

Request == [route : {"github", "manual"}, push : BOOLEAN, authentic : BOOLEAN,
            wellFormed : BOOLEAN, repo : Configured \cup {"unknown"},
            headCommit : BOOLEAN, meta : Meta]

MaxRef == 255
ShaLength == 40
MaxAuthor == 100
MaxMessage == 1000
MaxLink == 255

(***************************************************************************)
(* A mutant: one byte too many.                                            *)
(***************************************************************************)
ValidLongLink(m) ==
    /\ m.ref # 0 /\ m.inRefs /\ m.ref <= MaxRef
    /\ m.sha = ShaLength /\ m.hex
    /\ m.author # 0 /\ m.author <= MaxAuthor
    /\ (m.link # 0 => m.https) /\ m.link <= MaxLink + 1

Valid(m) ==
    /\ m.ref # 0 /\ m.inRefs /\ m.ref <= MaxRef
    /\ m.sha = ShaLength /\ m.hex
    /\ m.author # 0 /\ m.author <= MaxAuthor
    /\ (m.link # 0 => m.https) /\ m.link <= MaxLink

(***************************************************************************)
(* sanitizeBuild cuts a message at MaxMessage bytes.                       *)
(***************************************************************************)
CutsCharacter(m) == m.message > MaxMessage /\ m.splits

(***************************************************************************)
(* VARCHAR columns have a length; text is UTF-8 without NUL.  (Of a text in*)
(* JSON that is no UTF-8 encoding/json makes one that is.)                 *)
(***************************************************************************)
Storable(m) ==
    /\ m.ref <= 255 /\ m.link <= 255 /\ m.author <= 255
    /\ m.sha <= 40
    /\ ~CutsCharacter(m) /\ ~m.nul

(***************************************************************************)
(* HandleGitHub takes a push event with a readable body, the right         *)
(* signature, JSON of the right shape and a head commit.                   *)
(***************************************************************************)
AcceptsGitHub(request) ==
    /\ request.push
    /\ request.authentic
    /\ request.wellFormed
    /\ request.repo \in Configured
    /\ request.headCommit
    /\ Valid(request.meta)

(***************************************************************************)
(* The password check of internal/web/auth, here in front of HandleManual, *)
(* which takes JSON without unknown fields.                                *)
(***************************************************************************)
Middleware(request) == request.authentic

AcceptsManual(request) ==
    /\ Middleware(request)
    /\ request.wellFormed
    /\ request.repo \in Configured
    /\ Valid(request.meta)

Accepts(request) ==
    IF request.route = "github" THEN AcceptsGitHub(request)
                                ELSE AcceptsManual(request)
=============================================================================
