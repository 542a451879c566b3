-------------------------- MODULE ReviewerEvidence --------------------------
(***************************************************************************)
(* The reviewer evidence: build_reviewer_evidence_manifest.py writes a     *)
(* manifest of claims and two views of it, validate_reviewer_evidence_     *)
(* manifest.py judges the three files against the Git history, the sources *)
(* and tests the claims cite, and the manifest its own code would build.   *)
(* Developers edit, stage, commit and rewrite history in between; the      *)
(* generator may be killed between two of its three replacements.          *)
(***************************************************************************)
EXTENDS Naturals, Sequences

CONSTANT MaxChanges   \* bound: changes by developers

Public == <<"json", "markdown", "readme">>
Cited == {"authority", "test", "prior_art"}
Paths == {"json", "markdown", "readme", "receipt", "pyproject"} \cup Cited

\* What the generator's constants and runtime definitions say: as reviewed, with
\* a fact that left its frozen value, with a live stop claimed as one, with a
\* live stop claimed in the words of a local claim.
Code == {"reviewed", "drifted", "live", "boast"}

\* Manifests by what they say.  Nobody's code builds the last two: a live claim
\* with a receipt listed, and one with private material in a text.
Manifest == Code \cup {"live_with_receipt", "private"}

Content(path) ==
    CASE path = "json"      -> Manifest \cup {"absent", "unreadable"}
      [] path = "markdown"  -> Manifest \cup {"absent"}
      [] path = "readme"    -> {"rendered", "edited", "absent"}
      [] path = "receipt"   -> {"valid", "invalid", "absent"}
      [] path = "pyproject" -> {"pinned", "edited"}
      [] OTHER              -> {"anchored", "edited", "absent"}

VARIABLES work,     \* the worktree
          index,    \* what is staged
          head,     \* what HEAD has
          history,  \* every anchor is an ancestor, no graft, replacement or moved tag
          code,     \* the sources of generator and validator
          gen,      \* the generator process
          val,      \* the validator process
          changes,
          disturbed \* history: the tree changed under the running validation

vars == <<work, index, head, history, code, gen, val, changes, disturbed>>
tree == <<work, index, head, history, code, changes>>

IdleGenerator == [pc |-> "idle", code |-> "reviewed", status |-> "none"]
IdleValidator ==
    [pc |-> "idle", code |-> "reviewed", doc |-> "absent", clean |-> TRUE, at |-> 1,
     status |-> "none"]

TypeOK ==
    /\ \A t \in {work, index, head} : DOMAIN t = Paths /\ \A p \in Paths : t[p] \in Content(p)
    /\ history \in BOOLEAN /\ code \in Code /\ changes \in 0..MaxChanges
    /\ gen.code \in Code /\ gen.status \in {"none", "PASS", "FAIL"}
    /\ val.code \in Code /\ val.status \in {"none", "PASS", "FAIL"}
    /\ val.doc \in Content("json") /\ val.at \in 1..3

\* Somebody committed manifest m with its view.
Checkout(m) ==
    [p \in Paths |-> CASE p \in {"json", "markdown"} -> m
                       [] p = "readme"    -> "rendered"
                       [] p = "receipt"   -> IF m = "live_with_receipt" THEN "valid" ELSE "absent"
                       [] p = "pyproject" -> "pinned"
                       [] OTHER           -> "anchored"]

Init ==
    /\ \E m \in Manifest : work = Checkout(m)
    /\ index = work /\ head = work
    /\ history = TRUE /\ changes = 0
    /\ code \in {"reviewed"} \cup ({work["json"]} \cap Code)
    /\ gen = IdleGenerator /\ val = IdleValidator /\ disturbed = FALSE

-----------------------------------------------------------------------------
(* Rendering *)
\* project_strands_requirement raises unless the reviewed pin is the only one
project_strands_requirement == work["pyproject"] = "pinned"
build_manifest(c) == c
render_markdown(doc) == doc
render_evidence_readme == "rendered"

-----------------------------------------------------------------------------
(* The generator.  --check only compares. *)
GenKeeps == UNCHANGED <<index, head, history, code, val, changes>>

Generate(check) ==
    /\ gen.pc = "idle"
    /\ gen' = IF project_strands_requirement
              THEN [gen EXCEPT !.pc = IF check THEN "compare" ELSE "json", !.code = code]
              ELSE [gen EXCEPT !.status = "FAIL"]
    /\ UNCHANGED work /\ GenKeeps

Rendering(path) ==
    CASE path = "json"     -> build_manifest(gen.code)
      [] path = "markdown" -> render_markdown(build_manifest(gen.code))
      [] OTHER             -> render_evidence_readme

Drift == \E i \in 1..3 : work[Public[i]] # Rendering(Public[i])

Compare ==
    /\ gen.pc = "compare"
    /\ gen' = [IdleGenerator EXCEPT !.status = IF Drift THEN "FAIL" ELSE "PASS"]
    /\ UNCHANGED work /\ GenKeeps

\* _write_if_changed: one atomic replacement per file, each of which may fail
Write(path, next) ==
    /\ gen.pc = path
    /\ \/ /\ work' = [work EXCEPT ![path] = Rendering(path)]
          /\ gen' = IF next = "done" THEN [IdleGenerator EXCEPT !.status = "PASS"]
                    ELSE [gen EXCEPT !.pc = next]
       \/ UNCHANGED work /\ gen' = [IdleGenerator EXCEPT !.status = "FAIL"]
    /\ GenKeeps

Killed ==
    /\ gen.pc # "idle"
    /\ gen' = IdleGenerator
    /\ UNCHANGED work /\ GenKeeps

build_main ==
    \/ \E check \in BOOLEAN : Generate(check)
    \/ Compare
    \/ Write("json", "markdown") \/ Write("markdown", "readme") \/ Write("readme", "done")
    \/ Killed

-----------------------------------------------------------------------------
(* The validator.  `clean` holds until a reason code is recorded. *)
ValKeeps == UNCHANGED <<tree, gen>>
Judge(next, ok) == val' = [val EXCEPT !.pc = next, !.clean = @ /\ ok]
Verdict(status) == val' = [IdleValidator EXCEPT !.status = status]

Validate ==
    /\ val.pc = "idle"
    /\ val' = [IdleValidator EXCEPT !.pc = "paths", !.code = code]
    /\ ValKeeps

\* the path is a regular file, tracked, and the worktree holds the staged blob
worktree_blob(path) == index[path] # "absent" /\ work[path] = index[path]

CheckPaths ==
    /\ val.pc = "paths"
    /\ LET ok == val.clean /\ worktree_blob(Public[val.at]) IN
       val' = IF val.at < 3 THEN [val EXCEPT !.at = @ + 1, !.clean = ok]
              ELSE IF ok THEN [val EXCEPT !.pc = "load"]
              ELSE [IdleValidator EXCEPT !.status = "FAIL"]
    /\ ValKeeps

\* a manifest that is not canonical is refused later; here it counts as unreadable
load_manifest ==
    /\ val.pc = "load"
    /\ val' = IF work["json"] \in Manifest
              THEN [val EXCEPT !.pc = "facts", !.doc = work["json"]]
              ELSE [IdleValidator EXCEPT !.status = "FAIL"]
    /\ ValKeeps

\* collect_runtime_facts and collect_frozen_facts; what they raise is one reason
\* and the rest of validate_manifest is skipped.
CollectFacts ==
    /\ val.pc = "facts"
    /\ IF project_strands_requirement /\ history
       THEN Judge("manifest", TRUE) ELSE Judge("views", FALSE)
    /\ ValKeeps

frozen_facts_agree(c) == c # "drifted"
scan_private_material(doc) == doc = "private"
validate_schema(doc) == doc \in Manifest
\* the facts the manifest states are those of the validator's own code
validate_snapshot(doc, c) == (doc = "drifted") = (c = "drifted") /\ frozen_facts_agree(c)
validate_day15_candidate_snapshot(doc, c) == validate_snapshot(doc, c)

ValidateManifest ==
    /\ val.pc = "manifest"
    /\ Judge("authority", /\ validate_schema(val.doc) /\ ~scan_private_material(val.doc)
                          /\ validate_snapshot(val.doc, val.code)
                          /\ validate_day15_candidate_snapshot(val.doc, val.code))
    /\ ValKeeps

\* The cited file exists at the anchor, is staged as it is, and has not changed
\* since: locators found at the anchor are found now.
anchored_blob(path) == history /\ worktree_blob(path) /\ work[path] = "anchored"

asserts_positive_live_mutation(doc) == doc \in {"live", "boast", "live_with_receipt"}
misclassified(doc) == doc = "boast"

ValidateAuthoritySource ==
    /\ val.pc = "authority"
    /\ Judge("test", anchored_blob("authority") /\ ~misclassified(val.doc))
    /\ ValKeeps

ValidateTestNode ==
    /\ val.pc = "test"
    /\ Judge("receipts", anchored_blob("test"))
    /\ ValKeeps

\* A receipt counts when HEAD has it as it is staged and on disk, and its own
\* document is the sanitized one the claim needs.
accepted_receipt ==
    /\ val.doc = "live_with_receipt"
    /\ worktree_blob("receipt") /\ head["receipt"] = index["receipt"]
    /\ work["receipt"] = "valid"

ValidateReceipts ==
    /\ val.pc = "receipts"
    /\ Judge("anchors", /\ asserts_positive_live_mutation(val.doc) => accepted_receipt
                        /\ val.doc = "live_with_receipt" => accepted_receipt)
    /\ ValKeeps

ValidateGitAnchors ==
    /\ val.pc = "anchors"
    /\ Judge("views", history /\ anchored_blob("prior_art"))
    /\ ValKeeps

\* Mutant: the views are not compared with the manifest.
CompareViewsUnread ==
    /\ val.pc = "views"
    /\ Judge("rebuild", work["json"] = val.doc)
    /\ ValKeeps

\* the files are read again, after the manifest was judged
CompareViews ==
    /\ val.pc = "views"
    /\ Judge("rebuild", /\ work["json"] = val.doc
                        /\ work["markdown"] = render_markdown(val.doc)
                        /\ work["readme"] = render_evidence_readme)
    /\ ValKeeps

Rebuild ==
    /\ val.pc = "rebuild"
    /\ Judge("count", project_strands_requirement /\ val.doc = build_manifest(val.code))
    /\ ValKeeps

\* main counts the claims of what it loads once more
CountClaims ==
    /\ val.pc = "count"
    /\ Verdict(IF val.clean /\ work["json"] \in Manifest THEN "PASS" ELSE "FAIL")
    /\ ValKeeps

validate_main ==
    \/ Validate \/ CheckPaths \/ load_manifest \/ CollectFacts \/ ValidateManifest
    \/ ValidateAuthoritySource \/ ValidateTestNode \/ ValidateReceipts
    \/ ValidateGitAnchors \/ CompareViews \/ Rebuild \/ CountClaims

-----------------------------------------------------------------------------
(* Developers *)
Developer == changes < MaxChanges /\ changes' = changes + 1 /\ UNCHANGED <<gen, val>>

EditFile ==
    /\ Developer
    /\ \E p \in Paths : \E c \in Content(p) \ {work[p]} : work' = [work EXCEPT ![p] = c]
    /\ UNCHANGED <<index, head, history, code>>

EditCode ==
    /\ Developer
    /\ \E c \in Code \ {code} : code' = c
    /\ UNCHANGED <<work, index, head, history>>

StageAll ==
    /\ index # work /\ index' = work
    /\ UNCHANGED <<work, head, history, code, gen, val, changes>>

Commit ==
    /\ head # index /\ head' = index
    /\ UNCHANGED <<work, index, history, code, gen, val, changes>>

RewriteHistory ==
    /\ Developer
    /\ history /\ history' = FALSE
    /\ UNCHANGED <<work, index, head, code>>

Next ==
    /\ \/ build_main \/ validate_main
       \/ EditFile \/ EditCode \/ StageAll \/ Commit \/ RewriteHistory
    /\ disturbed' = (val.pc # "idle" /\ (disturbed \/ tree' # tree))

Spec == Init /\ [][Next]_vars

-----------------------------------------------------------------------------
\* What a reviewer may rely on: the three files are the reviewed manifest and its
\* views, they and everything cited are staged as they stand, nothing cited has
\* changed since its anchor, and the anchors are in the history.
Reviewable ==
    /\ work["json"] = "reviewed" /\ work["markdown"] = "reviewed" /\ work["readme"] = "rendered"
    /\ \A p \in Cited : work[p] = "anchored"
    /\ \A p \in Cited \cup {"json", "markdown", "readme"} : index[p] = work[p]
    /\ work["pyproject"] = "pinned" /\ history

\* Undisturbed, the validator passes exactly the trees a reviewer may rely on, so
\* a set the generator was killed in the middle of never passes and a whole one
\* always does; disturbed, it still passes no manifest but the reviewed one.
ExactVerdict ==
    val.pc # "idle" /\ val'.pc = "idle" =>
        /\ ~disturbed => (val'.status = "PASS" <=> Reviewable /\ val.code = "reviewed")
        /\ val'.status = "PASS" => val.doc = "reviewed"
=============================================================================
