------------------------------ MODULE IgnoreRules ------------------------------
(***************************************************************************)
(* What a traversal of a checkout leaves out: the operator's patterns and  *)
(* the repository's own (internal/config/ignore.go, internal/repos), then  *)
(* git's rules (pkg/gitignore).  Three readers have to agree on it: the    *)
(* walk of a full pass, which prunes directories; the commit path, which   *)
(* asks about one file; and the watcher, which keeps one matcher and its   *)
(* cached verdicts until a .gitignore changes.                              *)
(*                                                                         *)
(* A path is the sequence of its components.  A .gitignore line is what    *)
(* parseLine keeps of it: [negate, dirOnly, anchored, inside, parts],      *)
(* inside standing for a trailing slash and two stars.                     *)
(***************************************************************************)
EXTENDS Integers, Sequences, FiniteSets, SequencesExt

CONSTANTS
    TreeDirs, TreeFiles,    \* the checkout's directories and files, as paths
    RootLines, DirLines,    \* what a .gitignore may say, at the root and below it
    ExcludeLines,           \* what .git/info/exclude may say
    Configured,             \* repos.ignore and the manifest's patterns, sets of [form, parts]
    Beginning,              \* name -> the names that begin with it, itself included
    MaxRuleEdits            \* bound: edits of the checkout

ASSUME IgnoreRulesAssumption ==
    /\ MaxRuleEdits \in Nat
    /\ \A p \in TreeDirs \cup TreeFiles : p # <<>> /\ \A n \in 1 .. Len(p) - 1 : SubSeq(p, 1, n) \in TreeDirs

VARIABLES
    checkout,   \* [ignores: directory -> lines, exclude, tracked, patterns]
    verdicts,    \* the watcher's matcher: the verdicts it has cached, per file
    unseen,     \* .gitignore edits whose event the watcher has not handled
    outdated,   \* history: the matcher was built before another kind of edit
    ruleEdits

ruleVars == <<checkout, verdicts, unseen, outdated, ruleEdits>>

Parent(p) == SubSeq(p, 1, Len(p) - 1)
Ancestors(p) == {SubSeq(p, 1, n) : n \in 1 .. Len(p) - 1}
relTo(base, p) == SubSeq(p, Len(base) + 1, Len(p))

-----------------------------------------------------------------------------
(* pkg/gitignore *)

(* doublestar on the glob parseLine makes: at any depth without a slash, else from *)
(* the directory of the file, and strictly below it for a trailing "/**".          *)
globMatches(l, rel) ==
    IF ~l.anchored THEN Last(rel) = l.parts[1]
    ELSE IF l.inside THEN Len(rel) > Len(l.parts) /\ IsPrefix(l.parts, rel)
    ELSE rel = l.parts

(* matchIn: the last line that matches decides.                                    *)
matchIn(lines, rel, isDir) ==
    LET hits == {i \in DOMAIN lines : (lines[i].dirOnly => isDir) /\ globMatches(lines[i], rel)}
    IN IF hits = {} THEN "none"
       ELSE IF lines[CHOOSE i \in hits : \A j \in hits : j <= i].negate THEN "keep" ELSE "drop"

(* match: from the path's own directory up, then .git/info/exclude.                *)
match(p, isDir) ==
    LET Verdict[n \in 0 .. Len(p) - 1] ==
            LET base == SubSeq(p, 1, n)
                v == matchIn(checkout.ignores[base], relTo(base, p), isDir)
            IN IF v # "none" THEN v
               ELSE IF n > 0 THEN Verdict[n - 1]
               ELSE matchIn(checkout.exclude, p, isDir)
    IN Verdict[Len(p) - 1] = "drop"

(* isTracked: a tracked file, or a directory that holds one.                       *)
isTracked(p) == \E f \in checkout.tracked : IsPrefix(p, f)

(* Mutant of dirExcluded: a directory kept for its tracked files is not excluded. *)
dirExcludedRescued(d) == \E a \in Ancestors(d) \cup {d} : match(a, TRUE) /\ ~isTracked(a)

(* dirExcluded: the directory or one above it, before the rescue of tracked files.  *)
dirExcluded(d) == \E a \in Ancestors(d) \cup {d} : match(a, TRUE)

(* Ignored: the parents decide first.                                              *)
Ignored(p, isDir) ==
    /\ \/ Len(p) > 1 /\ dirExcluded(Parent(p))
       \/ match(p, isDir)
    /\ ~isTracked(p)

-----------------------------------------------------------------------------
(* internal/config/ignore.go and internal/repos/walk.go *)

(* matchPattern: "**/x" any component, "x/**" a prefix of the string (so a sibling    *)
(* whose name begins with x too), else the whole path.                               *)
matchPattern(pat, p) ==
    LET n == Len(pat.parts)
    IN CASE pat.form = "anywhere" -> pat.parts[1] \in Range(p)
         [] pat.form = "under" -> /\ Len(p) >= n /\ IsPrefix(Parent(pat.parts), p)
                                  /\ p[n] \in Beginning[pat.parts[n]]
         [] OTHER -> p = pat.parts

(* Mutant of shouldIgnore: a tracked file outranks the operator's list. *)
shouldIgnoreTracked(p, isDir) ==
    \/ (\E pat \in checkout.patterns : matchPattern(pat, p)) /\ ~isTracked(p)
    \/ Ignored(p, isDir)

(* shouldIgnore: git's rules only see what the configured patterns keep.            *)
shouldIgnore(p, isDir) ==
    \/ \E pat \in checkout.patterns : matchPattern(pat, p)
    \/ Ignored(p, isDir)

(* WalkFiles: a file is reached unless a directory above it was skipped.            *)
SkipDir(d) == shouldIgnore(d, TRUE)
WalkFiles == {f \in TreeFiles : ~shouldIgnore(f, FALSE) /\ \A d \in Ancestors(f) : ~SkipDir(d)}

(* applyPlan: what a push or a watcher batch of the same file would index.          *)
PushFiles == {f \in TreeFiles : ~shouldIgnore(f, FALSE)}

-----------------------------------------------------------------------------
RulesInit ==
    /\ checkout \in [ignores : {[d \in TreeDirs \cup {<<>>} |-> IF d = <<>> THEN lines ELSE <<>>]
                                     : lines \in RootLines},
                     exclude : ExcludeLines, tracked : {{}}, patterns : Configured]
    /\ verdicts = <<>> /\ unseen = FALSE /\ outdated = FALSE /\ ruleEdits = 0

Edit == ruleEdits < MaxRuleEdits /\ ruleEdits' = ruleEdits + 1

(* A .gitignore is saved: an event is on its way.                                   *)
EditGitignore(d, lines) ==
    /\ Edit /\ lines # checkout.ignores[d]
    /\ checkout' = [checkout EXCEPT !.ignores[d] = lines]
    /\ unseen' = TRUE
    /\ UNCHANGED <<verdicts, outdated>>

(* git add, git rm, an edit of the manifest: no event rebuilds the matcher.         *)
EditElsewhere(tracked, patterns) ==
    /\ Edit
    /\ checkout' = [checkout EXCEPT !.tracked = tracked, !.patterns = patterns]
    /\ checkout' # checkout
    /\ outdated' = TRUE
    /\ UNCHANGED <<verdicts, unseen>>

(* Mutant of Rebuilt: the matcher reloads its rules and keeps its verdicts. *)
RebuiltKeeping == verdicts

(* record on a .gitignore event: a new matcher, whose caches are empty.             *)
Rebuilt == <<>>

RecordGitignore ==
    /\ unseen
    /\ unseen' = FALSE /\ outdated' = FALSE
    /\ verdicts' = Rebuilt
    /\ UNCHANGED <<checkout, ruleEdits>>

(* relIndexable: ShouldIgnore answers once and caches.                               *)
WatcherAsks(f) ==
    /\ f \notin DOMAIN verdicts
    /\ verdicts' = [g \in DOMAIN verdicts \cup {f} |->
                      IF g = f THEN shouldIgnore(f, FALSE) ELSE verdicts[g]]
    /\ UNCHANGED <<checkout, unseen, outdated, ruleEdits>>

RulesNext ==
    \/ \E lines \in RootLines : EditGitignore(<<>>, lines)
    \/ \E d \in TreeDirs, lines \in DirLines : EditGitignore(d, lines)
    \/ \E tracked \in SUBSET TreeFiles, patterns \in Configured : EditElsewhere(tracked, patterns)
    \/ RecordGitignore
    \/ \E f \in TreeFiles : WatcherAsks(f)

-----------------------------------------------------------------------------
(* Properties *)

(* git's rule, stated for a path as a whole: the lines that could decide it are      *)
(* ranked by the depth of their file and their place in it, .git/info/exclude below  *)
(* them all; the topmost part of the path whose best line excludes it excludes it.   *)
GitExcludes(p, isDir) ==
    LET Ranked(q, dir) ==
            {<<n, i>> \in (0 .. Len(q)) \X (1 .. 3) :
                LET lines == IF n = 0 THEN checkout.exclude ELSE checkout.ignores[SubSeq(q, 1, n - 1)]
                    rel == IF n = 0 THEN q ELSE SubSeq(q, n, Len(q))
                IN i \in DOMAIN lines /\ (lines[i].dirOnly => dir) /\ globMatches(lines[i], rel)}
        Above(a, b) == a[1] > b[1] \/ (a[1] = b[1] /\ a[2] >= b[2])
        Drops(q, dir) ==
            \E best \in Ranked(q, dir) :
                /\ \A other \in Ranked(q, dir) : Above(best, other)
                /\ ~(IF best[1] = 0 THEN checkout.exclude
                     ELSE checkout.ignores[SubSeq(q, 1, best[1] - 1)])[best[2]].negate
    IN Drops(p, isDir) \/ \E a \in Ancestors(p) : Drops(a, TRUE)

(* A full pass indexes exactly the files git shows or tracks and no configured        *)
(* pattern names, directly or through a directory: nested .gitignore files,           *)
(* negations, directory rules and tracked files in excluded directories included, and *)
(* a tracked file never outranks the operator's list (IgnorePatterns).               *)
WalkIsWhatGitShows ==
    WalkFiles = {f \in TreeFiles :
        /\ ~\E pat \in checkout.patterns, q \in Ancestors(f) \cup {f} : matchPattern(pat, q)
        /\ f \in checkout.tracked \/ ~GitExcludes(f, FALSE)}

(* "A push must produce the same index as a full pass over the same tree"             *)
(* (applyPlan): the two differ only in files below a directory that a configured      *)
(* pattern names as a whole path, which the walk prunes and the push never asks       *)
(* about; and what the watcher has cached is what a push would decide, once it has    *)
(* seen every .gitignore event and nothing else about the checkout has changed.       *)
ReadersAgree ==
    /\ WalkFiles \subseteq PushFiles
    /\ \A f \in PushFiles \ WalkFiles :
          \E d \in Ancestors(f), pat \in checkout.patterns : pat.form = "whole" /\ matchPattern(pat, d)
    /\ (~unseen /\ ~outdated) => \A f \in DOMAIN verdicts : verdicts[f] = shouldIgnore(f, FALSE)

(* What the ignore rules promise: a walk lists what git would, and every reader*)
(* of the rules gives the same verdict.                                        *)
RulesSound == WalkIsWhatGitShows /\ ReadersAgree
=============================================================================
