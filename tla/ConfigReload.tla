---------------------------- MODULE ConfigReload ----------------------------
(***************************************************************************)
(* The tenant's configuration files and the copies of them the running     *)
(* process uses.  A PUT handler validates its body, writes the whole       *)
(* document to .<name>.tmp, renames that file over the document and then   *)
(* swaps the live copy.  A handler never awaits once it has its body, but  *)
(* handlers run on several worker threads: between two system calls of one *)
(* PUT any step of another may happen, and both use the same .tmp name.    *)
(*                                                                         *)
(* A PUT is identified with the document it carries, and is made once.     *)
(* A file is an inode with a text and a size; an open handle keeps writing *)
(* to its inode after a rename.  A body the handler refuses (400, 403)     *)
(* touches nothing and is no step.  One write call stores a document.      *)
(***************************************************************************)
EXTENDS Naturals

SavedOnly == {"mailboxes", "followup_profiles", "templates", "snippets"}
Swapped == {"sellers", "notification_templates", "topic_guardrails", "draft_template"}
Reread == {"rules"}

CONSTANTS Puts,       \* the PUT requests, and the documents they carry
          Documents,  \* the configuration files of this instance
          Size        \* the length of each PUT's document

Initial == "initial"        \* what a file holds (or its absence means) beforehand
Broken == "broken"          \* a text that is empty, cut, or two documents mixed
Fallback == "fallback"      \* the default boot uses for what it cannot read
Unreadable == "unreadable"  \* outcome of a load: I/O or parse error
NoFile == "no file"         \* the temporary name does not exist
Names == {Initial, Broken, Fallback, Unreadable, NoFile}

ASSUME DocumentsAssumption == Documents \subseteq SavedOnly \cup Swapped \cup Reread
ASSUME PutsAssumption == Puts \cap (Documents \cup Names) = {}
ASSUME SizeAssumption == Size \in [Puts -> Nat]

Texts == Puts \cup {Initial, Broken}
Inodes == Puts \cup Documents  \* a file is named for the PUT that created it
InUse == Documents \ SavedOnly \* the documents with a live copy

VARIABLES
    target,       \* the inode under a document's name
    tmp,          \* the inode under its temporary name
    text,         \* what an inode holds
    size,         \* how much of it
    pc,           \* where a PUT is
    about,        \* the document it replaces
    fd,           \* the inode it has open
    got,          \* what it read back (rules only)
    live,         \* the copy the process uses
    mustRestart,  \* the last PUT to reload answered restart_required
    up,           \* whether the process runs
    raced,        \* history: two PUTs of the document overlapped, and no PUT
                  \* on its own has replaced it since
    lone,         \* history: the PUTs that no other PUT has overlapped
    published     \* history: whose rename put the present file in place

nameVars == <<target, tmp>>
fileVars == <<text, size>>
liveVars == <<live, mustRestart>>
historyVars == <<raced, lone, published>>
vars == <<nameVars, fileVars, pc, about, fd, got, liveVars, up, historyVars>>

Init ==
    /\ target = [d \in Documents |-> d]
    /\ tmp = [d \in Documents |-> NoFile]
    /\ text = [i \in Inodes |-> Initial]
    /\ size = [i \in Inodes |-> 0]
    /\ pc = [p \in Puts |-> "new"]
    /\ about \in [Puts -> Documents]
    /\ fd = [p \in Puts |-> p]
    /\ got = [p \in Puts |-> Unreadable]
    /\ live = [d \in InUse |-> Initial]
    /\ mustRestart = [d \in InUse |-> FALSE]
    /\ up = TRUE
    /\ raced = [d \in Documents |-> FALSE]
    /\ lone = {}
    /\ published = [d \in Documents |-> Initial]

Busy == {"opened", "written", "renamed", "loaded"}
InFlight(d) == {p \in Puts : about[p] = d /\ pc[p] \in Busy}

GoTo(p, step) == pc' = [pc EXCEPT ![p] = step]

------------------------------------------------------------------------------
(* write_yaml_atomic and save_draft_template.                              *)

(* Mutant: the .tmp file a crash has left is opened without truncating it.  *)
BugOpen(p) ==
    LET d == about[p]
        i == IF tmp[d] = NoFile THEN p ELSE tmp[d]
    IN
    /\ pc[p] = "new" /\ up
    /\ GoTo(p, "opened")
    /\ fd' = [fd EXCEPT ![p] = i]
    /\ tmp' = [tmp EXCEPT ![d] = i]
    /\ raced' = [raced EXCEPT ![d] = @ \/ InFlight(d) # {}]
    /\ lone' = IF InFlight(d) = {} THEN lone \cup {p} ELSE lone \ InFlight(d)
    /\ UNCHANGED <<target, fileVars, about, got, liveVars, up, published>>

(* File::create truncates whatever .tmp file is there.                     *)
Open(p) ==
    LET d == about[p]
        i == IF tmp[d] = NoFile THEN p ELSE tmp[d]
    IN
    /\ pc[p] = "new" /\ up
    /\ GoTo(p, "opened")
    /\ fd' = [fd EXCEPT ![p] = i]
    /\ tmp' = [tmp EXCEPT ![d] = i]
    /\ text' = [text EXCEPT ![i] = Broken]
    /\ size' = [size EXCEPT ![i] = 0]
    /\ raced' = [raced EXCEPT ![d] = @ \/ InFlight(d) # {}]
    /\ lone' = IF InFlight(d) = {} THEN lone \cup {p} ELSE lone \ InFlight(d)
    /\ UNCHANGED <<target, about, got, liveVars, up, published>>

(* Writing from the start of a file that is longer leaves its tail.        *)
Overwrite(p, i) ==
    /\ text' = [text EXCEPT ![i] = IF size[i] <= Size[p] THEN p ELSE Broken]
    /\ size' = [size EXCEPT ![i] = IF @ <= Size[p] THEN Size[p] ELSE @]

Write(p) ==
    /\ pc[p] = "opened"
    /\ GoTo(p, "written")
    /\ Overwrite(p, fd[p])
    /\ UNCHANGED <<nameVars, about, fd, got, liveVars, up, historyVars>>

(* The write stops part way.                                               *)
WriteFails(p) ==
    /\ pc[p] = "opened"
    /\ GoTo(p, "failed")
    /\ text' = [text EXCEPT ![fd[p]] = Broken]
    /\ UNCHANGED <<nameVars, size, about, fd, got, liveVars, up, historyVars>>

(* The fsync or the rename reports an error; a rename does when another    *)
(* PUT has already taken the temporary name away.                          *)
SaveFails(p) ==
    /\ pc[p] = "written"
    /\ GoTo(p, "failed")
    /\ UNCHANGED <<nameVars, fileVars, about, fd, got, liveVars, up, historyVars>>

(* Mutant: the error of a rename without a source is dropped.               *)
BugRename(p) ==
    LET d == about[p] IN
    /\ pc[p] = "written"
    /\ GoTo(p, IF d \in SavedOnly THEN "ok" ELSE "renamed")
    /\ target' = [target EXCEPT ![d] = tmp[d]]
    /\ tmp' = [tmp EXCEPT ![d] = NoFile]
    /\ published' = [published EXCEPT ![d] = p]
    /\ raced' = [raced EXCEPT ![d] = @ /\ p \notin lone]
    /\ UNCHANGED <<fileVars, about, fd, got, liveVars, up, lone>>

Rename(p) ==
    LET d == about[p] IN
    /\ pc[p] = "written" /\ tmp[d] # NoFile
    /\ GoTo(p, IF d \in SavedOnly THEN "ok" ELSE "renamed")
    /\ target' = [target EXCEPT ![d] = tmp[d]]
    /\ tmp' = [tmp EXCEPT ![d] = NoFile]
    /\ published' = [published EXCEPT ![d] = p]
    /\ raced' = [raced EXCEPT ![d] = @ /\ p \notin lone]
    /\ UNCHANGED <<fileVars, about, fd, got, liveVars, up, lone>>

------------------------------------------------------------------------------
(* The live reload that follows the save.                                  *)

(* put_sellers, put_notification_templates, put_topic_guardrails and       *)
(* put_draft_template store the document of the request.                   *)
Swap(p) ==
    /\ pc[p] = "renamed" /\ about[p] \in Swapped
    /\ GoTo(p, "ok")
    /\ live' = [live EXCEPT ![about[p]] = p]
    /\ UNCHANGED <<nameVars, fileVars, about, fd, got, mustRestart, up, historyVars>>

(* A load: a broken text may parse or not, and any read may fail.          *)
Readings(d) == {text[target[d]], Unreadable}

(* put_rules reads the file back and stores what it finds there.           *)
Reload(p) ==
    /\ pc[p] = "renamed" /\ about[p] \in Reread
    /\ GoTo(p, "loaded")
    /\ \E r \in Readings(about[p]) : got' = [got EXCEPT ![p] = r]
    /\ UNCHANGED <<nameVars, fileVars, about, fd, liveVars, up, historyVars>>

(* Mutant: a reload that fails is answered as reloaded.                     *)
BugStore(p) ==
    LET d == about[p] IN
    /\ pc[p] = "loaded"
    /\ GoTo(p, "ok")
    /\ live' = [live EXCEPT ![d] = IF got[p] = Unreadable THEN @ ELSE got[p]]
    /\ mustRestart' = [mustRestart EXCEPT ![d] = FALSE]
    /\ UNCHANGED <<nameVars, fileVars, about, fd, got, up, historyVars>>

Store(p) ==
    LET d == about[p]
        fails == got[p] = Unreadable
    IN
    /\ pc[p] = "loaded"
    /\ GoTo(p, "ok")
    /\ live' = [live EXCEPT ![d] = IF fails THEN @ ELSE got[p]]
    /\ mustRestart' = [mustRestart EXCEPT ![d] = fails]
    /\ UNCHANGED <<nameVars, fileVars, about, fd, got, up, historyVars>>

PutStep(p) ==
    \/ Open(p) \/ Write(p) \/ WriteFails(p) \/ SaveFails(p) \/ Rename(p)
    \/ Swap(p) \/ Reload(p) \/ Store(p)

------------------------------------------------------------------------------
(* The process stops at any system call and is started again.              *)

Crash ==
    /\ up
    /\ up' = FALSE
    /\ pc' = [p \in Puts |-> IF pc[p] \in Busy THEN "failed" ELSE pc[p]]
    /\ UNCHANGED <<nameVars, fileVars, about, fd, got, liveVars, historyVars>>

(* main: unreadable rules stop the boot, any other document has a default. *)
Booted(d) ==
    IF d \in Reread THEN Readings(d) \ {Unreadable}
    ELSE (Readings(d) \ {Unreadable}) \cup {Fallback}

Boot ==
    /\ ~ up
    /\ up' = TRUE
    /\ live' \in [InUse -> Texts \cup {Fallback}]
    /\ \A d \in InUse : live'[d] \in Booted(d)
    /\ mustRestart' = [d \in InUse |-> FALSE]
    /\ UNCHANGED <<nameVars, fileVars, pc, about, fd, got, historyVars>>

Next ==
    \/ \E p \in Puts : PutStep(p)
    \/ Crash
    \/ Boot

Spec == Init /\ [][Next]_vars

------------------------------------------------------------------------------
(* Properties.                                                             *)

TypeOK ==
    /\ target \in [Documents -> Inodes]
    /\ tmp \in [Documents -> Inodes \cup {NoFile}]
    /\ text \in [Inodes -> Texts]
    /\ size \in [Inodes -> Nat]
    /\ pc \in [Puts -> Busy \cup {"new", "ok", "failed"}]
    /\ about \in [Puts -> Documents]
    /\ fd \in [Puts -> Inodes]
    /\ got \in [Puts -> Texts \cup {Unreadable}]
    /\ live \in [InUse -> Texts \cup {Fallback}]
    /\ mustRestart \in [InUse -> BOOLEAN]
    /\ up \in BOOLEAN
    /\ raced \in [Documents -> BOOLEAN]
    /\ lone \subseteq Puts
    /\ published \in [Documents -> Puts \cup {Initial}]

(* config/mod.rs, write_yaml_atomic: the file under a document's name is,  *)
(* whatever failed or crashed, the whole document of the PUT whose rename  *)
(* put it there, unless PUTs of it overlapped; and the next PUT that runs  *)
(* on its own repairs that.                                                *)
FileIsLastPublished ==
    \A d \in Documents : ~ raced[d] => text[target[d]] = published[d]

(* admin/config.rs: when no PUT of a document is under way, the process    *)
(* uses the copy that is on disk (a failed PUT moves neither, a restart    *)
(* loses nothing), unless it said that it must restart, boot could not     *)
(* read the file, or PUTs overlapped with no lone PUT since.               *)
LiveIsOnDisk ==
    \A d \in InUse :
        up /\ ~ raced[d] /\ InFlight(d) = {} =>
            \/ live[d] \in {text[target[d]], Fallback}
            \/ mustRestart[d]
=============================================================================
