---------------------------- MODULE SettingsProofs ----------------------------
(* Theorems about the settings and who is told by them: ConfigReload for     *)
(* every set of PUTs and every choice of documents, and Pings for any number *)
(* of handlers, sellers, leads, settings and restarts.  The invariant of the *)
(* first says which inode belongs to which document, and what a PUT that     *)
(* runs on its own may rely on.                                              *)
EXTENDS ConfigReload, Pings, TLAPS

(* The inodes a document has used: its first one and its PUTs'.            *)
Owned(i, d) == i = d \/ (i \in Puts /\ about[i] = d /\ pc[i] # "new")

(* No two documents share an inode, nor do a document's two names.         *)
FilesApart ==
    /\ \A d \in Documents :
        /\ Owned(target[d], d)
        /\ tmp[d] # NoFile => Owned(tmp[d], d)
        /\ tmp[d] # target[d]
    /\ \A p \in Puts : pc[p] # "new" => Owned(fd[p], about[p])

(* What holds at each step of a PUT that no other PUT has overlapped.      *)
LoneSteps(p) ==
    /\ \A q \in Puts : about[q] = about[p] /\ pc[q] \in Busy => q = p
    /\ pc[p] \in {"opened", "written"} => fd[p] = tmp[about[p]]
    /\ pc[p] = "opened" => size[fd[p]] = 0
    /\ pc[p] = "written" => text[fd[p]] = p
    /\ pc[p] \in {"renamed", "loaded"} =>
        ~ raced[about[p]] /\ published[about[p]] = p
    /\ pc[p] = "loaded" => got[p] \in {p, Unreadable}

LoneInv ==
    \A p \in lone : pc[p] # "new" /\ (pc[p] \in Busy => LoneSteps(p))

(* Who works on a document that was not raced works alone.                 *)
QuietInv ==
    \A p \in Puts : pc[p] \in Busy /\ ~ raced[about[p]] => p \in lone

DownInv == ~ up => \A p \in Puts : pc[p] \notin Busy

(* Between the rename and the swap the file is ahead; never otherwise.     *)
Ahead(d) == \E p \in Puts : about[p] = d /\ pc[p] \in {"renamed", "loaded"}

LiveInv ==
    \A d \in InUse :
        up /\ ~ raced[d] /\ ~ Ahead(d) =>
            \/ live[d] \in {published[d], Fallback}
            \/ mustRestart[d]

ConfigInv ==
    /\ TypeOK
    /\ FilesApart
    /\ LoneInv
    /\ QuietInv
    /\ DownInv
    /\ FileIsLastPublished
    /\ LiveInv

------------------------------------------------------------------------------

(* The names the model gives meanings to are nobody's document.            *)
LEMMA NamesApart ==
    /\ NoFile \notin Inodes
    /\ Puts \cap Documents = {}
    /\ \A p \in Puts : p \notin Names
    /\ Documents \subseteq SavedOnly \cup InUse
    /\ InUse \subseteq Swapped \cup Reread
BY DocumentsAssumption, PutsAssumption
   DEF Inodes, Names, NoFile, SavedOnly, Swapped, Reread, InUse

(* An inode has one owner.                                                 *)
LEMMA OneOwner ==
    ASSUME NEW i, NEW d \in Documents, NEW e \in Documents, Owned(i, d), Owned(i, e)
    PROVE  d = e
BY NamesApart DEF Owned

LEMMA InitConfigInv == Init => ConfigInv
<1> SUFFICES ASSUME Init PROVE ConfigInv
    OBVIOUS
<1> USE DEF Init
<1>1. TypeOK
    BY DEF TypeOK, Texts, Inodes, InUse, Busy
<1>2. FilesApart
    BY NamesApart DEF FilesApart, Owned, Inodes
<1>3. LoneInv /\ QuietInv /\ DownInv
    BY DEF LoneInv, QuietInv, DownInv, Busy
<1>4. FileIsLastPublished
    BY DEF FileIsLastPublished, Inodes
<1>5. LiveInv
    BY DEF LiveInv, InUse
<1> QED
    BY <1>1, <1>2, <1>3, <1>4, <1>5 DEF ConfigInv

(* Opening takes the temporary file, never the file in place.              *)
LEMMA OpenPreserves ==
    ASSUME ConfigInv, NEW p \in Puts, Open(p)
    PROVE ConfigInv'
<1> DEFINE d == about[p]
           i == IF tmp[d] = NoFile THEN p ELSE tmp[d]
<1> USE DEF ConfigInv, TypeOK
<1>1. /\ d \in Documents /\ i \in Inodes
      /\ p \notin Documents /\ p # NoFile
      /\ pc[p] = "new" /\ pc' = [pc EXCEPT ![p] = "opened"] /\ up
      /\ fd' = [fd EXCEPT ![p] = i] /\ tmp' = [tmp EXCEPT ![d] = i]
      /\ text' = [text EXCEPT ![i] = Broken]
      /\ size' = [size EXCEPT ![i] = 0]
      /\ raced' = [raced EXCEPT ![d] = @ \/ InFlight(d) # {}]
      /\ lone' = IF InFlight(d) = {} THEN lone \cup {p} ELSE lone \ InFlight(d)
      /\ UNCHANGED <<target, about, got, live, mustRestart, up, published>>
    BY NamesApart DEF Open, GoTo, Inodes, Names, liveVars
<1>2. TypeOK'
    BY <1>1 DEF Texts, Inodes, Busy
<1>3. Owned(i, d)'
    BY <1>1 DEF FilesApart, Owned
<1>4. \A e \in Documents : ~ (e # d /\ Owned(i, e)) /\ target[e] # i
    <2> SUFFICES ASSUME NEW e \in Documents
                 PROVE  ~ (e # d /\ Owned(i, e)) /\ target[e] # i
        OBVIOUS
    <2>1. CASE tmp[d] = NoFile
        BY <1>1, <2>1, NamesApart DEF FilesApart, Owned
    <2>2. CASE tmp[d] # NoFile
        <3>1. i = tmp[d] /\ Owned(i, d) /\ i # target[d] /\ Owned(target[e], e)
            BY <1>1, <2>2 DEF FilesApart
        <3> QED
            BY <3>1, <1>1, OneOwner
    <2> QED
        BY <2>1, <2>2
<1>5. FilesApart'
    <2>1. \A j, e : Owned(j, e) => Owned(j, e)'
        BY <1>1 DEF Owned
    <2> QED
        BY <1>1, <1>3, <1>4, <2>1 DEF FilesApart
<1>6. \A q \in Puts : q \in InFlight(d) <=> about[q] = d /\ pc[q] \in Busy
    BY DEF InFlight
<1>7. LoneInv'
    <2> SUFFICES ASSUME NEW q \in lone'
                 PROVE (pc[q] # "new" /\ (pc[q] \in Busy => LoneSteps(q)))'
        BY DEF LoneInv
    <2>1. CASE q = p
        <3>1. InFlight(d) = {}
            BY <1>1, <2>1 DEF LoneInv
        <3> QED
            BY <1>1, <1>6, <2>1, <3>1 DEF LoneSteps, Busy
    <2>2. CASE q # p
        <3>1. q \in lone /\ q \notin InFlight(d) /\ pc'[q] = pc[q] /\ pc[q] # "new"
            BY <1>1, <2>2 DEF LoneInv
        <3>2. ASSUME pc[q] \in Busy PROVE LoneSteps(q)'
            <4>1. about[q] # d /\ LoneSteps(q)
                BY <1>6, <3>1, <3>2 DEF LoneInv
            <4>2. fd[q] # i
                BY <1>1, <1>4, <3>1, <4>1 DEF FilesApart
            <4> QED
                BY <1>1, <3>1, <4>1, <4>2 DEF LoneSteps
        <3> QED
            BY <3>1, <3>2
    <2> QED
        BY <2>1, <2>2
<1>8. QuietInv'
    BY <1>1, <1>6 DEF QuietInv, LoneInv
<1>9. DownInv'
    BY <1>1 DEF DownInv
<1>10. FileIsLastPublished'
    BY <1>1, <1>4 DEF FileIsLastPublished, Inodes
<1>11. LiveInv'
    <2>1. \A e : Ahead(e) => Ahead(e)'
        BY <1>1 DEF Ahead
    <2> QED
        BY <1>1, <2>1 DEF LiveInv, InUse
<1> QED
    BY <1>2, <1>5, <1>7, <1>8, <1>9, <1>10, <1>11

(* The steps between the open and the answer that move no name: what they  *)
(* cannot disturb.                                                         *)
StepOf(p, after) ==
    /\ pc[p] \in Busy
    /\ pc' = [pc EXCEPT ![p] = after]
    /\ after # "new"
    /\ \A i \in Inodes : i # fd[p] => text'[i] = text[i] /\ size'[i] = size[i]
    /\ \A q \in Puts : q # p => got'[q] = got[q]
    /\ UNCHANGED <<nameVars, about, fd, up, historyVars>>

LEMMA StepKeeps ==
    ASSUME ConfigInv, NEW p \in Puts, NEW after, StepOf(p, after)
    PROVE  /\ FilesApart' /\ QuietInv' /\ DownInv'
           /\ \A q \in lone : q # p =>
                pc'[q] # "new" /\ (pc'[q] \in Busy => LoneSteps(q)')
<1> USE DEF ConfigInv, TypeOK, StepOf, nameVars, historyVars
<1>1. FilesApart'
    <2>1. \A j, e : Owned(j, e) => Owned(j, e)'
        BY DEF Owned
    <2> QED
        BY <2>1 DEF FilesApart, Busy
<1>2. QuietInv' /\ DownInv'
    BY DEF QuietInv, DownInv
<1>3. ASSUME NEW q \in lone, q # p
      PROVE  pc'[q] # "new" /\ (pc'[q] \in Busy => LoneSteps(q)')
    <2>1. q \in Puts /\ pc'[q] = pc[q] /\ pc[q] # "new"
        BY <1>3 DEF LoneInv
    <2>2. ASSUME pc[q] \in Busy PROVE LoneSteps(q)'
        <3>1. LoneSteps(q) /\ about[q] # about[p]
            BY <1>3, <2>1, <2>2 DEF LoneInv, LoneSteps
        <3>2. fd[q] # fd[p] /\ fd[q] \in Inodes
            BY <2>1, <3>1, OneOwner DEF FilesApart, Busy
        <3> QED
            BY <1>3, <2>1, <3>1, <3>2 DEF LoneSteps
    <2> QED
        BY <2>1, <2>2
<1> QED
    BY <1>1, <1>2, <1>3

(* Nobody writes into the file of a document that was not raced.           *)
LEMMA WritesBeside ==
    ASSUME ConfigInv, NEW p \in Puts, pc[p] \in {"opened", "written"},
           NEW d \in Documents, ~ raced[d]
    PROVE  target[d] # fd[p]
<1> USE DEF ConfigInv, TypeOK
<1>1. CASE about[p] = d
    <2>1. fd[p] = tmp[d]
        BY <1>1 DEF QuietInv, LoneInv, LoneSteps, Busy
    <2> QED
        BY <2>1 DEF FilesApart
<1>2. CASE about[p] # d
    BY <1>2, OneOwner DEF FilesApart
<1> QED
    BY <1>1, <1>2

LEMMA WritePreserves ==
    ASSUME ConfigInv, NEW p \in Puts,
           Write(p) \/ WriteFails(p) \/ SaveFails(p)
    PROVE  ConfigInv'
<1> USE DEF ConfigInv, TypeOK
<1>1. /\ pc[p] \in {"opened", "written"} /\ fd[p] \in Inodes
      /\ UNCHANGED <<target, tmp, about, fd, got, live, mustRestart, up, raced, lone,
                     published>>
    BY DEF Write, WriteFails, SaveFails, nameVars, liveVars, historyVars, fileVars
<1>2. /\ text' \in [Inodes -> Texts] /\ size' \in [Inodes -> Nat]
      /\ \A i \in Inodes : i # fd[p] => text'[i] = text[i] /\ size'[i] = size[i]
    BY <1>1, SizeAssumption
       DEF Write, WriteFails, SaveFails, Overwrite, fileVars, Texts
<1>3. PICK after \in {"written", "failed"} :
        /\ pc' = [pc EXCEPT ![p] = after]
        /\ after = "written" => Write(p)
    BY DEF Write, WriteFails, SaveFails, GoTo
<1>4. StepOf(p, after)
    BY <1>1, <1>2, <1>3 DEF StepOf, nameVars, historyVars, Busy
<1>5. TypeOK'
    BY <1>1, <1>2, <1>3 DEF Busy
<1>6. LoneInv'
    <2>1. ASSUME p \in lone, after = "written" PROVE LoneSteps(p)'
        <3>1. LoneSteps(p) /\ pc[p] = "opened"
            BY <2>1, <1>3 DEF LoneInv, Write, Busy
        <3>2. size[fd[p]] = 0 /\ Size[p] \in Nat
            BY <3>1, SizeAssumption DEF LoneSteps
        <3>3. text'[fd[p]] = p
            BY <1>1, <1>3, <2>1, <3>2 DEF Write, Overwrite
        <3> QED
            BY <1>1, <1>3, <2>1, <3>1, <3>3 DEF LoneSteps, Busy
    <2> QED
        BY <1>1, <1>3, <1>4, <2>1, StepKeeps DEF LoneInv, Busy
<1>7. FileIsLastPublished'
    BY <1>1, <1>2, WritesBeside DEF FileIsLastPublished
<1>8. LiveInv'
    <2>1. \A d : Ahead(d)' <=> Ahead(d)
        BY <1>1, <1>3 DEF Ahead
    <2> QED
        BY <1>1, <2>1 DEF LiveInv
<1> QED
    BY <1>4, <1>5, <1>6, <1>7, <1>8, StepKeeps

LEMMA RenamePreserves ==
    ASSUME ConfigInv, NEW p \in Puts, Rename(p)
    PROVE  ConfigInv'
<1> DEFINE d == about[p]
           next == IF d \in SavedOnly THEN "ok" ELSE "renamed"
<1> USE DEF ConfigInv, TypeOK
<1>1. /\ d \in Documents /\ tmp[d] # NoFile /\ tmp[d] \in Inodes
      /\ pc[p] = "written" /\ pc' = [pc EXCEPT ![p] = next]
      /\ target' = [target EXCEPT ![d] = tmp[d]]
      /\ tmp' = [tmp EXCEPT ![d] = NoFile]
      /\ published' = [published EXCEPT ![d] = p]
      /\ raced' = [raced EXCEPT ![d] = @ /\ p \notin lone]
      /\ UNCHANGED <<text, size, about, fd, got, live, mustRestart, up, lone>>
    BY DEF Rename, GoTo, fileVars, liveVars
<1>2. TypeOK'
    BY <1>1 DEF Busy
<1>3. FilesApart'
    <2>1. \A j, e : Owned(j, e) => Owned(j, e)'
        BY <1>1 DEF Owned
    <2> QED
        BY <1>1, <2>1 DEF FilesApart
<1>4. p \in lone => text[tmp[d]] = p
    BY <1>1 DEF LoneInv, LoneSteps, Busy
<1>5. LoneInv'
    <2> SUFFICES ASSUME NEW q \in lone
                 PROVE  pc'[q] # "new" /\ (pc'[q] \in Busy => LoneSteps(q)')
        BY <1>1 DEF LoneInv
    <2>1. CASE q = p
        BY <1>1, <2>1 DEF LoneInv, LoneSteps, Busy
    <2>2. CASE q # p
        <3>1. q \in Puts /\ pc'[q] = pc[q] /\ pc[q] # "new"
            BY <1>1, <2>2 DEF LoneInv
        <3>2. ASSUME pc[q] \in Busy PROVE LoneSteps(q)'
            <4>1. LoneSteps(q) /\ about[q] # d
                BY <1>1, <2>2, <3>1, <3>2 DEF LoneInv, LoneSteps, Busy
            <4> QED
                BY <1>1, <3>1, <4>1 DEF LoneSteps, Busy
        <3> QED
            BY <3>1, <3>2
    <2> QED
        BY <2>1, <2>2
<1>6. QuietInv' /\ DownInv'
    <2>1. ASSUME NEW q \in Puts, pc'[q] \in Busy, ~ raced'[about[q]] PROVE q \in lone
        <3>1. pc[q] \in Busy
            BY <1>1, <2>1 DEF Busy
        <3>2. CASE about[q] = d /\ p \in lone
            BY <1>1, <3>1, <3>2 DEF LoneInv, LoneSteps, Busy
        <3>3. CASE ~ (about[q] = d /\ p \in lone)
            BY <1>1, <2>1, <3>1, <3>3 DEF QuietInv
        <3> QED
            BY <3>2, <3>3
    <2> QED
        BY <1>1, <2>1 DEF QuietInv, DownInv, Busy
<1>7. FileIsLastPublished'
    BY <1>1, <1>4 DEF FileIsLastPublished, QuietInv, Busy
<1>8. LiveInv'
    <2> SUFFICES ASSUME NEW e \in InUse, up, ~ raced'[e], ~ Ahead(e)'
                 PROVE  live[e] \in {published'[e], Fallback} \/ mustRestart[e]
        BY <1>1 DEF LiveInv
    <2>1. e # d
        BY <1>1 DEF Ahead, InUse
    <2>2. ~ Ahead(e)
        BY <1>1 DEF Ahead
    <2> QED
        BY <1>1, <2>1, <2>2 DEF LiveInv, InUse
<1> QED
    BY <1>2, <1>3, <1>5, <1>6, <1>7, <1>8

LEMMA ReloadPreserves ==
    ASSUME ConfigInv, NEW p \in Puts, Swap(p) \/ Reload(p) \/ Store(p)
    PROVE  ConfigInv'
<1> DEFINE d == about[p]
<1> USE DEF ConfigInv, TypeOK
<1>1. PICK after \in {"ok", "loaded"} :
        /\ pc[p] \in {"renamed", "loaded"}
        /\ pc' = [pc EXCEPT ![p] = after]
        /\ after = "loaded" => Reload(p)
        /\ after = "ok" => Swap(p) \/ Store(p)
    BY DEF Swap, Reload, Store, GoTo
<1>2. /\ d \in Documents
      /\ UNCHANGED <<target, tmp, text, size, about, fd, up, raced, lone, published>>
      /\ \A q \in Puts : q # p => got'[q] = got[q]
    BY DEF Swap, Reload, Store, nameVars, fileVars, historyVars
<1>3. StepOf(p, after)
    BY <1>1, <1>2 DEF StepOf, nameVars, historyVars, Busy
<1>4. p \in lone => LoneSteps(p)
    BY <1>1 DEF LoneInv, Busy
<1>5. /\ got' \in [Puts -> Texts \cup {Unreadable}]
      /\ p \in lone /\ after = "loaded" => got'[p] \in {p, Unreadable}
    <2>1. CASE after = "loaded"
        <3>1. PICK r \in Readings(d) : got' = [got EXCEPT ![p] = r]
            BY <1>1, <2>1 DEF Reload
        <3>2. r \in {text[target[d]], Unreadable}
            BY <3>1 DEF Readings
        <3>3. p \in lone => text[target[d]] = p
            BY <1>1, <1>2, <1>4, <2>1 DEF LoneSteps, Reload, FileIsLastPublished
        <3> QED
            BY <1>2, <3>1, <3>2, <3>3
    <2>2. CASE after = "ok"
        BY <1>1, <2>2 DEF Swap, Store
    <2> QED
        BY <2>1, <2>2
<1>6. /\ live' \in [InUse -> Texts \cup {Fallback}]
      /\ mustRestart' \in [InUse -> BOOLEAN]
      /\ \A e \in InUse : e # d \/ after = "loaded" =>
            live'[e] = live[e] /\ mustRestart'[e] = mustRestart[e]
    <2>1. CASE Swap(p)
        <3>1. after # "loaded"
            BY <1>1, <2>1 DEF Swap, GoTo
        <3> QED
            BY <2>1, <3>1 DEF Swap, Texts
    <2>2. CASE Reload(p)
        BY <2>2 DEF Reload, liveVars
    <2>3. CASE Store(p)
        <3>1. /\ got[p] = Unreadable \/ got[p] \in Texts
              /\ (got[p] = Unreadable) \in BOOLEAN
              /\ after # "loaded"
            BY <1>1, <2>3 DEF Store, GoTo, Reload
        <3> QED
            BY <2>3, <3>1 DEF Store
    <2> QED
        BY <1>1, <2>1, <2>2, <2>3
<1>7. TypeOK'
    BY <1>1, <1>2, <1>5, <1>6 DEF Busy
<1>8. LoneInv'
    <2>1. ASSUME p \in lone, after = "loaded" PROVE LoneSteps(p)'
        BY <1>1, <1>2, <1>4, <1>5, <2>1 DEF LoneSteps, Busy
    <2> QED
        BY <1>1, <1>2, <1>3, <2>1, StepKeeps DEF LoneInv, Busy
<1>9. FileIsLastPublished'
    BY <1>2 DEF FileIsLastPublished
<1>10. LiveInv'
    <2> SUFFICES ASSUME NEW e \in InUse, up, ~ raced[e], ~ Ahead(e)'
                 PROVE  live'[e] \in {published[e], Fallback} \/ mustRestart'[e]
        BY <1>2 DEF LiveInv
    <2>1. CASE e # d
        <3>1. ~ Ahead(e)
            BY <1>1, <1>2, <2>1 DEF Ahead
        <3> QED
            BY <1>6, <2>1, <3>1 DEF LiveInv
    <2>2. CASE e = d
        <3>1. after = "ok"
            BY <1>1, <1>2, <2>2 DEF Ahead
        <3>2. p \in lone
            BY <1>1, <2>2 DEF QuietInv, Busy
        <3>3. published[d] = p /\ (pc[p] = "loaded" => got[p] \in {p, Unreadable})
            BY <1>1, <1>4, <3>2 DEF LoneSteps
        <3>4. CASE Swap(p)
            BY <2>2, <3>3, <3>4 DEF Swap
        <3>5. CASE Store(p)
            BY <2>2, <3>3, <3>5 DEF Store
        <3> QED
            BY <1>1, <3>1, <3>4, <3>5
    <2> QED
        BY <2>1, <2>2
<1> QED
    BY <1>3, <1>7, <1>8, <1>9, <1>10, StepKeeps

(* A stopped process leaves the files as they are, whoever was at work.    *)
LEMMA CrashPreserves == ConfigInv /\ Crash => ConfigInv'
<1> SUFFICES ASSUME ConfigInv, Crash PROVE ConfigInv'
    OBVIOUS
<1> USE DEF ConfigInv, TypeOK
<1>1. /\ ~ up'
      /\ pc' = [p \in Puts |-> IF pc[p] \in Busy THEN "failed" ELSE pc[p]]
      /\ UNCHANGED <<target, tmp, text, size, about, fd, got, live, mustRestart, raced,
                     lone, published>>
    BY DEF Crash, nameVars, fileVars, liveVars, historyVars
<1>2. \A p \in Puts : pc'[p] \notin Busy /\ (pc'[p] = "new" <=> pc[p] = "new")
    BY <1>1 DEF Busy
<1>3. TypeOK'
    BY <1>1 DEF Busy, Crash
<1>4. FilesApart'
    <2>1. \A j, e : Owned(j, e) => Owned(j, e)'
        BY <1>1, <1>2 DEF Owned
    <2> QED
        BY <1>1, <1>2, <2>1 DEF FilesApart
<1>5. LoneInv' /\ QuietInv' /\ DownInv'
    BY <1>1, <1>2 DEF LoneInv, QuietInv, DownInv
<1>6. FileIsLastPublished' /\ LiveInv'
    BY <1>1 DEF FileIsLastPublished, LiveInv
<1> QED
    BY <1>3, <1>4, <1>5, <1>6

(* Boot uses what is on disk, or a default.                                *)
LEMMA BootPreserves == ConfigInv /\ Boot => ConfigInv'
<1> SUFFICES ASSUME ConfigInv, Boot PROVE ConfigInv'
    OBVIOUS
<1> USE DEF ConfigInv, TypeOK
<1>1. /\ up' = TRUE /\ ~ up
      /\ live' \in [InUse -> Texts \cup {Fallback}]
      /\ \A d \in InUse : live'[d] \in {text[target[d]], Fallback}
      /\ mustRestart' = [d \in InUse |-> FALSE]
      /\ UNCHANGED <<target, tmp, text, size, pc, about, fd, got, raced, lone, published>>
    BY DEF Boot, Booted, Readings, nameVars, fileVars, historyVars
<1>2. TypeOK'
    BY <1>1
<1>3. FilesApart' /\ LoneInv' /\ QuietInv' /\ DownInv' /\ FileIsLastPublished'
    BY <1>1 DEF FilesApart, Owned, LoneInv, LoneSteps, QuietInv, DownInv,
                FileIsLastPublished
<1>4. LiveInv'
    BY <1>1 DEF LiveInv, FileIsLastPublished, InUse
<1> QED
    BY <1>2, <1>3, <1>4

LEMMA ConfigInvariant == Spec => []ConfigInv
<1>1. ConfigInv /\ [Next]_vars => ConfigInv'
    <2> SUFFICES ASSUME ConfigInv, [Next]_vars PROVE ConfigInv'
        OBVIOUS
    <2>1. ASSUME NEW p \in Puts, PutStep(p) PROVE ConfigInv'
        BY <2>1, OpenPreserves, WritePreserves, RenamePreserves, ReloadPreserves
           DEF PutStep
    <2>2. CASE UNCHANGED vars
        BY <2>2 DEF vars, nameVars, fileVars, liveVars, historyVars, ConfigInv, TypeOK,
                    FilesApart, Owned, LoneInv, LoneSteps, QuietInv, DownInv,
                    FileIsLastPublished, LiveInv, Ahead
    <2> QED
        BY <2>1, <2>2, CrashPreserves, BootPreserves DEF Next
<1> QED
    BY <1>1, InitConfigInv, PTL DEF Spec

------------------------------------------------------------------------------
(* Every variable keeps its type.                                          *)
THEOREM TypeCorrect == Spec => []TypeOK
BY ConfigInvariant, PTL DEF ConfigInv

(* write_yaml_atomic: whatever fails, crashes or is left behind, the file  *)
(* is the whole document of the PUT that renamed it into place, unless     *)
(* PUTs of the document overlapped and none has run on its own since.      *)
THEOREM FilesAreWhole == Spec => []FileIsLastPublished
BY ConfigInvariant, PTL DEF ConfigInv

(* The PUT handlers: between PUTs that did not overlap, the process uses   *)
(* the document on disk, or has said otherwise.                            *)
THEOREM LiveFollowsDisk == Spec => []LiveIsOnDisk
<1>1. ConfigInv => LiveIsOnDisk
    BY DEF ConfigInv, LiveInv, LiveIsOnDisk, FileIsLastPublished, Ahead, InFlight,
           Busy, InUse
<1> QED
    BY <1>1, ConfigInvariant, PTL

-------------------------------------------------------------------------------
(* Pings.                                                                    *)
(* The settings a notification was made from.                                *)
Asked(p) ==
    \E row \in SellerRows :
        /\ <<SellerOf[p.lead], row>> \in said
        /\ row.configured
        /\ p.kind \in row.on
        /\ row.agent = p.agent
        /\ row.channel = p.channel
        /\ row.language = p.summary.language

KeyOf(p) == <<p.lead, p.kind, p.minute>>
Once(p, q) == p.run = q.run /\ KeyOf(p) = KeyOf(q) => p = q

(* The notifications that were made, wherever they are by now.               *)
Held == {ping[h] : h \in {g \in Handlers : step[g] = "publish"}}
Texted == {t.ping : t \in outbox}
Made == Held \cup bus \cup Texted

PingsShape ==
    /\ clock \in 0 .. MaxTime /\ run \in 1 .. MaxRuns /\ heard \in 0 .. MaxEvents
    /\ sellers \in [Sellers -> SellerRows \cup {NoRow}]
    /\ templates \subseteq Overrides
    /\ told \subseteq Leads \X Kinds \X (0 .. clock)
    /\ step \in [Handlers -> {"idle", "decide", "publish"}]
    /\ event \in [Handlers -> Events \cup {Nothing}]
    /\ ping \in [Handlers -> Notifications \cup {Nothing}]
    /\ \A h \in Handlers : /\ step[h] = "idle" <=> event[h] = Nothing
                           /\ step[h] = "publish" <=> ping[h] # Nothing
    /\ Made \subseteq Notifications
    /\ \A t \in outbox : t \in Text(t.ping, t.copy) /\ t.copy <= MaxCopies
    /\ \A s \in Sellers : <<s, sellers[s]>> \in said

(* Each was asked for, and its key is taken for as long as the run lasts.    *)
Sound ==
    /\ \A p \in Made : Asked(p) /\ p.minute <= clock /\ p.run <= run
    /\ \A p \in Made : p.run = run => KeyOf(p) \in told

(* No two are about the same, wherever they and their copies are, and no two *)
(* handlers hold one.                                                        *)
Unique ==
    /\ \A p, q \in Made : Once(p, q)
    /\ \A g, h \in Handlers : step[g] = "publish" /\ ping[g] = ping[h] => g = h

PingsInv == PingsShape /\ Sound /\ Unique

LEMMA PingsStart == PingsInit => PingsInv
<1> SUFFICES ASSUME PingsInit PROVE PingsInv
    OBVIOUS
<1>1. Made = {} /\ Held = {} /\ Texted = {}
    BY DEF PingsInit, Made, Held, Texted
<1>2. PingsShape
    BY <1>1, BoundsAssumption DEF PingsInit, PingsShape, NothingAssumption
<1>3. QED
    BY <1>1, <1>2 DEF PingsInv, Sound, Unique, PingsInit

LEMMA PingsAreSound == PingsInv => PingsTypeOK /\ PingsAreAskedFor
<1> SUFFICES ASSUME PingsInv PROVE PingsTypeOK /\ PingsAreAskedFor
    OBVIOUS
<1> USE DEF PingsInv
<1>1. \A t \in outbox : /\ t.ping \in Made /\ t \in Text(t.ping, t.copy)
                        /\ t.copy <= MaxCopies
                        /\ t.by = t.ping.channel.by /\ t.via = t.ping.channel.via
                        /\ t.by \in {"whatsapp", "email"} /\ t.via # Unresolved
                        /\ t.by = "email" => t.to # Unresolved
    <2> TAKE t \in outbox
    <2>1. t.ping \in Made /\ t \in Text(t.ping, t.copy) /\ t.copy <= MaxCopies
        BY DEF PingsShape, Made, Texted
    <2>2. /\ Resolved(t.ping.channel)
          /\ t = [by |-> t.ping.channel.by, via |-> t.ping.channel.via, ping |-> t.ping,
                  copy |-> t.copy,
                  to |-> IF t.ping.channel.by = "whatsapp" THEN t.ping.agent
                                                            ELSE t.ping.channel.to]
        BY <2>1 DEF Text
    <2>3. t.by = t.ping.channel.by /\ t.via = t.ping.channel.via
          /\ (t.ping.channel.by # "whatsapp" => t.to = t.ping.channel.to)
        BY <2>2
    <2>4. QED
        BY <2>1, <2>2, <2>3 DEF Resolved
<1>2. PingsTypeOK
    BY <1>1 DEF PingsShape, PingsTypeOK, Sound, Made
<1>3. ASSUME NEW t \in outbox
      PROVE  \E row \in SellerRows :
                /\ <<SellerOf[t.ping.lead], row>> \in said /\ row.configured
                /\ t.ping.kind \in row.on /\ row.agent = t.ping.agent
                /\ row.channel = t.ping.channel /\ row.language = t.ping.summary.language
                /\ t.by = row.channel.by /\ t.via = row.channel.via
    BY <1>1, <1>3 DEF Sound, Asked
<1>4. ASSUME NEW t \in outbox, NEW u \in outbox,
             t.ping.lead = u.ping.lead, t.ping.kind = u.ping.kind,
             t.ping.minute = u.ping.minute, t.ping.run = u.ping.run
      PROVE  t.ping = u.ping
    BY <1>1, <1>4 DEF Unique, Once, KeyOf
<1>5. QED
    BY <1>2, <1>3, <1>4 DEF PingsAreAskedFor

(* Nothing new is made, and what there is stays where it is.                 *)
LEMMA NothingMade ==
    ASSUME PingsInv, UNCHANGED <<run, bus, outbox>>, Held' = Held,
           clock \in Nat, clock' \in Nat, clock <= clock', told \subseteq told', said \subseteq said',
           \A g, h \in Handlers : step'[g] = "publish" /\ ping'[g] = ping'[h] => g = h
    PROVE  Sound' /\ Unique' /\ Made' = Made
<1> USE DEF PingsInv
<1>1. Texted' = Texted /\ Made' = Made
    BY DEF Texted, Made
<1>2. \A p \in Made : Asked(p)'
    BY DEF Sound, Asked
<1>3. Sound'
    <2>1. \A p \in Made : p.minute \in Nat
        BY DEF PingsShape, Notifications
    <2>2. \A p : KeyOf(p)' = KeyOf(p)
        BY DEF KeyOf
    <2>3. QED
        BY <1>1, <1>2, <2>1, <2>2 DEF Sound
<1>4. Unique'
    BY <1>1 DEF Unique, Once, KeyOf
<1>5. QED
    BY <1>1, <1>3, <1>4

(* A handler with nothing to publish.                                        *)
LEMMA QuietSteps ==
    ASSUME PingsInv, NEW h \in Handlers,
           (\E l \in Leads, kind \in Kinds : Hear(h, l, kind)) \/ Deduped(h) \/ DoNotTell(h)
    PROVE  PingsInv'
<1> USE DEF PingsInv
<1>1. /\ UNCHANGED <<clock, run, settingVars, told, bus, outbox>>
      /\ step[h] # "publish" /\ step'[h] # "publish"
      /\ step' \in [Handlers -> {"idle", "decide", "publish"}]
      /\ event' \in [Handlers -> Events \cup {Nothing}]
      /\ ping' \in [Handlers -> Notifications \cup {Nothing}]
      /\ heard' \in 0 .. MaxEvents
      /\ step'[h] = "idle" <=> event'[h] = Nothing
      /\ ping'[h] = Nothing
      /\ \A g \in Handlers \ {h} : step'[g] = step[g] /\ event'[g] = event[g] /\ ping'[g] = ping[g]
    <2>1. CASE Deduped(h) \/ DoNotTell(h)
        BY <2>1 DEF Deduped, DoNotTell, Finish, PingsShape
    <2>2. ASSUME NEW l \in Leads, NEW kind \in Kinds, Hear(h, l, kind)
          PROVE  /\ UNCHANGED <<clock, run, settingVars, told, bus, outbox, ping>>
                 /\ step[h] # "publish" /\ step'[h] = "decide" /\ ping[h] = Nothing
                 /\ step' \in [Handlers -> {"idle", "decide", "publish"}]
                 /\ event' \in [Handlers -> Events \cup {Nothing}]
                 /\ event'[h] # Nothing
                 /\ heard' \in 0 .. MaxEvents
                 /\ \A g \in Handlers \ {h} : step'[g] = step[g] /\ event'[g] = event[g]
        BY <2>2, NothingAssumption, BoundsAssumption DEF Hear, PingsShape, Events
    <2>3. QED
        BY <2>1, <2>2 DEF PingsShape
<1>2. Held' = Held
    BY <1>1 DEF Held
<1>3. \A f, g \in Handlers : step'[f] = "publish" /\ ping'[f] = ping'[g] => f = g
    BY <1>1 DEF Unique, PingsShape
<1>4. Sound' /\ Unique' /\ Made' = Made
    BY <1>1, <1>2, <1>3, NothingMade, BoundsAssumption DEF PingsShape, settingVars
<1>5. PingsShape'
    BY <1>1, <1>4 DEF PingsShape, settingVars, Text, Resolved
<1>6. QED
    BY <1>4, <1>5

LEMMA TellStep ==
    ASSUME PingsInv, NEW h \in Handlers, Tell(h)
    PROVE  PingsInv'
<1> USE DEF PingsInv
<1> DEFINE l == event[h].lead
           kind == event[h].kind
           row == sellers[SellerOf[l]]
           new == Payload(event[h], Row(h))
<1>1. event[h] \in Events /\ l \in Leads /\ kind \in Kinds /\ SellerOf[l] \in Sellers
    BY SettingsAssumption DEF Tell, PingsShape, Events
<1>2. /\ row \in SellerRows /\ row.configured /\ kind \in row.on /\ row.language \in Languages
      /\ <<SellerOf[l], row>> \in said
    <2>1. Outcome(row, kind) = "Publish" /\ row \in SellerRows \cup {NoRow}
        BY <1>1 DEF Tell, Row, PingsShape
    <2>2. row # NoRow /\ row.configured /\ kind \in row.on
        BY <2>1 DEF Outcome
    <2>3. QED
        BY <1>1, <2>1, <2>2, SettingsAssumption DEF PingsShape
<1>3. /\ new \in Notifications /\ new.lead = l /\ new.kind = kind
      /\ new.agent = row.agent /\ new.channel = row.channel /\ new.summary.language = row.language
      /\ new.minute = clock /\ new.run = run
    BY <1>1, <1>2 DEF Payload, Row, Summary, Notifications, Events, PingsShape
<1> HIDE DEF new, row
<1>4. /\ UNCHANGED <<clock, run, heard, settingVars, event, bus, outbox>>
      /\ told' = told \cup {<<l, kind, clock>>} /\ <<l, kind, clock>> \notin told
      /\ ping' = [ping EXCEPT ![h] = new] /\ step' = [step EXCEPT ![h] = "publish"]
      /\ step[h] = "decide"
    BY DEF Tell, Key, new
<1>5. /\ step'[h] = "publish" /\ ping'[h] = new
      /\ \A g \in Handlers \ {h} : step'[g] = step[g] /\ ping'[g] = ping[g]
    BY <1>4 DEF PingsShape
<1>6. Held' = Held \cup {new} /\ Texted' = Texted /\ Made' = Made \cup {new}
    <2>1. Held' = Held \cup {new}
        BY <1>4, <1>5 DEF Held
    <2>2. QED
        BY <1>4, <2>1 DEF Texted, Made
<1>7. PingsShape'
    <2>1. told' \subseteq Leads \X Kinds \X (0 .. clock')
        BY <1>1, <1>4, BoundsAssumption DEF PingsShape
    <2>2. /\ step' \in [Handlers -> {"idle", "decide", "publish"}]
          /\ ping' \in [Handlers -> Notifications \cup {Nothing}]
        BY <1>3, <1>4 DEF PingsShape
    <2>3. \A g \in Handlers : /\ step'[g] = "idle" <=> event'[g] = Nothing
                              /\ step'[g] = "publish" <=> ping'[g] # Nothing
        BY <1>1, <1>3, <1>4, <1>5, NothingAssumption DEF PingsShape
    <2>4. QED
        BY <1>3, <1>4, <1>6, <2>1, <2>2, <2>3 DEF PingsShape, settingVars, Text, Resolved
<1>8. /\ KeyOf(new) = <<l, kind, clock>>
      /\ \A p \in Made : p.run = run => KeyOf(p) # KeyOf(new)
    BY <1>3, <1>4 DEF KeyOf, Sound
<1>9. new \notin Made
    BY <1>3, <1>8
<1>10. Sound'
    <2>1. \A p : p \in Made \cup {new} => Asked(p)'
        <3>1. \A p : p = new => Asked(p)'
            BY <1>1, <1>2, <1>3, <1>4 DEF Asked, settingVars
        <3>2. \A p \in Made : Asked(p)'
            BY <1>4 DEF Sound, Asked, settingVars
        <3>3. QED
            BY <3>1, <3>2
    <2>2. \A p \in Made' : p.minute <= clock /\ p.run <= run
        BY <1>3, <1>6, BoundsAssumption DEF Sound, PingsShape
    <2>3. \A p \in Made' : p.run = run => KeyOf(p) \in told'
        BY <1>4, <1>6, <1>8 DEF Sound
    <2>4. QED
        BY <1>3, <1>4, <1>6, <2>1, <2>2, <2>3 DEF Sound, KeyOf
<1>11. Unique'
    <2>1. \A p, q \in Made' : Once(p, q)
        BY <1>3, <1>6, <1>8 DEF Unique, Once
    <2>2. \A f, g \in Handlers : step'[f] = "publish" /\ ping'[f] = ping'[g] => f = g
        <3>1. \A g \in Handlers \ {h} : ping[g] # new
            BY <1>3, <1>9, NothingAssumption DEF PingsShape, Made, Held
        <3>2. QED
            BY <1>5, <3>1 DEF Unique
    <2>3. QED
        BY <2>1, <2>2 DEF Unique, Once, KeyOf
<1>12. QED
    BY <1>7, <1>10, <1>11

(* A handler hands its notification over, or drops it.                       *)
LEMMA PublishStep ==
    ASSUME PingsInv, NEW h \in Handlers, PublishPing(h)
    PROVE  PingsInv'
<1> USE DEF PingsInv
<1>1. /\ UNCHANGED <<clock, run, heard, settingVars, told, outbox>>
      /\ bus' \in {bus, bus \cup {ping[h]}}
      /\ step[h] = "publish" /\ ping[h] \in Held
      /\ step'[h] = "idle" /\ event'[h] = Nothing /\ ping'[h] = Nothing
      /\ step' \in [Handlers -> {"idle", "decide", "publish"}]
      /\ event' \in [Handlers -> Events \cup {Nothing}]
      /\ ping' \in [Handlers -> Notifications \cup {Nothing}]
      /\ \A g \in Handlers \ {h} : step'[g] = step[g] /\ event'[g] = event[g] /\ ping'[g] = ping[g]
    BY DEF PublishPing, Finish, PingsShape, Held
<1>2. Texted' = Texted
    BY <1>1 DEF Texted
<1>3. Held' = Held \ {ping[h]}
    BY <1>1 DEF Held, Unique
<1>4. Made' \subseteq Made
    BY <1>1, <1>2, <1>3 DEF Made
<1>5. PingsShape'
    BY <1>1, <1>2, <1>4 DEF PingsShape, settingVars, Text, Resolved
<1>6. Sound'
    BY <1>1, <1>4 DEF Sound, Asked, KeyOf, settingVars
<1>7. Unique'
    <2>1. \A f, g \in Handlers : step'[f] = "publish" /\ ping'[f] = ping'[g] => f = g
        BY <1>1 DEF Unique, PingsShape
    <2>2. QED
        BY <1>4, <2>1 DEF Unique, Once, KeyOf
<1>8. QED
    BY <1>5, <1>6, <1>7

(* The process hears its own notification, for the first time or again, and  *)
(* texts it or not.                                                          *)
LEMMA ForwardStep ==
    ASSUME PingsInv, NEW n \in bus, Forward(n)
    PROVE  PingsInv'
<1> USE DEF PingsInv
<1> DEFINE copy == Copies(n) + 1
<1>1. /\ UNCHANGED <<clock, run, heard, settingVars, told, handlerVars>>
      /\ bus' \subseteq bus /\ outbox' \in {outbox, outbox \cup Text(n, copy)}
    BY DEF Forward
<1>2. copy <= MaxCopies
    BY DEF Forward
<1>3. Held' = Held
    BY <1>1 DEF Held, handlerVars
<1> HIDE DEF copy
<1>4. \A t \in Text(n, copy) : t.ping = n /\ t.copy = copy
    BY DEF Text
<1>5. Texted' \subseteq Texted \cup {n}
    BY <1>1, <1>4 DEF Texted
<1>6. Made' \subseteq Made
    BY <1>1, <1>3, <1>5 DEF Made
<1>7. PingsShape'
    <2>1. \A t \in outbox' : t \in Text(t.ping, t.copy) /\ t.copy <= MaxCopies
        BY <1>1, <1>2, <1>4 DEF PingsShape
    <2>2. QED
        BY <1>1, <1>6, <2>1 DEF PingsShape, settingVars, handlerVars, Text, Resolved
<1>8. Sound'
    BY <1>1, <1>6 DEF Sound, Asked, KeyOf, settingVars
<1>9. Unique'
    BY <1>1, <1>6 DEF Unique, Once, KeyOf, handlerVars
<1>10. QED
    BY <1>7, <1>8, <1>9

(* The settings and the clock.                                               *)
LEMMA SettingsSteps ==
    ASSUME PingsInv, (\E s \in Sellers : PutSeller(s)) \/ PutTemplates \/ Tick \/ UNCHANGED pingsVars
    PROVE  PingsInv'
<1> USE DEF PingsInv
<1>1. /\ UNCHANGED <<run, heard, told, handlerVars, bus, outbox>>
      /\ clock \in Nat /\ clock' \in 0 .. MaxTime /\ clock <= clock'
      /\ said \subseteq said' /\ templates' \subseteq Overrides
      /\ sellers' \in [Sellers -> SellerRows \cup {NoRow}]
      /\ \A s \in Sellers : <<s, sellers'[s]>> \in said'
    <2>1. ASSUME NEW s \in Sellers, PutSeller(s)
          PROVE  /\ UNCHANGED <<clock, run, heard, templates, told, handlerVars, bus, outbox>>
                 /\ said \subseteq said'
                 /\ sellers' \in [Sellers -> SellerRows \cup {NoRow}]
                 /\ \A r \in Sellers : <<r, sellers'[r]>> \in said'
        BY <2>1 DEF PutSeller, PingsShape
    <2>2. CASE PutTemplates \/ Tick \/ UNCHANGED pingsVars
        BY <2>2, BoundsAssumption DEF PutTemplates, Tick, pingsVars, settingVars, PingsShape
    <2>3. QED
        BY <2>1, <2>2, BoundsAssumption DEF PingsShape
<1>2. Held' = Held
    BY <1>1 DEF Held, handlerVars
<1>3. Sound' /\ Unique' /\ Made' = Made
    BY <1>1, <1>2, NothingMade, BoundsAssumption DEF Unique, handlerVars
<1>4. PingsShape'
    <2>1. told' \subseteq Leads \X Kinds \X (0 .. clock')
        BY <1>1, BoundsAssumption DEF PingsShape
    <2>2. QED
        BY <1>1, <1>3, <2>1 DEF PingsShape, handlerVars, Text, Resolved
<1>5. QED
    BY <1>3, <1>4

(* A run's cache goes with it, and so may what was not texted.               *)
LEMMA RestartStep ==
    ASSUME PingsInv, Restart
    PROVE  PingsInv'
<1> USE DEF PingsInv
<1>1. Held' = {} /\ bus' \subseteq bus /\ Texted' = Texted
    BY DEF Restart, Held, Texted
<1>2. Made' \subseteq Made
    BY <1>1 DEF Made
<1>3. PingsShape'
    BY <1>1, <1>2, BoundsAssumption DEF Restart, PingsShape, settingVars, Text, Resolved, NothingAssumption
<1>4. Sound'
    <2>1. \A p \in Made' : Asked(p)' /\ p.minute <= clock' /\ p.run <= run /\ p.run # run'
        <3>1. \A p \in Made' : p.run \in Nat /\ p.run <= run
            BY <1>2, BoundsAssumption DEF Sound, PingsShape, Notifications
        <3>2. run \in Nat /\ run' = run + 1
            BY BoundsAssumption DEF Restart, PingsShape
        <3>3. said' = said /\ clock' = clock
            BY DEF Restart, settingVars
        <3>4. \A p \in Made : Asked(p)' /\ p.minute <= clock'
            BY <3>3 DEF Sound, Asked
        <3>5. QED
            BY <1>2, <3>1, <3>2, <3>4
    <2>2. \A p \in Made' : p.run <= run'
        <3>1. run \in Nat /\ run' = run + 1 /\ \A p \in Made : p.run \in Nat
            BY BoundsAssumption DEF Restart, PingsShape, Notifications
        <3>2. QED
            BY <1>2, <2>1, <3>1
    <2>3. QED
        BY <1>1, <2>1, <2>2 DEF Sound
<1>5. Unique'
    BY <1>1, <1>2 DEF Restart, Unique, Once, KeyOf
<1>6. QED
    BY <1>3, <1>4, <1>5

LEMMA PingsInductive == PingsInv /\ [PingsNext]_pingsVars => PingsInv'
<1> SUFFICES ASSUME PingsInv, [PingsNext]_pingsVars PROVE PingsInv'
    OBVIOUS
<1>1. ASSUME NEW h \in Handlers, HandlerStep(h) PROVE PingsInv'
    BY <1>1, QuietSteps, TellStep, PublishStep DEF HandlerStep
<1>2. ASSUME NEW p \in bus, Forward(p) PROVE PingsInv'
    BY <1>2, ForwardStep
<1>3. CASE (\E s \in Sellers : PutSeller(s)) \/ PutTemplates \/ Tick \/ UNCHANGED pingsVars
    BY <1>3, SettingsSteps
<1>4. CASE Restart
    BY <1>4, RestartStep
<1>5. QED
    BY <1>1, <1>2, <1>3, <1>4 DEF PingsNext

(* Every reachable state is one of the types, and a text that left has an    *)
(* instance to leave by and a mail an address (forwarder.rs).                *)
THEOREM PingsTypeCorrect == PingsSpec => []PingsTypeOK
<1>1. PingsInv => PingsTypeOK
    BY PingsAreSound
<1>2. QED
    BY <1>1, PingsStart, PingsInductive, PTL DEF PingsSpec

(* For any number of handlers, sellers and settings: a text is one that some *)
(* settings of the lead's own seller asked for; and while a run lasts, all   *)
(* texts of one lead, kind and minute are of one notification, however often *)
(* that one is delivered (notification.rs, forwarder.rs).                    *)
THEOREM PingsSound == PingsSpec => []PingsAreAskedFor
<1>1. PingsInv => PingsAreAskedFor
    BY PingsAreSound
<1>2. QED
    BY <1>1, PingsStart, PingsInductive, PTL DEF PingsSpec

===============================================================================
