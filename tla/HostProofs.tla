----------------------------- MODULE HostProofs -----------------------------
(***************************************************************************)
(* Proofs about HostSetup, installing and uninstalling on Windows: for any *)
(* number of versions, settings files, operations, failures and crashes,   *)
(* no command names an executable that is not there, the commandline of    *)
(* every profile can be had back, and the agents of a distro still run.    *)
(***************************************************************************)
EXTENDS HostSetup, SequenceTheorems, TLAPS

---------------------------------------------------------------------------
(* The steps of the two operations.                                        *)
Named == Shims \cup {"startup"}

ProfilePart ==
    {Step("profiles", "backup", w) : w \in {"wrap", "unwrap"} \X Settings}
    \cup {Step("profiles", "empty", f) : f \in Settings}
    \cup {Step("profiles", "refill", f) : f \in Settings}

InstallPart ==
    {Step("stop", "stop", "none"), Step("copy", "create", "none"), Step("copy", "fill", "none")}
    \cup {Put(a) : a \in Named} \cup ProfilePart
    \cup {Step(d, d, "none") : d \in {"links", "shell", "manage", "wrappers", "start"}}

UninstallPart ==
    {Step("stop", "stop", "none"), Step("remove", "unlink", "none"),
     Step("unshell", "unshell", "none"), Step("cleanup", "cleanup", "none")}
    \cup {Delete(a) : a \in Named} \cup ProfilePart

(* A copy of a settings file is followed by its write.                     *)
Paired(s) ==
    \A i \in 1 .. Len(s) :
        /\ s[i].do = "backup" =>
              /\ i + 2 <= Len(s)
              /\ s[i + 1] = Step("profiles", "empty", s[i].with[2])
              /\ s[i + 2] = Step("profiles", "refill", s[i].with[2])
        /\ i > 1 /\ s[i].do = "empty" => s[i - 1].do = "backup"
        /\ i > 1 /\ s[i].do = "refill" => s[i - 1].do = "empty"

Begins(s) == s # <<>> => s[1].do \notin {"empty", "refill"}

Listed(s, part) == s \in Seq(part) /\ Paired(s) /\ Begins(s)

---------------------------------------------------------------------------
(* The inductive invariant.                                                *)
Commandline == [layers : Seq(Versions \cup {NoExe}), torn : BOOLEAN]
Restorable == {c \in Commandline : Extract(c) = Native}

TodoInv ==
    /\ setup \in [op : {"none", "install", "uninstall"},
                  exe : Versions \cup {NoExe},
                  todo : Seq(InstallPart \cup UninstallPart), new : Commandline]
    /\ setup.op = "none" => setup.todo = <<>>
    /\ setup.op = "install" => setup.exe \in Versions /\ setup.todo \in Seq(InstallPart)
    /\ setup.op = "uninstall" => setup.todo \in Seq(UninstallPart)
    /\ Paired(setup.todo)

(* The executable is there before anything names it.                       *)
Copies(s) ==
    \/ s[1] = Step("copy", "create", "none")
    \/ /\ s[1] = Step("stop", "stop", "none")
       /\ Len(s) >= 2 /\ s[2] = Step("copy", "create", "none")

(* What names an executable goes before the executables do.                *)
Removes(s, a) ==
    \E i \in 1 .. Len(s) :
        /\ \/ s[i] = Delete(a)
           \/ s[i].do = "unlink" /\ a \in {"links", "manage"}
        /\ \A j \in 1 .. i : s[j].part \in {"stop", "remove"}

CommandsInv ==
    /\ exes \in [Versions -> {"absent", "cut", "whole"}]
    /\ command \in [Commands -> Versions \cup {NoExe}]
    /\ NoDanglingCommand
    /\ setup.op = "install" /\ setup.todo # <<>> =>
          exes[setup.exe] # "absent" \/ Copies(setup.todo)
    /\ setup.op = "uninstall" /\ setup.todo # <<>> =>
          \A a \in Commands : command[a] = NoExe \/ Removes(setup.todo, a)

HasBackup(f) == \E c \in backups[f] : Extract(c) = Native

ProfilesInv ==
    /\ profile \in [Settings -> Restorable \cup {TornFile}]
    /\ backups \in [Settings -> SUBSET Commandline]
    /\ \A f \in Settings : profile[f].torn => HasBackup(f)
    /\ setup.todo # <<>> /\ setup.todo[1].do = "empty" => HasBackup(setup.todo[1].with)
    /\ setup.todo # <<>> /\ setup.todo[1].do \in {"empty", "refill"} =>
          setup.new \in Restorable

Distro == [shell : BOOLEAN, bin : {"absent", "agent", "link", "wrapper"},
           target : {"agent", "wrapper"},
           real : {"absent", "agent", "usr", "shim", "target"}, exe : Versions \cup {NoExe}]

(* Where a wrapper is, something is in real-bin: what the wrapper takes    *)
(* the place of, or a link.                                                *)
DistroInv ==
    /\ machine \in Machine /\ distro \in Distro
    /\ distro.bin = "absent" => machine.usr
    /\ Content(distro) = "wrapper" => distro.real # "absent"

HostInv == TodoInv /\ CommandsInv /\ ProfilesInv /\ DistroInv

---------------------------------------------------------------------------
(* Lists of steps that are joined, and what is left of one.                *)

LEMMA StepFields ==
    \A p, d, w : Step(p, d, w).part = p /\ Step(p, d, w).do = d /\ Step(p, d, w).with = w
BY DEF Step

(* A list after another: each keeps its pairs.                             *)
LEMMA JoinSteps ==
    ASSUME NEW part, NEW s, NEW t, Listed(s, part), Listed(t, part)
    PROVE  Listed(s \o t, part)
<1> DEFINE r == s \o t
<1>1. /\ s \in Seq(part) /\ t \in Seq(part) /\ Paired(s) /\ Paired(t)
      /\ Begins(s) /\ Begins(t)
  BY DEF Listed
<1>2. r \in Seq(part)
  BY <1>1, ConcatProperties
<1>3. Len(r) = Len(s) + Len(t) /\ Len(s) \in Nat /\ Len(t) \in Nat
  BY <1>1, ConcatProperties, LenProperties
<1>4. \A i \in 1 .. Len(r) : r[i] = IF i <= Len(s) THEN s[i] ELSE t[i - Len(s)]
  BY <1>1, ConcatProperties
<1>5. s = <<>> <=> Len(s) = 0
  BY <1>1, EmptySeq
<1>6. t = <<>> <=> Len(t) = 0
  BY <1>1, EmptySeq
<1>7. r = <<>> <=> Len(r) = 0
  BY <1>2, EmptySeq
<1> HIDE DEF r
<1>8. Begins(r)
  BY <1>1, <1>3, <1>4, <1>5, <1>6, <1>7 DEF Begins
<1>9. Paired(r)
  <2> SUFFICES ASSUME NEW i \in 1 .. Len(r)
               PROVE  /\ r[i].do = "backup" =>
                           /\ i + 2 <= Len(r)
                           /\ r[i + 1] = Step("profiles", "empty", r[i].with[2])
                           /\ r[i + 2] = Step("profiles", "refill", r[i].with[2])
                      /\ i > 1 /\ r[i].do = "empty" => r[i - 1].do = "backup"
                      /\ i > 1 /\ r[i].do = "refill" => r[i - 1].do = "empty"
    BY DEF Paired
  <2>1. CASE i <= Len(s)
    <3>1. i \in 1 .. Len(s) /\ r[i] = s[i]
      BY <2>1, <1>3, <1>4
    <3>2. i > 1 => r[i - 1] = s[i - 1]
      BY <2>1, <1>3, <1>4
    <3>3. i + 2 <= Len(s) => i + 2 <= Len(r) /\ r[i + 1] = s[i + 1] /\ r[i + 2] = s[i + 2]
      BY <1>3, <1>4
    <3> QED
      BY <1>1, <3>1, <3>2, <3>3 DEF Paired
  <2>2. CASE i > Len(s)
    <3> DEFINE k == i - Len(s)
    <3>1. k \in 1 .. Len(t) /\ r[i] = t[k]
      BY <2>2, <1>3, <1>4
    <3>2. k > 1 => r[i - 1] = t[k - 1]
      BY <2>2, <1>3, <1>4
    <3>3. k + 2 <= Len(t) => i + 2 <= Len(r) /\ r[i + 1] = t[k + 1] /\ r[i + 2] = t[k + 2]
      BY <2>2, <1>3, <1>4
    <3>4. k = 1 => t[k].do \notin {"empty", "refill"}
      BY <1>1, <1>6, <1>3, <3>1 DEF Begins
    <3> HIDE DEF k
    <3> QED
      BY <1>1, <3>1, <3>2, <3>3, <3>4 DEF Paired
  <2> QED
    BY <2>1, <2>2, <1>3
<1> QED
  BY <1>2, <1>8, <1>9 DEF Listed, r

(* Steps that touch no profile are a list, of any length.                  *)
LEMMA PlainSteps ==
    ASSUME NEW part, NEW s \in Seq(part),
           \A i \in 1 .. Len(s) : s[i].do \notin {"backup", "empty", "refill"}
    PROVE  Listed(s, part)
<1>1. Len(s) \in Nat /\ (s = <<>> <=> Len(s) = 0)
  BY EmptySeq, LenProperties
<1> QED
  BY <1>1 DEF Listed, Paired, Begins

LEMMA OptionalSteps ==
    ASSUME NEW part, NEW s, Listed(s, part), NEW b
    PROVE  Listed(If(b, s), part)
<1>1. Listed(<<>>, part)
  BY DEF Listed, Paired, Begins
<1> QED
  BY <1>1 DEF If

(* The steps that change the profiles, three of every settings file.       *)
LEMMA ProfileLists ==
    ASSUME NEW do \in {"wrap", "unwrap"}
    PROVE  Listed(ProfileSteps(do), ProfilePart)
<1> DEFINE p == ProfileSteps(do)
           L == Len(SettingsPaths)
           F(i) == SettingsPaths[(i + 2) \div 3]
<1>1. L \in Nat /\ \A j \in 1 .. L : SettingsPaths[j] \in Settings
  BY SetupAssumption, LenProperties, ElementOfSeq
<1> HIDE DEF L
<1>2. \A i \in 1 .. 3 * L : (i + 2) \div 3 \in 1 .. L
  BY <1>1
<1>3. \A i \in 1 .. 3 * L : F(i) \in Settings
  BY <1>1, <1>2
<1> DEFINE Copied(i) == p[i] = Step("profiles", "backup", <<do, F(i)>>)
           Emptied(i) == p[i] = Step("profiles", "empty", F(i))
           Refilled(i) == p[i] = Step("profiles", "refill", F(i))
<1>4. \A i \in 1 .. 3 * L : \/ i % 3 = 1 /\ Copied(i)
                            \/ i % 3 = 2 /\ Emptied(i)
                            \/ i % 3 = 0 /\ Refilled(i)
  <2> HIDE DEF Copied, Emptied, Refilled
  <2> SUFFICES ASSUME NEW i \in 1 .. 3 * L
               PROVE  \/ i % 3 = 1 /\ Copied(i)
                      \/ i % 3 = 2 /\ Emptied(i)
                      \/ i % 3 = 0 /\ Refilled(i)
    OBVIOUS
  <2>1. i % 3 \in 0 .. 2
    BY <1>1
  <2>2. p[i] = CASE i % 3 = 1 -> Step("profiles", "backup", <<do, F(i)>>)
                 [] i % 3 = 2 -> Step("profiles", "empty", F(i))
                 [] i % 3 = 0 -> Step("profiles", "refill", F(i))
    BY DEF ProfileSteps, L
  <2> HIDE DEF p, F
  <2>3. i % 3 = 1 => p[i] = Step("profiles", "backup", <<do, F(i)>>)
    BY <2>2
  <2>4. i % 3 = 2 => p[i] = Step("profiles", "empty", F(i))
    BY <2>2
  <2>5. i % 3 = 0 => p[i] = Step("profiles", "refill", F(i))
    BY <2>2
  <2> QED
    BY <2>1, <2>3, <2>4, <2>5 DEF Copied, Emptied, Refilled
<1>5. p = [i \in 1 .. 3 * L |-> p[i]]
  BY DEF ProfileSteps, L
<1> HIDE DEF p
<1>6. \A i \in 1 .. 3 * L : p[i] \in ProfilePart
  BY <1>3, <1>4 DEF ProfilePart
<1>7. p \in Seq(ProfilePart) /\ Len(p) = 3 * L
  BY <1>1, <1>5, <1>6, SeqDef
<1>8. Begins(p)
  BY <1>1, <1>4, <1>7 DEF Begins, Step
<1>9. Paired(p)
  <2> SUFFICES ASSUME NEW i \in 1 .. 3 * L
               PROVE  /\ p[i].do = "backup" =>
                           /\ i + 2 <= 3 * L
                           /\ p[i + 1] = Step("profiles", "empty", p[i].with[2])
                           /\ p[i + 2] = Step("profiles", "refill", p[i].with[2])
                      /\ i > 1 /\ p[i].do = "empty" => p[i - 1].do = "backup"
                      /\ i > 1 /\ p[i].do = "refill" => p[i - 1].do = "empty"
    BY <1>7 DEF Paired
  <2>1. CASE i % 3 = 1
    <3>1. i + 2 <= 3 * L /\ (i + 1) % 3 = 2 /\ (i + 2) % 3 = 0
      BY <2>1, <1>1
    <3>2. (i + 1 + 2) \div 3 = (i + 2) \div 3 /\ (i + 2 + 2) \div 3 = (i + 2) \div 3
      BY <2>1, <1>1
    <3>3. F(i + 1) = F(i) /\ F(i + 2) = F(i)
      BY <3>2
    <3> HIDE DEF Copied, Emptied, Refilled
    <3>4. Copied(i) /\ Emptied(i + 1) /\ Refilled(i + 2)
      BY <2>1, <3>1, <1>1, <1>4
    <3> HIDE DEF F
    <3> QED
      BY <3>1, <3>3, <3>4 DEF Step, Copied, Emptied, Refilled
  <2>2. CASE i % 3 = 2
    <3>1. i - 1 \in 1 .. 3 * L /\ (i - 1) % 3 = 1
      BY <2>2, <1>1
    <3> HIDE DEF Copied, Emptied, Refilled
    <3>2. Copied(i - 1) /\ Emptied(i)
      BY <2>2, <3>1, <1>4
    <3> HIDE DEF F
    <3> QED
      BY <3>2 DEF Step, Copied, Emptied
  <2>3. CASE i % 3 = 0
    <3>1. i - 1 \in 1 .. 3 * L /\ (i - 1) % 3 = 2
      BY <2>3, <1>1
    <3> HIDE DEF Copied, Emptied, Refilled
    <3>2. Emptied(i - 1) /\ Refilled(i)
      BY <2>3, <3>1, <1>4
    <3> HIDE DEF F
    <3> QED
      BY <3>2 DEF Step, Emptied, Refilled
  <2> QED
    BY <2>1, <2>2, <2>3, <1>1
<1> QED
  BY <1>7, <1>8, <1>9 DEF Listed, p

(* What is left of a list when n steps are done.                           *)
LEMMA StepsLeft ==
    ASSUME NEW part, NEW s \in Seq(part), Paired(s), NEW n \in 0 .. Len(s)
    PROVE  /\ SubSeq(s, n + 1, Len(s)) \in Seq(part)
           /\ Len(SubSeq(s, n + 1, Len(s))) = Len(s) - n
           /\ \A i \in 1 .. Len(s) - n : SubSeq(s, n + 1, Len(s))[i] = s[n + i]
           /\ Paired(SubSeq(s, n + 1, Len(s)))
<1> DEFINE r == SubSeq(s, n + 1, Len(s))
<1>1. Len(s) \in Nat
  BY LenProperties
<1>2. r \in Seq(part) /\ Len(r) = Len(s) - n
  BY <1>1, SubSeqProperties
<1>3. \A i \in 1 .. Len(s) - n : r[i] = s[n + i]
  BY <1>1, SubSeqProperties
<1> HIDE DEF r
<1>4. Paired(r)
  <2> SUFFICES ASSUME NEW i \in 1 .. Len(r)
               PROVE  /\ r[i].do = "backup" =>
                           /\ i + 2 <= Len(r)
                           /\ r[i + 1] = Step("profiles", "empty", r[i].with[2])
                           /\ r[i + 2] = Step("profiles", "refill", r[i].with[2])
                      /\ i > 1 /\ r[i].do = "empty" => r[i - 1].do = "backup"
                      /\ i > 1 /\ r[i].do = "refill" => r[i - 1].do = "empty"
    BY DEF Paired
  <2> DEFINE k == n + i
  <2>1. k \in 1 .. Len(s) /\ r[i] = s[k]
    BY <1>1, <1>2, <1>3
  <2>2. i > 1 => k > 1 /\ r[i - 1] = s[k - 1]
    BY <1>1, <1>2, <1>3
  <2>3. ASSUME k + 2 <= Len(s)
        PROVE  i + 2 <= Len(r) /\ r[i + 1] = s[k + 1] /\ r[i + 2] = s[k + 2]
    <3>1. i + 1 \in 1 .. Len(s) - n /\ i + 2 \in 1 .. Len(s) - n
      BY <1>1, <1>2, <2>3
    <3>2. r[i + 1] = s[n + (i + 1)] /\ r[i + 2] = s[n + (i + 2)]
      BY <1>3, <3>1
    <3>3. n + (i + 1) = k + 1 /\ n + (i + 2) = k + 2
      BY <3>1
    <3>4. i + 2 <= Len(r)
      BY <1>1, <1>2, <3>1
    <3>5. QED BY <3>2, <3>3, <3>4
  <2> HIDE DEF k
  <2> QED
    BY <2>1, <2>2, <2>3 DEF Paired
<1> QED
  BY <1>2, <1>3, <1>4 DEF r

LEMMA MoreSteps ==
    ASSUME NEW part, NEW more, part \subseteq more, NEW s, Listed(s, part)
    PROVE  Listed(s, more)
<1>1. s \in Seq(part)
  BY DEF Listed
<1>2. s \in Seq(more)
  BY <1>1, SeqDef
<1> QED
  BY <1>2 DEF Listed

---------------------------------------------------------------------------
(* The lists of the two operations.                                        *)

Installs(s) == Listed(s, InstallPart) /\ Len(s) >= 2 /\ Copies(s)
Uninstalls(s) == Listed(s, UninstallPart) /\ \A a \in Commands : Removes(s, a)

(* More steps after the first ones leave these first.                      *)
LEMMA JoinInstall ==
    ASSUME NEW s, NEW t, Installs(s), Listed(t, InstallPart)
    PROVE  Installs(s \o t)
<1> DEFINE r == s \o t
<1>1. Listed(r, InstallPart)
  BY JoinSteps DEF Installs
<1>2. s \in Seq(InstallPart) /\ t \in Seq(InstallPart)
  BY DEF Installs, Listed
<1>3. Len(r) = Len(s) + Len(t) /\ Len(s) \in Nat /\ Len(t) \in Nat
  BY <1>2, ConcatProperties, LenProperties
<1>4. \A i \in 1 .. Len(s) + Len(t) : r[i] = IF i <= Len(s) THEN s[i] ELSE t[i - Len(s)]
  BY <1>2, ConcatProperties
<1> HIDE DEF r
<1>5. r[1] = s[1] /\ r[2] = s[2]
  BY <1>3, <1>4 DEF Installs
<1>6. Len(r) >= 2
  BY <1>3 DEF Installs
<1>7. Copies(r)
  BY <1>5, <1>6 DEF Installs, Copies
<1>8. Installs(r)
  BY <1>1, <1>6, <1>7 DEF Installs
<1> QED
  BY <1>8 DEF r

LEMMA JoinUninstall ==
    ASSUME NEW s, NEW t, Uninstalls(s), Listed(t, UninstallPart)
    PROVE  Uninstalls(s \o t)
<1> DEFINE r == s \o t
<1>1. Listed(r, UninstallPart)
  BY JoinSteps DEF Uninstalls
<1>2. s \in Seq(UninstallPart) /\ t \in Seq(UninstallPart)
  BY DEF Uninstalls, Listed
<1>3. Len(r) = Len(s) + Len(t) /\ Len(s) \in Nat /\ Len(t) \in Nat
  BY <1>2, ConcatProperties, LenProperties
<1>4. \A i \in 1 .. Len(s) + Len(t) : r[i] = IF i <= Len(s) THEN s[i] ELSE t[i - Len(s)]
  BY <1>2, ConcatProperties
<1> HIDE DEF r
<1>5. ASSUME NEW a \in Commands
      PROVE  Removes(r, a)
  <2>1. PICK i \in 1 .. Len(s) :
          /\ \/ s[i] = Delete(a)
             \/ s[i].do = "unlink" /\ a \in {"links", "manage"}
          /\ \A j \in 1 .. i : s[j].part \in {"stop", "remove"}
    BY DEF Uninstalls, Removes
  <2>2. \A j \in 1 .. i : r[j] = s[j]
    BY <1>3, <1>4
  <2>3. i \in 1 .. Len(r) /\ r[i] = s[i]
    BY <1>3, <2>2
  <2> QED
    BY <2>1, <2>2, <2>3 DEF Removes
<1>6. Uninstalls(r)
  BY <1>1, <1>5 DEF Uninstalls
<1> QED
  BY <1>6 DEF r

(* The steps of the two operations that touch no profile.                  *)
Plain(x, part) == x \in part /\ x.do \notin {"backup", "empty", "refill"}

LEMMA InstallPlain ==
    /\ Plain(Step("stop", "stop", "none"), InstallPart)
    /\ Plain(Step("copy", "create", "none"), InstallPart)
    /\ Plain(Step("copy", "fill", "none"), InstallPart)
    /\ \A a \in Named : Plain(Put(a), InstallPart)
    /\ \A d \in {"links", "shell", "manage", "wrappers", "start"} :
          Plain(Step(d, d, "none"), InstallPart)
<1>1. Plain(Step("stop", "stop", "none"), InstallPart)  BY DEF Plain, InstallPart, Step
<1>2. Plain(Step("copy", "create", "none"), InstallPart)  BY DEF Plain, InstallPart, Step
<1>3. Plain(Step("copy", "fill", "none"), InstallPart)  BY DEF Plain, InstallPart, Step
<1>4. \A a \in Named : Plain(Put(a), InstallPart)
  <2>1. \A a \in Named : Put(a) \in InstallPart
    BY DEF InstallPart
  <2> QED
    BY <2>1 DEF Plain, Put, Step
<1>5. \A d \in {"links", "shell", "manage", "wrappers", "start"} :
          Plain(Step(d, d, "none"), InstallPart)
  <2>1. \A d \in {"links", "shell", "manage", "wrappers", "start"} :
            Step(d, d, "none") \in InstallPart
    BY DEF InstallPart
  <2> QED
    BY <2>1 DEF Plain, Step
<1> QED
  BY <1>1, <1>2, <1>3, <1>4, <1>5

LEMMA UninstallPlain ==
    /\ Plain(Step("stop", "stop", "none"), UninstallPart)
    /\ Plain(Step("remove", "unlink", "none"), UninstallPart)
    /\ Plain(Step("unshell", "unshell", "none"), UninstallPart)
    /\ Plain(Step("cleanup", "cleanup", "none"), UninstallPart)
    /\ \A a \in Named : Plain(Delete(a), UninstallPart)
<1>1. Plain(Step("stop", "stop", "none"), UninstallPart)  BY DEF Plain, UninstallPart, Step
<1>2. Plain(Step("remove", "unlink", "none"), UninstallPart)  BY DEF Plain, UninstallPart, Step
<1>3. Plain(Step("unshell", "unshell", "none"), UninstallPart)  BY DEF Plain, UninstallPart, Step
<1>4. Plain(Step("cleanup", "cleanup", "none"), UninstallPart)  BY DEF Plain, UninstallPart, Step
<1>5. \A a \in Named : Plain(Delete(a), UninstallPart)
  <2>1. \A a \in Named : Delete(a) \in UninstallPart
    BY DEF UninstallPart
  <2> QED
    BY <2>1 DEF Plain, Delete, Step
<1> QED
  BY <1>1, <1>2, <1>3, <1>4, <1>5

LEMMA OneStep ==
    ASSUME NEW part, NEW x, Plain(x, part)
    PROVE  Listed(<<x>>, part)
<1> DEFINE one == <<x>>
<1>1. one \in Seq(part) /\ Len(one) = 1 /\ one[1] = x
  BY DEF Plain
<1> HIDE DEF one
<1>2. \A i \in 1 .. Len(one) : one[i].do \notin {"backup", "empty", "refill"}
  BY <1>1 DEF Plain
<1>3. Listed(one, part)
  BY <1>1, <1>2, PlainSteps
<1> QED
  BY <1>3 DEF one

LEMMA InstallLists ==
    ASSUME NEW o
    PROVE  Installs(InstallSteps(o))
<1> DEFINE first == <<Step("stop", "stop", "none"), Step("copy", "create", "none"),
                      Step("copy", "fill", "none"), Put("codex"), Put("claude"), Put("wsl")>>
           startup == If("startup" \in o, <<Put("startup")>>)
           profiles == ProfileSteps(IF "terminal" \in o THEN "wrap" ELSE "unwrap")
           links == If("links" \in o, <<Step("links", "links", "none")>>)
           shell == If("shell" \in o, <<Step("shell", "shell", "none")>>)
           manage == If("manage" \in o, <<Step("manage", "manage", "none")>>)
           wrappers == If("wrappers" \in o, <<Step("wrappers", "wrappers", "none")>>)
           last == <<Step("start", "start", "none")>>
<1>1. first \in Seq(InstallPart) /\ Len(first) = 6
  <2> DEFINE a1 == Step("stop", "stop", "none")
             a2 == Step("copy", "create", "none")
             a3 == Step("copy", "fill", "none")
             a4 == Put("codex")
             a5 == Put("claude")
             a6 == Put("wsl")
  <2>1. a1 \in InstallPart /\ a2 \in InstallPart /\ a3 \in InstallPart
    BY InstallPlain DEF Plain
  <2>2. a4 \in InstallPart /\ a5 \in InstallPart /\ a6 \in InstallPart
    BY InstallPlain DEF Plain, Named, Shims
  <2> HIDE DEF a1, a2, a3, a4, a5, a6
  <2>3. <<a1, a2, a3, a4, a5, a6>> \in Seq(InstallPart)
    BY <2>1, <2>2
  <2> QED
    BY <2>3 DEF a1, a2, a3, a4, a5, a6
<1>2. \A i \in 1 .. 6 : first[i].do \notin {"backup", "empty", "refill"}
  <2>1. /\ first[1].do = "stop" /\ first[2].do = "create" /\ first[3].do = "fill"
        /\ first[4].do = "write" /\ first[5].do = "write" /\ first[6].do = "write"
    BY DEF Put, Step
  <2> HIDE DEF first
  <2> QED
    BY <2>1
<1>3. Installs(first)
  <2>1. Copies(first)
    BY DEF Copies
  <2> HIDE DEF first
  <2>2. Listed(first, InstallPart)
    BY <1>1, <1>2, PlainSteps
  <2> QED
    BY <2>1, <2>2, <1>1 DEF Installs
<1>5. /\ Listed(startup, InstallPart) /\ Listed(links, InstallPart)
      /\ Listed(shell, InstallPart) /\ Listed(manage, InstallPart)
      /\ Listed(wrappers, InstallPart) /\ Listed(last, InstallPart)
  <2>1. \A x : Plain(x, InstallPart) => Listed(<<x>>, InstallPart)
    BY OneStep
  <2>2. \A x : Listed(<<x>>, InstallPart) => \A b : Listed(If(b, <<x>>), InstallPart)
    BY OptionalSteps
  <2>3. \A x : Plain(x, InstallPart) => \A b : Listed(If(b, <<x>>), InstallPart)
    BY <2>1, <2>2
  <2>4. Plain(Put("startup"), InstallPart)
    BY InstallPlain DEF Named
  <2>5. /\ Plain(Step("links", "links", "none"), InstallPart)
        /\ Plain(Step("shell", "shell", "none"), InstallPart)
        /\ Plain(Step("manage", "manage", "none"), InstallPart)
        /\ Plain(Step("wrappers", "wrappers", "none"), InstallPart)
        /\ Plain(Step("start", "start", "none"), InstallPart)
    BY InstallPlain
  <2> QED
    BY <2>1, <2>3, <2>4, <2>5
<1>6. Listed(profiles, InstallPart)
  <2> DEFINE do == IF "terminal" \in o THEN "wrap" ELSE "unwrap"
  <2>1. do \in {"wrap", "unwrap"}
    OBVIOUS
  <2>2. ProfilePart \subseteq InstallPart
    BY DEF InstallPart
  <2> HIDE DEF do
  <2>3. Listed(ProfileSteps(do), InstallPart)
    BY <2>1, <2>2, ProfileLists, MoreSteps
  <2> QED
    BY <2>3 DEF do
<1>7. InstallSteps(o) = first \o startup \o profiles \o links \o shell \o manage
                              \o wrappers \o last
  BY DEF InstallSteps
<1> HIDE DEF first, startup, profiles, links, shell, manage, wrappers, last
<1> DEFINE r1 == first \o startup
           r2 == r1 \o profiles
           r3 == r2 \o links
           r4 == r3 \o shell
           r5 == r4 \o manage
           r6 == r5 \o wrappers
           r7 == r6 \o last
<1>11. Installs(r1)  BY <1>3, <1>5, JoinInstall
<1> HIDE DEF r1
<1>12. Installs(r2)  BY <1>11, <1>6, JoinInstall
<1> HIDE DEF r2
<1>13. Installs(r3)  BY <1>12, <1>5, JoinInstall
<1> HIDE DEF r3
<1>14. Installs(r4)  BY <1>13, <1>5, JoinInstall
<1> HIDE DEF r4
<1>15. Installs(r5)  BY <1>14, <1>5, JoinInstall
<1> HIDE DEF r5
<1>16. Installs(r6)  BY <1>15, <1>5, JoinInstall
<1> HIDE DEF r6
<1>17. Installs(r7)  BY <1>16, <1>5, JoinInstall
<1> QED
  BY <1>7, <1>17 DEF r1, r2, r3, r4, r5, r6

LEMMA UninstallLists ==
    ASSUME NEW o
    PROVE  Uninstalls(UninstallSteps(o))
<1> DEFINE first == <<Step("stop", "stop", "none"), Delete("startup"), Delete("codex"),
                      Delete("claude"), Delete("wsl"), Step("remove", "unlink", "none"),
                      Step("unshell", "unshell", "none")>>
           profiles == If("keep" \notin o, ProfileSteps("unwrap"))
           last == <<Step("cleanup", "cleanup", "none")>>
<1>1. first \in Seq(UninstallPart) /\ Len(first) = 7
  <2> DEFINE a1 == Step("stop", "stop", "none")
             a2 == Delete("startup")
             a3 == Delete("codex")
             a4 == Delete("claude")
             a5 == Delete("wsl")
             a6 == Step("remove", "unlink", "none")
             a7 == Step("unshell", "unshell", "none")
  <2>1. a1 \in UninstallPart /\ a6 \in UninstallPart /\ a7 \in UninstallPart
    BY UninstallPlain DEF Plain
  <2>2. /\ a2 \in UninstallPart /\ a3 \in UninstallPart /\ a4 \in UninstallPart
        /\ a5 \in UninstallPart
    BY UninstallPlain DEF Plain, Named, Shims
  <2> HIDE DEF a1, a2, a3, a4, a5, a6, a7
  <2>3. <<a1, a2, a3, a4, a5, a6, a7>> \in Seq(UninstallPart)
    BY <2>1, <2>2
  <2> QED
    BY <2>3 DEF a1, a2, a3, a4, a5, a6, a7
<1>2. \A i \in 1 .. 7 : first[i].do \notin {"backup", "empty", "refill"}
  <2>1. /\ first[1].do = "stop" /\ first[2].do = "remove" /\ first[3].do = "remove"
        /\ first[4].do = "remove" /\ first[5].do = "remove" /\ first[6].do = "unlink"
        /\ first[7].do = "unshell"
    BY DEF Delete, Step
  <2> HIDE DEF first
  <2> QED
    BY <2>1
<1>3. Uninstalls(first)
  <2>1. \A j \in 1 .. 6 : first[j].part \in {"stop", "remove"}
    <3>1. /\ first[1].part = "stop" /\ first[2].part = "remove"
          /\ first[3].part = "remove" /\ first[4].part = "remove"
          /\ first[5].part = "remove" /\ first[6].part = "remove"
      BY DEF Delete, Step
    <3> HIDE DEF first
    <3> QED
      BY <3>1
  <2>2. /\ first[2] = Delete("startup") /\ first[3] = Delete("codex")
        /\ first[4] = Delete("claude") /\ first[5] = Delete("wsl")
        /\ first[6].do = "unlink"
    BY DEF Step
  <2> HIDE DEF first
  <2>3. \A i \in 1 .. 6 : \A j \in 1 .. i : first[j].part \in {"stop", "remove"}
    BY <2>1
  <2>4. \A a \in Commands : Removes(first, a)
    <3>1. Removes(first, "startup")  BY <1>1, <2>2, <2>3 DEF Removes
    <3>2. Removes(first, "codex")  BY <1>1, <2>2, <2>3 DEF Removes
    <3>3. Removes(first, "claude")  BY <1>1, <2>2, <2>3 DEF Removes
    <3>4. Removes(first, "wsl")  BY <1>1, <2>2, <2>3 DEF Removes
    <3>5. Removes(first, "links")  BY <1>1, <2>2, <2>3 DEF Removes
    <3>6. Removes(first, "manage")  BY <1>1, <2>2, <2>3 DEF Removes
    <3> QED
      BY <3>1, <3>2, <3>3, <3>4, <3>5, <3>6 DEF Commands, Shims
  <2>5. Listed(first, UninstallPart)
    BY <1>1, <1>2, PlainSteps
  <2> QED
    BY <2>4, <2>5 DEF Uninstalls
<1>4. Listed(last, UninstallPart)
  BY UninstallPlain, OneStep
<1>5. Listed(profiles, UninstallPart)
  <2>1. ProfilePart \subseteq UninstallPart
    BY DEF UninstallPart
  <2> DEFINE s == ProfileSteps("unwrap")
  <2>2. Listed(s, ProfilePart)
    BY ProfileLists
  <2> HIDE DEF s
  <2>3. Listed(s, UninstallPart)
    BY <2>1, <2>2, MoreSteps
  <2>4. \A b : Listed(If(b, s), UninstallPart)
    BY <2>3, OptionalSteps
  <2> QED
    BY <2>4 DEF s
<1>6. UninstallSteps(o) = first \o profiles \o last
  BY DEF UninstallSteps
<1> HIDE DEF first, profiles, last
<1> DEFINE r1 == first \o profiles
           r2 == r1 \o last
<1>7. Uninstalls(r1)
  BY <1>3, <1>5, JoinUninstall
<1> HIDE DEF r1
<1>8. Uninstalls(r2)
  BY <1>4, <1>7, JoinUninstall
<1> QED
  BY <1>6, <1>8 DEF r1

---------------------------------------------------------------------------
(* What is known of a step by what it does.                                *)

ProfileStep(x) ==
    /\ x.part = "profiles" => x.do \in {"backup", "empty", "refill"}
    /\ x.do \in {"backup", "empty", "refill"} => x.part = "profiles"
    /\ x.do = "backup" => x.with[1] \in {"wrap", "unwrap"} /\ x.with[2] \in Settings
    /\ x.do \in {"empty", "refill"} => x.with \in Settings

LEMMA ProfileKinds ==
    ASSUME NEW x \in ProfilePart
    PROVE  x.do \in {"backup", "empty", "refill"} /\ ProfileStep(x)
<1>1. CASE \E w \in {"wrap", "unwrap"} \X Settings : x = Step("profiles", "backup", w)
  BY <1>1 DEF ProfileStep, Step
<1>2. CASE \E f \in Settings : x = Step("profiles", "empty", f)
  BY <1>2 DEF ProfileStep, Step
<1>3. CASE \E f \in Settings : x = Step("profiles", "refill", f)
  BY <1>3 DEF ProfileStep, Step
<1> QED
  BY <1>1, <1>2, <1>3 DEF ProfilePart

LEMMA OtherKinds ==
    ASSUME NEW x, x.do \notin {"backup", "empty", "refill"}, x.part # "profiles"
    PROVE  ProfileStep(x)
BY DEF ProfileStep

LEMMA InstallKinds ==
    ASSUME NEW x \in InstallPart
    PROVE  /\ x.do \notin {"remove", "unlink", "unshell", "cleanup"}
           /\ x.do = "write" => x.with \in Named
           /\ x.part \in Warned => x.do \notin {"stop", "create"}
           /\ ProfileStep(x)
<1>1. CASE x \in ProfilePart
  <2>1. x.do \in {"backup", "empty", "refill"} /\ ProfileStep(x)
    BY <1>1, ProfileKinds
  <2>2. x.part = "profiles" /\ x.part \in Warned
    BY <2>1 DEF ProfileStep, Warned
  <2>3. x.do \notin {"stop", "create", "write", "remove", "unlink", "unshell", "cleanup"}
    BY <2>1
  <2> QED
    BY <2>1, <2>2, <2>3
<1>2. CASE x = Step("stop", "stop", "none")
  BY <1>2 DEF ProfileStep, Step, Warned
<1>3. CASE \E d \in {"create", "fill"} : x = Step("copy", d, "none")
  <2> DEFINE D == {"create", "fill"}
  <2>0. PICK d \in D : x = Step("copy", d, "none")
    BY <1>3
  <2> HIDE DEF D
  <2>1. x.do \in D /\ x.part = "copy"
    BY <2>0 DEF Step
  <2> USE DEF D
  <2>2. ProfileStep(x)
    BY <2>1, OtherKinds
  <2> QED
    BY <2>1, <2>2 DEF Warned
<1>4. CASE \E a \in Named : x = Put(a)
  BY <1>4 DEF ProfileStep, Put, Step, Warned
<1>5. CASE \E d \in {"links", "shell", "manage", "wrappers", "start"} : x = Step(d, d, "none")
  <2> DEFINE D == {"links", "shell", "manage", "wrappers", "start"}
  <2>0. PICK d \in D : x = Step(d, d, "none")
    BY <1>5
  <2> HIDE DEF D
  <2>1. x.do \in D /\ x.part = x.do
    BY <2>0 DEF Step
  <2> USE DEF D
  <2>2. ProfileStep(x)
    BY <2>1, OtherKinds
  <2> QED
    BY <2>1, <2>2
<1> QED
  BY <1>1, <1>2, <1>3, <1>4, <1>5 DEF InstallPart

LEMMA UninstallKinds ==
    ASSUME NEW x \in UninstallPart
    PROVE  /\ x.do \notin {"create", "fill", "write", "links", "shell", "manage",
                           "wrappers", "start"}
           /\ x.do = "remove" => x = Delete(x.with) /\ x.with \in Named
           /\ x.part \in Warned \/ x.do \in {"unshell", "cleanup"} =>
                  x.part \notin {"stop", "remove"}
           /\ ProfileStep(x)
<1>1. CASE x \in ProfilePart
  <2>1. x.do \in {"backup", "empty", "refill"} /\ ProfileStep(x)
    BY <1>1, ProfileKinds
  <2>2. x.part = "profiles" /\ x.part \in Warned
    BY <2>1 DEF ProfileStep, Warned
  <2>3. x.do \notin {"stop", "create", "write", "remove", "unlink", "unshell", "cleanup"}
    BY <2>1
  <2> QED
    BY <2>1, <2>2, <2>3
<1>2. CASE x = Step("stop", "stop", "none")
  BY <1>2 DEF ProfileStep, Step, Warned
<1>3. CASE x = Step("remove", "unlink", "none")
  BY <1>3 DEF ProfileStep, Step, Warned
<1>4. CASE \E d \in {"unshell", "cleanup"} : x = Step(d, d, "none")
  <2> DEFINE D == {"unshell", "cleanup"}
  <2>0. PICK d \in D : x = Step(d, d, "none")
    BY <1>4
  <2> HIDE DEF D
  <2>1. x.do \in D /\ x.part = x.do
    BY <2>0 DEF Step
  <2> USE DEF D
  <2>2. ProfileStep(x)
    BY <2>1, OtherKinds
  <2> QED
    BY <2>1, <2>2
<1>5. CASE \E a \in Named : x = Delete(a)
  BY <1>5 DEF ProfileStep, Delete, Step, Warned
<1> QED
  BY <1>1, <1>2, <1>3, <1>4, <1>5 DEF UninstallPart

---------------------------------------------------------------------------
(* What a step leaves to be done.                                          *)

Leaves(n, x) ==
    setup' = [setup EXCEPT !.todo = SubSeq(setup.todo, n + 1, Len(setup.todo)), !.new = x]

LEMMA FirstStep ==
    ASSUME TodoInv, setup.todo # <<>>
    PROVE  /\ Head(setup.todo) = setup.todo[1]
           /\ Len(setup.todo) \in Nat /\ 1 \in 1 .. Len(setup.todo)
           /\ \/ setup.op = "install" /\ setup.exe \in Versions
                 /\ setup.todo[1] \in InstallPart
              \/ setup.op = "uninstall" /\ setup.todo[1] \in UninstallPart
<1> DEFINE todo == setup.todo
<1>1. todo \in Seq(InstallPart \cup UninstallPart)
  BY DEF TodoInv
<1>2. Len(todo) \in Nat \ {0}
  BY <1>1, EmptySeq
<1>3. \/ setup.op = "install" /\ setup.exe \in Versions /\ todo \in Seq(InstallPart)
      \/ setup.op = "uninstall" /\ todo \in Seq(UninstallPart)
  BY DEF TodoInv
<1>4. Head(todo) = todo[1]
  BY <1>1, <1>2
<1> HIDE DEF todo
<1>5. 1 \in 1 .. Len(todo)
  BY <1>2
<1>6. \A part : todo \in Seq(part) => todo[1] \in part
  BY <1>5, ElementOfSeq
<1>7. \/ setup.op = "install" /\ setup.exe \in Versions /\ todo[1] \in InstallPart
      \/ setup.op = "uninstall" /\ todo[1] \in UninstallPart
  BY <1>3, <1>6
<1> QED
  BY <1>2, <1>4, <1>5, <1>7 DEF todo

LEMMA StepLeaves ==
    ASSUME TodoInv, NEW n \in 1 .. Len(setup.todo), NEW x \in Commandline, Leaves(n, x)
    PROVE  /\ TodoInv'
           /\ setup'.op = setup.op /\ setup'.exe = setup.exe /\ setup'.new = x
           /\ Len(setup'.todo) = Len(setup.todo) - n
           /\ \A i \in 1 .. Len(setup.todo) - n : setup'.todo[i] = setup.todo[n + i]
<1> DEFINE todo == setup.todo
           left == SubSeq(todo, n + 1, Len(todo))
<1>1. /\ todo \in Seq(InstallPart \cup UninstallPart) /\ Paired(todo)
      /\ setup \in [op : {"none", "install", "uninstall"},
                    exe : Versions \cup {NoExe},
                    todo : Seq(InstallPart \cup UninstallPart), new : Commandline]
  BY DEF TodoInv
<1>2. Len(todo) \in Nat
  BY <1>1, LenProperties
<1>3. /\ setup'.op = setup.op /\ setup'.exe = setup.exe /\ setup'.new = x
      /\ setup'.todo = left
  BY <1>1 DEF Leaves
<1>4. \A part : todo \in Seq(part) =>
          /\ left \in Seq(part)
          /\ Len(left) = Len(todo) - n
          /\ \A i \in 1 .. Len(todo) - n : left[i] = todo[n + i]
          /\ Paired(left)
  <2> HIDE DEF todo
  <2>1. n \in 0 .. Len(todo)
    BY <1>2 DEF todo
  <2>2. Paired(todo)
    BY <1>1
  <2> QED
    BY <2>1, <2>2, StepsLeft
<1>5. setup' \in [op : {"none", "install", "uninstall"},
                  exe : Versions \cup {NoExe},
                  todo : Seq(InstallPart \cup UninstallPart), new : Commandline]
  <2>1. left \in Seq(InstallPart \cup UninstallPart)
    BY <1>1, <1>4
  <2> HIDE DEF left
  <2>2. setup' = [setup EXCEPT !.todo = left, !.new = x]
    BY DEF Leaves, left
  <2> QED
    BY <1>1, <2>1, <2>2
<1>6. setup.op # "none"
  <2>1. todo # <<>>
    BY <1>1, <1>2, EmptySeq
  <2> QED
    BY <2>1 DEF TodoInv
<1>7. setup.op = "install" => setup.exe \in Versions /\ left \in Seq(InstallPart)
  BY <1>4 DEF TodoInv
<1>8. setup.op = "uninstall" => left \in Seq(UninstallPart)
  BY <1>4 DEF TodoInv
<1>9. Paired(left)
  BY <1>1, <1>4
<1> HIDE DEF left
<1>10. TodoInv'
  BY <1>3, <1>5, <1>6, <1>7, <1>8, <1>9 DEF TodoInv, Paired
<1> QED
  BY <1>1, <1>3, <1>4, <1>10 DEF left

LEMMA DoneLeaves ==
    ASSUME TodoInv, setup.todo # <<>>, Done
    PROVE  Leaves(1, setup.new) /\ setup.new \in Commandline
<1> DEFINE todo == setup.todo
           left == SubSeq(todo, 2, Len(todo))
<1>1. todo \in Seq(InstallPart \cup UninstallPart)
  BY DEF TodoInv
<1>2. Tail(todo) = left
  BY <1>1, TailIsSubSeq
<1>3. setup' = [setup EXCEPT !.todo = left]
  BY <1>2 DEF Done
<1> HIDE DEF left
<1>4. /\ setup' = [setup EXCEPT !.todo = left, !.new = setup.new]
      /\ setup.new \in Commandline
  BY <1>3 DEF TodoInv
<1> QED
  BY <1>4 DEF Leaves, left

LEMMA SkipLeaves ==
    ASSUME TodoInv, setup.todo # <<>>, SkipPart
    PROVE  \E n \in 1 .. Len(setup.todo) :
              /\ Leaves(n, setup.new) /\ setup.new \in Commandline
              /\ n < Len(setup.todo) => setup.todo[n + 1].part # setup.todo[n].part
<1>1. PICK n \in 1 .. Len(setup.todo) :
          /\ \A i \in 1 .. n : setup.todo[i].part = Head(setup.todo).part
          /\ n < Len(setup.todo) => setup.todo[n + 1].part # Head(setup.todo).part
          /\ setup' = [setup EXCEPT !.todo = SubSeq(@, n + 1, Len(@))]
  BY DEF SkipPart
<1> DEFINE left == SubSeq(setup.todo, n + 1, Len(setup.todo))
<1>2. setup' = [setup EXCEPT !.todo = left]
  BY <1>1
<1> HIDE DEF left
<1>3. /\ setup' = [setup EXCEPT !.todo = left, !.new = setup.new]
      /\ setup.new \in Commandline
  BY <1>2 DEF TodoInv
<1>4. setup.todo[n].part = Head(setup.todo).part
  BY <1>1
<1> QED
  BY <1>1, <1>3, <1>4 DEF Leaves, left

---------------------------------------------------------------------------
(* The steps keep the invariant: what is to be done.                       *)

LEMMA ProgressesLeave ==
    ASSUME TodoInv, setup.todo # <<>>,
           \/ Done
           \/ SkipPart
           \/ setup' = [setup EXCEPT !.todo = <<>>]
    PROVE  \E n \in 1 .. Len(setup.todo) :
              /\ Leaves(n, setup.new) /\ setup.new \in Commandline
              /\ \/ n = 1 /\ Done
                 \/ n < Len(setup.todo) => setup.todo[n + 1].part # setup.todo[n].part
<1>1. Len(setup.todo) \in Nat /\ 1 \in 1 .. Len(setup.todo)
  BY FirstStep
<1>2. CASE Done
  <2>1. Leaves(1, setup.new) /\ setup.new \in Commandline
    BY <1>2, DoneLeaves
  <2> QED
    BY <1>1, <1>2, <2>1
<1>3. CASE SkipPart
  BY <1>3, SkipLeaves
<1>4. CASE setup' = [setup EXCEPT !.todo = <<>>]
  <2> DEFINE n == Len(setup.todo)
             left == SubSeq(setup.todo, n + 1, n)
  <2>1. left = <<>>
    BY <1>1, SubSeqEmpty
  <2>2. setup' = [setup EXCEPT !.todo = left]
    BY <1>4, <2>1
  <2> HIDE DEF left
  <2>3. /\ setup' = [setup EXCEPT !.todo = left, !.new = setup.new]
        /\ setup.new \in Commandline
    BY <2>2 DEF TodoInv
  <2>4. Leaves(n, setup.new)
    BY <2>3 DEF Leaves, left
  <2>5. n \in 1 .. Len(setup.todo)
    BY <1>1
  <2> QED
    BY <1>1, <2>3, <2>4, <2>5
<1> QED
  BY <1>2, <1>3, <1>4

(* An operation that starts, and one that is over.                         *)
LEMMA StartsTodo ==
    ASSUME OpStarts
    PROVE  /\ TodoInv'
           /\ setup'.new = Native
           /\ \/ setup'.op = "install" /\ Installs(setup'.todo)
              \/ setup'.op = "uninstall" /\ Uninstalls(setup'.todo)
<1>1. PICK o \in OptionSets, v \in Versions :
         setup' \in {[NoSetup EXCEPT !.op = "install", !.exe = v, !.todo = InstallSteps(o)],
                     [NoSetup EXCEPT !.op = "uninstall", !.todo = UninstallSteps(o)]}
  BY DEF OpStarts
<1>2. Native \in Commandline
  BY DEF Native, Commandline
<1> DEFINE s == InstallSteps(o)
           u == UninstallSteps(o)
<1>3. Installs(s) /\ Uninstalls(u)
  BY InstallLists, UninstallLists
<1>4. \/ setup' = [op |-> "install", exe |-> v, todo |-> s, new |-> Native]
      \/ setup' = [op |-> "uninstall", exe |-> NoExe, todo |-> u, new |-> Native]
  BY <1>1 DEF NoSetup
<1> HIDE DEF s, u
<1>5. /\ s \in Seq(InstallPart) /\ Paired(s)
      /\ u \in Seq(UninstallPart) /\ Paired(u)
  BY <1>3 DEF Installs, Uninstalls, Listed
<1>6. /\ s \in Seq(InstallPart \cup UninstallPart)
      /\ u \in Seq(InstallPart \cup UninstallPart)
  BY <1>5, SeqDef
<1>7. CASE setup' = [op |-> "install", exe |-> v, todo |-> s, new |-> Native]
  BY <1>2, <1>3, <1>5, <1>6, <1>7 DEF TodoInv, Paired
<1>8. CASE setup' = [op |-> "uninstall", exe |-> NoExe, todo |-> u, new |-> Native]
  BY <1>2, <1>3, <1>5, <1>6, <1>8 DEF TodoInv, Paired
<1> QED
  BY <1>4, <1>7, <1>8

LEMMA IdleTodo ==
    ASSUME setup' = NoSetup
    PROVE  TodoInv' /\ setup'.op = "none" /\ setup'.todo = <<>> /\ setup'.new = Native
<1>1. Native \in Commandline
  BY DEF Native, Commandline
<1>2. <<>> \in Seq(InstallPart \cup UninstallPart) /\ Paired(<<>>)
  BY DEF Paired
<1> QED
  BY <1>1, <1>2 DEF TodoInv, NoSetup, Paired

---------------------------------------------------------------------------
(* ... and the commands and executables.                                   *)

(* An operation past its first steps has its executable, or has removed    *)
(* what names one.                                                         *)
LEMMA ExeIsThere ==
    ASSUME TodoInv, CommandsInv, setup.todo # <<>>, setup.op = "install",
           setup.todo[1].do \notin {"stop", "create"}
    PROVE  setup.exe \in Versions /\ exes[setup.exe] # "absent"
<1>1. setup.exe \in Versions
  BY DEF TodoInv
<1>2. exes[setup.exe] # "absent" \/ Copies(setup.todo)
  BY DEF CommandsInv
<1>3. ~Copies(setup.todo)
  <2>1. Step("copy", "create", "none").do = "create" /\ Step("stop", "stop", "none").do = "stop"
    BY StepFields
  <2> QED
    BY <2>1 DEF Copies
<1> QED
  BY <1>1, <1>2, <1>3

LEMMA NothingIsNamed ==
    ASSUME TodoInv, CommandsInv, setup.todo # <<>>, setup.op = "uninstall",
           setup.todo[1].part \notin {"stop", "remove"}
    PROVE  \A a \in Commands : command[a] = NoExe
<1> SUFFICES ASSUME NEW a \in Commands, Removes(setup.todo, a)
             PROVE  FALSE
  BY DEF CommandsInv
<1>1. Len(setup.todo) \in Nat
  BY FirstStep
<1>2. PICK i \in 1 .. Len(setup.todo) :
          \A j \in 1 .. i : setup.todo[j].part \in {"stop", "remove"}
  BY DEF Removes
<1> QED
  BY <1>1, <1>2

(* Steps after the first ones, that change neither.                        *)
LEMMA LaterSteps ==
    ASSUME TodoInv, CommandsInv, setup.todo # <<>>,
           NEW n \in 1 .. Len(setup.todo), NEW x \in Commandline, Leaves(n, x),
           setup.op = "install" => setup.todo[1].do \notin {"stop", "create"},
           setup.op = "uninstall" => setup.todo[1].part \notin {"stop", "remove"},
           UNCHANGED <<exes, command>>
    PROVE  CommandsInv'
<1>1. setup'.op = setup.op /\ setup'.exe = setup.exe
  BY StepLeaves
<1>2. setup.op = "install" => exes[setup.exe] # "absent"
  BY ExeIsThere
<1>3. setup.op = "uninstall" => \A a \in Commands : command[a] = NoExe
  BY NothingIsNamed
<1> QED
  BY <1>1, <1>2, <1>3 DEF CommandsInv, NoDanglingCommand

(* The next step: what it does not remove is removed later.                *)
LEMMA RemovedLater ==
    ASSUME TodoInv, setup.todo # <<>>, NEW x \in Commandline, Leaves(1, x),
           NEW a \in Commands, Removes(setup.todo, a),
           setup.todo[1] # Delete(a),
           ~ (setup.todo[1].do = "unlink" /\ a \in {"links", "manage"})
    PROVE  Removes(setup'.todo, a)
<1>1. Len(setup.todo) \in Nat /\ 1 \in 1 .. Len(setup.todo)
  BY FirstStep
<1>2. /\ Len(setup'.todo) = Len(setup.todo) - 1
      /\ \A i \in 1 .. Len(setup.todo) - 1 : setup'.todo[i] = setup.todo[1 + i]
  BY <1>1, StepLeaves
<1>3. PICK i \in 1 .. Len(setup.todo) :
          /\ \/ setup.todo[i] = Delete(a)
             \/ setup.todo[i].do = "unlink" /\ a \in {"links", "manage"}
          /\ \A j \in 1 .. i : setup.todo[j].part \in {"stop", "remove"}
  BY DEF Removes
<1>4. i # 1
  BY <1>3
<1>5. i - 1 \in 1 .. Len(setup'.todo) /\ setup'.todo[i - 1] = setup.todo[i]
  BY <1>1, <1>2, <1>4
<1>6. \A j \in 1 .. i - 1 : setup'.todo[j] = setup.todo[1 + j] /\ 1 + j \in 1 .. i
  BY <1>1, <1>2
<1>7. \A j \in 1 .. i - 1 : setup'.todo[j].part \in {"stop", "remove"}
  BY <1>3, <1>6
<1> QED
  BY <1>3, <1>5, <1>7 DEF Removes

LEMMA StartsCommands ==
    ASSUME CommandsInv, OpStarts
    PROVE  CommandsInv'
<1>1. \/ setup'.op = "install" /\ Installs(setup'.todo)
      \/ setup'.op = "uninstall" /\ Uninstalls(setup'.todo)
  BY StartsTodo
<1>2. setup'.op = "install" => Copies(setup'.todo)
  BY <1>1 DEF Installs
<1>3. setup'.op = "uninstall" => \A a \in Commands : Removes(setup'.todo, a)
  BY <1>1 DEF Uninstalls
<1>4. UNCHANGED <<exes, command>>
  BY DEF OpStarts
<1> QED
  BY <1>2, <1>3, <1>4 DEF CommandsInv, NoDanglingCommand

LEMMA StopsCommands ==
    ASSUME TodoInv, CommandsInv, Stops
    PROVE  CommandsInv'
<1>1. setup.todo # <<>> /\ Head(setup.todo).do = "stop" /\ Done /\ UNCHANGED <<exes, command>>
  BY DEF Stops, Doing
<1>2. Leaves(1, setup.new) /\ setup.new \in Commandline
  BY <1>1, DoneLeaves
<1>3. setup.todo[1].do = "stop" /\ Len(setup.todo) \in Nat /\ 1 \in 1 .. Len(setup.todo)
  BY <1>1, FirstStep
<1>4. /\ setup'.op = setup.op /\ setup'.exe = setup.exe
      /\ Len(setup'.todo) = Len(setup.todo) - 1
      /\ \A i \in 1 .. Len(setup.todo) - 1 : setup'.todo[i] = setup.todo[1 + i]
  BY <1>2, <1>3, StepLeaves
<1>5. setup.op = "install" => exes[setup.exe] # "absent" \/ Copies(setup'.todo)
  <2> SUFFICES ASSUME Copies(setup.todo)
               PROVE  Copies(setup'.todo)
    BY <1>1 DEF CommandsInv
  <2>1. Len(setup.todo) >= 2 /\ setup.todo[2] = Step("copy", "create", "none")
    <3>1. Step("copy", "create", "none").do = "create"
      BY StepFields
    <3> QED
      BY <1>3, <3>1 DEF Copies
  <2>2. setup'.todo[1] = setup.todo[2]
    BY <1>3, <1>4, <2>1
  <2> QED
    BY <2>1, <2>2 DEF Copies
<1>6. setup.op = "uninstall" =>
          \A a \in Commands : command[a] = NoExe \/ Removes(setup'.todo, a)
  <2> SUFFICES ASSUME NEW a \in Commands, Removes(setup.todo, a)
               PROVE  Removes(setup'.todo, a)
    BY <1>1 DEF CommandsInv
  <2>1. setup.todo[1] # Delete(a)
    <3>1. Delete(a).do = "remove"
      BY DEF Delete, Step
    <3> QED
      BY <1>3, <3>1
  <2>2. setup.todo[1].do # "unlink"
    BY <1>3
  <2> QED
    BY <1>1, <1>2, <2>1, <2>2, RemovedLater
<1> QED
  BY <1>1, <1>4, <1>5, <1>6 DEF CommandsInv, NoDanglingCommand

LEMMA CopiesCommands ==
    ASSUME TodoInv, CommandsInv, CopiesExe
    PROVE  CommandsInv'
<1>1. /\ setup.todo # <<>> /\ Head(setup.todo).do \in {"create", "fill"}
      /\ Done \/ SkipPart
      /\ UNCHANGED command
  BY DEF CopiesExe, Doing
<1>2. setup.todo[1].do \in {"create", "fill"}
  BY <1>1, FirstStep
<1>3. setup.op = "install" /\ setup.exe \in Versions
  <2>1. setup.op = "uninstall" => setup.todo[1] \in UninstallPart
    BY <1>1, FirstStep
  <2>2. setup.op # "uninstall"
    BY <1>2, <2>1, UninstallKinds
  <2> QED
    BY <1>1, <2>2, FirstStep
<1>4. PICK n \in 1 .. Len(setup.todo) : Leaves(n, setup.new) /\ setup.new \in Commandline
  BY <1>1, ProgressesLeave
<1>5. setup'.op = setup.op /\ setup'.exe = setup.exe
  BY <1>4, StepLeaves
<1>6. exes \in [Versions -> {"absent", "cut", "whole"}]
  BY DEF CommandsInv
<1>7. /\ exes' \in [Versions -> {"absent", "cut", "whole"}]
      /\ exes'[setup.exe] # "absent"
      /\ \A v \in Versions : exes[v] # "absent" => exes'[v] # "absent"
  <2>1. CASE exes[setup.exe] # "absent" /\ UNCHANGED exes
    BY <1>6, <2>1
  <2>2. CASE exes' = [exes EXCEPT ![setup.exe] = "cut"]
    BY <1>3, <1>6, <2>2
  <2>3. CASE exes' = [exes EXCEPT ![setup.exe] = "whole"]
    BY <1>3, <1>6, <2>3
  <2> QED
    BY <2>1, <2>2, <2>3 DEF CopiesExe
<1>8. NoDanglingCommand'
  <2> SUFFICES ASSUME NEW a \in Commands, command[a] # NoExe
               PROVE  exes'[command[a]] # "absent"
    BY <1>1 DEF NoDanglingCommand
  <2>1. command[a] \in Versions /\ exes[command[a]] # "absent"
    BY DEF CommandsInv, NoDanglingCommand
  <2> QED
    BY <1>7, <2>1
<1> QED
  BY <1>1, <1>3, <1>5, <1>7, <1>8 DEF CommandsInv

(* A command is written, by an install.                                    *)
LEMMA WritesCommands ==
    ASSUME TodoInv, CommandsInv, WritesCommand \/ WritesShortcuts
    PROVE  CommandsInv'
<1>1. /\ setup.todo # <<>> /\ Head(setup.todo).do \in {"write", "links", "manage"}
      /\ Done /\ UNCHANGED exes
  BY DEF WritesCommand, WritesShortcuts, Doing
<1>2. Head(setup.todo) = setup.todo[1] /\ 1 \in 1 .. Len(setup.todo)
  BY <1>1, FirstStep
<1>3. setup.todo[1].do \in {"write", "links", "manage"}
  BY <1>1, <1>2
<1>4. setup.op = "install" /\ setup.todo[1] \in InstallPart
  <2>1. setup.op = "uninstall" => setup.todo[1] \in UninstallPart
    BY <1>1, FirstStep
  <2>2. setup.op # "uninstall"
    BY <1>3, <2>1, UninstallKinds
  <2> QED
    BY <1>1, <2>2, FirstStep
<1>5. setup.exe \in Versions /\ exes[setup.exe] # "absent"
  BY <1>1, <1>3, <1>4, ExeIsThere
<1>6. PICK a \in Commands : command' = [command EXCEPT ![a] = setup.exe]
  <2>1. CASE WritesCommand
    <3>1. command' = [command EXCEPT ![With] = setup.exe] /\ setup.todo[1].do = "write"
      BY <1>2, <2>1 DEF WritesCommand, Doing
    <3>2. With \in Commands
      BY <1>2, <1>4, <3>1, InstallKinds DEF With, Named, Commands
    <3> QED
      BY <3>1, <3>2
  <2>2. CASE WritesShortcuts
    <3>1. /\ command' = [command EXCEPT ![Head(setup.todo).do] = setup.exe]
          /\ Head(setup.todo).do \in {"links", "manage"}
      BY <2>2 DEF WritesShortcuts, Doing
    <3>2. Head(setup.todo).do \in Commands
      BY <3>1 DEF Commands
    <3> QED
      BY <3>1, <3>2
  <2> QED
    BY <2>1, <2>2
<1>7. Leaves(1, setup.new) /\ setup.new \in Commandline
  BY <1>1, DoneLeaves
<1>8. setup'.op = setup.op /\ setup'.exe = setup.exe
  BY <1>2, <1>7, StepLeaves
<1> QED
  BY <1>1, <1>4, <1>5, <1>6, <1>8 DEF CommandsInv, NoDanglingCommand

(* Commands are removed, by an uninstall.                                  *)
LEMMA RemovesCommands ==
    ASSUME TodoInv, CommandsInv, RemovesCommand \/ RemovesShortcuts
    PROVE  CommandsInv'
<1>1. /\ setup.todo # <<>> /\ Head(setup.todo).do \in {"remove", "unlink"}
      /\ Done /\ UNCHANGED exes
  BY DEF RemovesCommand, RemovesShortcuts, Doing
<1>2. Head(setup.todo) = setup.todo[1] /\ 1 \in 1 .. Len(setup.todo)
  BY <1>1, FirstStep
<1>3. setup.todo[1].do \in {"remove", "unlink"}
  BY <1>1, <1>2
<1>4. setup.op = "uninstall" /\ setup.todo[1] \in UninstallPart
  <2>1. setup.op = "install" => setup.todo[1] \in InstallPart
    BY <1>1, FirstStep
  <2>2. setup.op # "install"
    BY <1>3, <2>1, InstallKinds
  <2> QED
    BY <1>1, <2>2, FirstStep
<1>5. /\ command' \in [Commands -> Versions \cup {NoExe}]
      /\ \A a \in Commands : command'[a] \in {command[a], NoExe}
      /\ \A a \in Commands :
            setup.todo[1] = Delete(a)
              \/ (setup.todo[1].do = "unlink" /\ a \in {"links", "manage"}) =>
            command'[a] = NoExe
  <2>1. CASE RemovesCommand
    <3>1. command' = [command EXCEPT ![With] = NoExe] /\ setup.todo[1].do = "remove"
      BY <1>2, <2>1 DEF RemovesCommand, Doing
    <3>2. With = setup.todo[1].with
      BY <1>2 DEF With
    <3>3. \A a \in Commands : setup.todo[1] = Delete(a) => With = a
      BY <3>2, StepFields DEF Delete
    <3>4. command \in [Commands -> Versions \cup {NoExe}]
      BY DEF CommandsInv
    <3> QED
      BY <3>1, <3>3, <3>4
  <2>2. CASE RemovesShortcuts
    <3>1. /\ command' = [command EXCEPT !["links"] = NoExe, !["manage"] = NoExe]
          /\ setup.todo[1].do = "unlink"
      BY <1>2, <2>2 DEF RemovesShortcuts, Doing
    <3>2. \A a \in Commands : setup.todo[1] # Delete(a)
      BY <3>1, StepFields DEF Delete
    <3>3. command \in [Commands -> Versions \cup {NoExe}]
      BY DEF CommandsInv
    <3>4. "links" \in Commands /\ "manage" \in Commands
      BY DEF Commands
    <3> QED
      BY <3>1, <3>2, <3>3, <3>4
  <2> QED
    BY <2>1, <2>2
<1>6. Leaves(1, setup.new) /\ setup.new \in Commandline
  BY <1>1, DoneLeaves
<1>7. setup'.op = setup.op /\ setup'.exe = setup.exe
  BY <1>2, <1>6, StepLeaves
<1>8. \A a \in Commands : command'[a] = NoExe \/ Removes(setup'.todo, a)
  <2> SUFFICES ASSUME NEW a \in Commands, command'[a] # NoExe
               PROVE  Removes(setup'.todo, a)
    OBVIOUS
  <2>1. Removes(setup.todo, a)
    BY <1>1, <1>4, <1>5 DEF CommandsInv
  <2>2. /\ setup.todo[1] # Delete(a)
        /\ ~ (setup.todo[1].do = "unlink" /\ a \in {"links", "manage"})
    BY <1>5
  <2> QED
    BY <1>1, <1>6, <2>1, <2>2, RemovedLater
<1>9. NoDanglingCommand'
  BY <1>1, <1>5 DEF CommandsInv, NoDanglingCommand
<1>10. exes' \in [Versions -> {"absent", "cut", "whole"}]
  BY <1>1 DEF CommandsInv
<1> QED
  BY <1>4, <1>5, <1>7, <1>8, <1>9, <1>10 DEF CommandsInv

(* Executables are removed when nothing names them any more.               *)
LEMMA CleansUpCommands ==
    ASSUME TodoInv, CommandsInv, CleansUp
    PROVE  CommandsInv'
<1>1. setup.todo # <<>> /\ Head(setup.todo).do = "cleanup" /\ Done /\ UNCHANGED command
  BY DEF CleansUp, Doing
<1>2. setup.todo[1].do = "cleanup" /\ 1 \in 1 .. Len(setup.todo)
  BY <1>1, FirstStep
<1>3. setup.op = "uninstall" /\ setup.todo[1] \in UninstallPart
  <2>1. setup.op = "install" => setup.todo[1] \in InstallPart
    BY <1>1, FirstStep
  <2>2. setup.op # "install"
    BY <1>2, <2>1, InstallKinds
  <2> QED
    BY <1>1, <2>2, FirstStep
<1>4. \A a \in Commands : command[a] = NoExe
  <2>1. setup.todo[1].part \notin {"stop", "remove"}
    BY <1>2, <1>3, UninstallKinds
  <2> QED
    BY <1>1, <1>3, <2>1, NothingIsNamed
<1>5. exes' \in [Versions -> {"absent", "cut", "whole"}]
  <2>1. PICK used \in SUBSET Versions :
            exes' = [v \in Versions |-> IF v \in used THEN exes[v] ELSE "absent"]
    BY DEF CleansUp
  <2> QED
    BY <2>1 DEF CommandsInv
<1>6. setup'.op = setup.op
  <2>1. Leaves(1, setup.new) /\ setup.new \in Commandline
    BY <1>1, DoneLeaves
  <2> QED
    BY <1>2, <2>1, StepLeaves
<1> QED
  BY <1>1, <1>3, <1>4, <1>5, <1>6 DEF CommandsInv, NoDanglingCommand

(* A step fails: its part, or the operation, ends there.                   *)
LEMMA FailsCommands ==
    ASSUME TodoInv, CommandsInv, StepFails
    PROVE  CommandsInv'
<1>1. /\ setup.todo # <<>> /\ UNCHANGED <<exes, command>>
      /\ \/ /\ Head(setup.todo).part \in Warned \/ Head(setup.todo).do = "unshell"
            /\ SkipPart
         \/ setup' = [setup EXCEPT !.todo = <<>>]
  BY DEF StepFails
<1>2. Head(setup.todo) = setup.todo[1]
  BY <1>1, FirstStep
<1>3. CASE (setup.todo[1].part \in Warned \/ setup.todo[1].do = "unshell") /\ SkipPart
  <2>1. setup.op = "install" => setup.todo[1].do \notin {"stop", "create"}
    <3>1. setup.op = "install" => setup.todo[1] \in InstallPart
      BY <1>1, FirstStep
    <3> QED
      BY <1>3, <3>1, InstallKinds
  <2>2. setup.op = "uninstall" => setup.todo[1].part \notin {"stop", "remove"}
    <3>1. setup.op = "uninstall" => setup.todo[1] \in UninstallPart
      BY <1>1, FirstStep
    <3> QED
      BY <1>3, <3>1, UninstallKinds
  <2>3. PICK n \in 1 .. Len(setup.todo) : Leaves(n, setup.new) /\ setup.new \in Commandline
    BY <1>1, <1>3, ProgressesLeave
  <2> QED
    BY <1>1, <2>1, <2>2, <2>3, LaterSteps
<1>4. CASE setup' = [setup EXCEPT !.todo = <<>>]
  <2>1. setup'.todo = <<>>
    BY <1>4 DEF TodoInv
  <2> QED
    BY <1>1, <2>1 DEF CommandsInv, NoDanglingCommand
<1> QED
  BY <1>1, <1>2, <1>3, <1>4

(* The steps that touch neither.                                           *)
LEMMA OtherCommands ==
    ASSUME TodoInv, CommandsInv, NEW x \in Commandline,
           setup.todo # <<>>,
           Head(setup.todo).do \in {"backup", "empty", "refill", "links", "shell", "unshell",
                                    "wrappers", "start"},
           \E n \in 1 .. Len(setup.todo) : Leaves(n, x),
           UNCHANGED <<exes, command>>
    PROVE  CommandsInv'
<1>1. Head(setup.todo) = setup.todo[1]
  BY FirstStep
<1>2. setup.todo[1].do \notin {"stop", "create"}
  BY <1>1
<1>3. setup.op = "uninstall" => setup.todo[1].part \notin {"stop", "remove"}
  <2> SUFFICES ASSUME setup.op = "uninstall"
               PROVE  setup.todo[1].part \notin {"stop", "remove"}
    OBVIOUS
  <2>1. setup.todo[1] \in UninstallPart
    BY FirstStep
  <2>2. CASE setup.todo[1].do \in {"backup", "empty", "refill"}
    <3>1. ProfileStep(setup.todo[1])
      BY <2>1, UninstallKinds
    <3> QED
      BY <2>2, <3>1 DEF ProfileStep
  <2>3. CASE setup.todo[1].do = "unshell"
    BY <2>1, <2>3, UninstallKinds
  <2>4. setup.todo[1].do \notin {"links", "shell", "wrappers", "start"}
    BY <2>1, UninstallKinds
  <2> QED
    BY <1>1, <2>2, <2>3, <2>4
<1> QED
  BY <1>2, <1>3, LaterSteps

---------------------------------------------------------------------------
(* ... and the profiles.                                                   *)

LEMMA UnwrapsToNative ==
    ASSUME NEW do, NEW c \in Restorable, NEW v \in Versions \cup {NoExe}
    PROVE  Rewritten(do, c, v) \in Restorable
<1>1. c \in Commandline /\ Extract(c) = Native
  BY DEF Restorable
<1>2. Native \in Restorable
  BY DEF Native, Restorable, Commandline, Extract
<1>3. Wrap(c, v) \in Restorable
  <2>1. Wrap(c, v) = [layers |-> <<v>>, torn |-> FALSE]
    <3>1. Wrap(c, v) = [Native EXCEPT !.layers = <<v>> \o @]
      BY <1>1 DEF Wrap, Shimmed
    <3>2. <<v>> \o <<>> = <<v>>
      <4> DEFINE one == <<v>>
      <4>1. one \in Seq({v})
        OBVIOUS
      <4> HIDE DEF one
      <4>2. one \o <<>> = one
        BY <4>1, ConcatEmptySeq
      <4> QED
        BY <4>2 DEF one
    <3> QED
      BY <3>1, <3>2 DEF Native
  <2> DEFINE w == [layers |-> <<v>>, torn |-> FALSE]
  <2>2. w \in Commandline
    BY DEF Commandline
  <2>3. Extract(w) = Native
    <3>1. <<v>> # <<>> /\ Tail(<<v>>) = <<>>
      OBVIOUS
    <3>2. Extract(w) = [w EXCEPT !.layers = Tail(@)]
      BY <3>1 DEF Extract
    <3> QED
      BY <3>1, <3>2 DEF Native
  <2> QED
    BY <2>1, <2>2, <2>3 DEF Restorable
<1> QED
  BY <1>1, <1>2, <1>3 DEF Rewritten

LEMMA NotTorn ==
    ASSUME NEW c \in Restorable
    PROVE  ~c.torn
<1>1. c \in Commandline /\ Extract(c) = Native
  BY DEF Restorable
<1>2. Extract(c).torn = c.torn
  <2>1. c = [layers |-> c.layers, torn |-> c.torn]
    BY <1>1 DEF Commandline
  <2>2. CASE c.layers = <<>>
    BY <2>2 DEF Extract
  <2>3. CASE c.layers # <<>>
    <3>1. Extract(c) = [c EXCEPT !.layers = Tail(c.layers)]
      BY <2>3 DEF Extract
    <3> QED
      BY <2>1, <3>1
  <2> QED
    BY <2>2, <2>3
<1>3. Native.torn = FALSE
  BY DEF Native
<1>4. c.torn = FALSE
  BY <1>1, <1>2, <1>3
<1> QED
  BY <1>4

(* What is left does not begin within the change of a profile, unless the  *)
(* step before was in it.                                                  *)
LEMMA NextIsNoWrite ==
    ASSUME TodoInv, NEW n \in 1 .. Len(setup.todo), NEW x \in Commandline, Leaves(n, x),
           \/ setup.todo[n].do \notin {"backup", "empty"}
           \/ n < Len(setup.todo) => setup.todo[n + 1].part # setup.todo[n].part
    PROVE  setup'.todo # <<>> => setup'.todo[1].do \notin {"empty", "refill"}
<1> SUFFICES ASSUME setup'.todo # <<>>, setup'.todo[1].do \in {"empty", "refill"}
             PROVE  FALSE
  OBVIOUS
<1>1. setup.todo \in Seq(InstallPart \cup UninstallPart) /\ Len(setup.todo) \in Nat
  BY LenProperties DEF TodoInv
<1>2. /\ TodoInv'
      /\ Len(setup'.todo) = Len(setup.todo) - n
      /\ \A i \in 1 .. Len(setup.todo) - n : setup'.todo[i] = setup.todo[n + i]
  BY StepLeaves
<1>3. Len(setup'.todo) # 0
  <2>1. setup'.todo \in Seq(InstallPart \cup UninstallPart)
    BY <1>2 DEF TodoInv
  <2> QED
    BY <2>1, EmptySeq
<1>4. n + 1 \in 1 .. Len(setup.todo) /\ setup'.todo[1] = setup.todo[n + 1]
  BY <1>1, <1>2, <1>3
<1>5. setup.todo[n].do \in {"backup", "empty"}
  <2>1. setup.todo[n + 1].do = "empty" => setup.todo[n].do = "backup"
    BY <1>1, <1>4 DEF TodoInv, Paired
  <2>2. setup.todo[n + 1].do = "refill" => setup.todo[n].do = "empty"
    BY <1>1, <1>4 DEF TodoInv, Paired
  <2> QED
    BY <1>4, <2>1, <2>2
<1>6. \A i \in 1 .. Len(setup.todo) : ProfileStep(setup.todo[i])
  <2>1. \A i \in 1 .. Len(setup.todo) : setup.todo[i] \in InstallPart \cup UninstallPart
    BY <1>1, ElementOfSeq
  <2> QED
    BY <2>1, InstallKinds, UninstallKinds
<1>7. setup.todo[n].part = "profiles" /\ setup.todo[n + 1].part = "profiles"
  BY <1>4, <1>5, <1>6 DEF ProfileStep
<1> QED
  BY <1>1, <1>4, <1>5, <1>7

(* The steps that touch no profile.                                        *)
LEMMA ProfilesStay ==
    ASSUME TodoInv, ProfilesInv, setup.todo # <<>>,
           \/ Done /\ Head(setup.todo).do \notin {"backup", "empty"}
           \/ SkipPart
           \/ setup' = [setup EXCEPT !.todo = <<>>],
           UNCHANGED <<profile, backups>>
    PROVE  ProfilesInv'
<1>1. setup'.todo # <<>> => setup'.todo[1].do \notin {"empty", "refill"}
  <2>1. CASE Done /\ Head(setup.todo).do \notin {"backup", "empty"}
    <3>1. Leaves(1, setup.new) /\ setup.new \in Commandline
      BY <2>1, DoneLeaves
    <3>2. 1 \in 1 .. Len(setup.todo) /\ setup.todo[1].do \notin {"backup", "empty"}
      BY <2>1, FirstStep
    <3> QED
      BY <3>1, <3>2, NextIsNoWrite
  <2>2. CASE SkipPart
    <3>1. PICK n \in 1 .. Len(setup.todo) :
              /\ Leaves(n, setup.new) /\ setup.new \in Commandline
              /\ n < Len(setup.todo) => setup.todo[n + 1].part # setup.todo[n].part
      BY <2>2, SkipLeaves
    <3> QED
      BY <3>1, NextIsNoWrite
  <2>3. CASE setup' = [setup EXCEPT !.todo = <<>>]
    BY <2>3 DEF TodoInv
  <2> QED
    BY <2>1, <2>2, <2>3
<1>2. \A f \in Settings : profile[f].torn => HasBackup(f)'
  BY DEF ProfilesInv, HasBackup
<1> QED
  BY <1>1, <1>2 DEF ProfilesInv, HasBackup

LEMMA SavesLeave ==
    ASSUME TodoInv, ProfilesInv, SavesProfile
    PROVE  \E n \in 1 .. Len(setup.todo), x \in Commandline : Leaves(n, x)
<1>1. setup.todo # <<>> /\ Head(setup.todo).do = "backup"
  BY DEF SavesProfile, Doing
<1>2. /\ Head(setup.todo) = setup.todo[1]
      /\ Len(setup.todo) \in Nat /\ 1 \in 1 .. Len(setup.todo)
      /\ setup.todo[1] \in InstallPart \cup UninstallPart
  BY <1>1, FirstStep
<1>3. 3 \in 1 .. Len(setup.todo)
  BY <1>1, <1>2 DEF TodoInv, Paired
<1>4. setup.new \in Commandline
  BY DEF TodoInv
<1>5. With[2] \in Settings
  BY <1>1, <1>2, InstallKinds, UninstallKinds DEF With, ProfileStep
<1> DEFINE f == With[2]
           new == Rewritten(With[1], profile[f], setup.exe)
           two == SubSeq(setup.todo, 2, Len(setup.todo))
           four == SubSeq(setup.todo, 4, Len(setup.todo))
<1>6. profile[f] \in Restorable
  BY <1>5 DEF SavesProfile, ProfilesInv, Parses, TornFile
<1>7. new \in Commandline
  <2>1. setup.exe \in Versions \cup {NoExe}
    BY DEF TodoInv
  <2> QED
    BY <1>6, <2>1, UnwrapsToNative DEF Restorable
<1>8. Tail(setup.todo) = two
  BY <1>1, TailIsSubSeq DEF TodoInv
<1>9. \/ setup' = [setup EXCEPT !.todo = four]
      \/ setup' = [setup EXCEPT !.todo = two, !.new = new]
  BY <1>8 DEF SavesProfile
<1>10. CASE setup' = [setup EXCEPT !.todo = four]
  <2> HIDE DEF four
  <2>1. setup' = [setup EXCEPT !.todo = four, !.new = setup.new]
    BY <1>10 DEF TodoInv
  <2>2. Leaves(3, setup.new)
    BY <2>1 DEF Leaves, four
  <2> QED
    BY <1>3, <1>4, <2>2
<1>11. CASE setup' = [setup EXCEPT !.todo = two, !.new = new]
  <2>1. Leaves(1, new)
    BY <1>11 DEF Leaves
  <2> QED
    BY <1>2, <1>7, <2>1
<1> QED
  BY <1>9, <1>10, <1>11

(* What is in a settings file is in a backup before it is emptied.         *)
LEMMA SavesProfiles ==
    ASSUME TodoInv, ProfilesInv, SavesProfile
    PROVE  ProfilesInv'
<1> DEFINE f == With[2]
           new == Rewritten(With[1], profile[f], setup.exe)
<1>1. setup.todo # <<>> /\ Head(setup.todo).do = "backup" /\ UNCHANGED profile
  BY DEF SavesProfile, Doing
<1>2. /\ Head(setup.todo) = setup.todo[1]
      /\ Len(setup.todo) \in Nat /\ 1 \in 1 .. Len(setup.todo)
      /\ setup.todo[1] \in InstallPart \cup UninstallPart
  BY <1>1, FirstStep
<1>3. /\ 3 <= Len(setup.todo)
      /\ setup.todo[2] = Step("profiles", "empty", f)
      /\ setup.todo[3] = Step("profiles", "refill", f)
  BY <1>1, <1>2 DEF TodoInv, Paired, With
<1>4. f \in Settings
  BY <1>1, <1>2, InstallKinds, UninstallKinds DEF With, ProfileStep
<1>5. profile[f] \in Restorable
  BY <1>4 DEF SavesProfile, ProfilesInv, Parses, TornFile
<1>6. new \in Restorable
  <2>1. setup.exe \in Versions \cup {NoExe}
    BY DEF TodoInv
  <2> HIDE DEF f
  <2> QED
    BY <1>5, <2>1, UnwrapsToNative
<1>7. CASE new = profile[f]
  <2> DEFINE four == SubSeq(setup.todo, 4, Len(setup.todo))
  <2>1. setup' = [setup EXCEPT !.todo = four] /\ UNCHANGED backups
    BY <1>7 DEF SavesProfile
  <2> HIDE DEF four
  <2>2. setup' = [setup EXCEPT !.todo = four, !.new = setup.new] /\ setup.new \in Commandline
    BY <2>1 DEF TodoInv
  <2>3. Leaves(3, setup.new)
    BY <2>2 DEF Leaves, four
  <2>4. setup.todo[3].do = "refill"
    BY <1>3, StepFields
  <2>5. 3 \in 1 .. Len(setup.todo)
    BY <1>2, <1>3
  <2>6. setup'.todo # <<>> => setup'.todo[1].do \notin {"empty", "refill"}
    <3>1. setup.todo[3].do \notin {"backup", "empty"}
      BY <2>4
    <3> QED
      BY <2>2, <2>3, <2>5, <3>1, NextIsNoWrite
  <2> HIDE DEF f, new
  <2>7. \A g \in Settings : profile[g].torn => HasBackup(g)'
    BY <2>1 DEF ProfilesInv, HasBackup
  <2> QED
    BY <1>1, <2>1, <2>6, <2>7 DEF ProfilesInv, HasBackup
<1>8. CASE new # profile[f]
  <2> DEFINE two == SubSeq(setup.todo, 2, Len(setup.todo))
  <2>1. /\ setup' = [setup EXCEPT !.todo = two, !.new = new]
        /\ backups' = [backups EXCEPT ![f] = @ \cup {profile[f]}]
    <3>1. Tail(setup.todo) = two
      BY <1>1, TailIsSubSeq DEF TodoInv
    <3> QED
      BY <1>8, <3>1 DEF SavesProfile
  <2>2. Leaves(1, new)
    BY <2>1 DEF Leaves
  <2>3. new \in Commandline
    BY <1>6 DEF Restorable
  <2> HIDE DEF f, new, two
  <2>4. /\ setup'.new = new
        /\ Len(setup'.todo) = Len(setup.todo) - 1
        /\ \A i \in 1 .. Len(setup.todo) - 1 : setup'.todo[i] = setup.todo[1 + i]
    BY <1>2, <2>2, <2>3, StepLeaves
  <2>5. setup'.todo[1] = Step("profiles", "empty", f)
    BY <1>2, <1>3, <2>4
  <2>6. setup'.todo[1].do = "empty" /\ setup'.todo[1].with = f
    BY <2>5, StepFields
  <2>7. /\ backups' \in [Settings -> SUBSET Commandline]
        /\ \A g \in Settings : backups[g] \subseteq backups'[g]
        /\ profile[f] \in backups'[f]
    <3>1. backups \in [Settings -> SUBSET Commandline] /\ profile[f] \in Commandline
      BY <1>5 DEF ProfilesInv, Restorable
    <3> QED
      BY <1>4, <2>1, <3>1
  <2>8. \E c \in backups'[f] : Extract(c) = Native
    BY <1>5, <2>7 DEF Restorable
  <2>9. \A g \in Settings : profile[g].torn => \E c \in backups'[g] : Extract(c) = Native
    BY <2>7 DEF ProfilesInv, HasBackup
  <2> QED
    BY <1>1, <1>6, <2>4, <2>6, <2>7, <2>8, <2>9 DEF ProfilesInv, HasBackup
<1> QED
  BY <1>7, <1>8

LEMMA WritesProfiles ==
    ASSUME TodoInv, ProfilesInv, WritesProfile
    PROVE  ProfilesInv'
<1>1. /\ setup.todo # <<>> /\ Head(setup.todo).do \in {"empty", "refill"}
      /\ Done /\ UNCHANGED backups
  BY DEF WritesProfile, Doing
<1>2. /\ Head(setup.todo) = setup.todo[1]
      /\ Len(setup.todo) \in Nat /\ 1 \in 1 .. Len(setup.todo)
      /\ setup.todo[1] \in InstallPart \cup UninstallPart
  BY <1>1, FirstStep
<1>3. With \in Settings
  BY <1>1, <1>2, InstallKinds, UninstallKinds DEF With, ProfileStep
<1>4. setup.new \in Restorable
  BY <1>1, <1>2 DEF ProfilesInv
<1>5. Leaves(1, setup.new) /\ setup.new \in Commandline
  BY <1>1, DoneLeaves
<1>6. /\ setup'.new = setup.new
      /\ TodoInv'
      /\ Len(setup'.todo) = Len(setup.todo) - 1
      /\ \A i \in 1 .. Len(setup.todo) - 1 : setup'.todo[i] = setup.todo[1 + i]
  BY <1>2, <1>5, StepLeaves
<1>7. setup'.todo # <<>> => setup'.todo[1].do # "empty"
  <2> SUFFICES ASSUME setup'.todo # <<>>, setup'.todo[1].do = "empty"
               PROVE  FALSE
    OBVIOUS
  <2>1. Len(setup'.todo) \in Nat \ {0}
    <3>1. setup'.todo \in Seq(InstallPart \cup UninstallPart)
      BY <1>6 DEF TodoInv
    <3> QED
      BY <3>1, EmptySeq
  <2>2. 2 \in 1 .. Len(setup.todo) /\ setup'.todo[1] = setup.todo[2]
    BY <1>2, <1>6, <2>1
  <2>3. setup.todo[2].do = "empty" => setup.todo[2 - 1].do = "backup"
    BY <2>2 DEF TodoInv, Paired
  <2> QED
    BY <1>1, <1>2, <2>2, <2>3
<1>8. /\ profile' \in [Settings -> Restorable \cup {TornFile}]
      /\ \A f \in Settings : profile'[f].torn => HasBackup(f)
  <2>1. profile \in [Settings -> Restorable \cup {TornFile}]
    BY DEF ProfilesInv
  <2>2. CASE Doing("empty") /\ profile' = [profile EXCEPT ![With] = TornFile]
    <3>1. HasBackup(With)
      BY <1>1, <1>2, <2>2 DEF Doing, ProfilesInv, With
    <3> QED
      BY <1>3, <2>1, <2>2, <3>1 DEF ProfilesInv
  <2>3. CASE profile' = [profile EXCEPT ![With] = setup.new]
    <3>1. ~setup.new.torn
      BY <1>4, NotTorn
    <3> QED
      BY <1>3, <1>4, <2>1, <2>3, <3>1 DEF ProfilesInv
  <2> QED
    BY <2>2, <2>3 DEF WritesProfile
<1>9. \A f \in Settings : profile'[f].torn => HasBackup(f)'
  BY <1>1, <1>8 DEF HasBackup
<1> QED
  BY <1>1, <1>4, <1>6, <1>7, <1>8, <1>9 DEF ProfilesInv, HasBackup

---------------------------------------------------------------------------
(* ... and the distro.                                                     *)

(* What is found first is linked from real-bin, where there is nothing.    *)
LEMMA LinkedStep ==
    ASSUME DistroInv
    PROVE  /\ Linked(distro) \in Distro
           /\ Linked(distro).bin = distro.bin /\ Linked(distro).target = distro.target
           /\ distro.real # "absent" => Linked(distro) = distro
           /\ distro.bin = "absent" => Linked(distro).real # "absent"
<1> DEFINE d == distro
           c == Current(distro)
<1>1. d \in Distro
  BY DEF DistroInv
<1>2. d.bin = "absent" => c \in {"shim", "usr"}
  BY DEF DistroInv, Current
<1>3. Linked(d) = IF c \in {"shim", "usr"} /\ d.real = "absent"
                  THEN [d EXCEPT !.real = c] ELSE d
  BY DEF Linked
<1> HIDE DEF d, c
<1>4. CASE c \in {"shim", "usr"} /\ d.real = "absent"
  <2>1. Linked(d) = [d EXCEPT !.real = c]
    BY <1>3, <1>4
  <2>2. /\ [d EXCEPT !.real = c] \in Distro
        /\ [d EXCEPT !.real = c].bin = d.bin /\ [d EXCEPT !.real = c].target = d.target
        /\ [d EXCEPT !.real = c].real = c
    BY <1>1, <1>4 DEF Distro
  <2> QED
    BY <1>4, <2>1, <2>2 DEF d
<1>5. CASE ~ (c \in {"shim", "usr"} /\ d.real = "absent")
  <2>1. Linked(d) = d
    BY <1>3, <1>5
  <2> QED
    BY <1>1, <1>2, <1>5, <2>1 DEF d
<1> QED
  BY <1>4, <1>5

(* What is set aside leaves something in real-bin.                         *)
LEMMA SetAsideStep ==
    ASSUME NEW d \in Distro,
           d.bin = "absent" \/ Content(d) = "wrapper" => d.real # "absent"
    PROVE  SetAside(d) \in Distro /\ SetAside(d).real # "absent"
<1>1. CASE Content(d) # "agent"
  <2>1. SetAside(d) = d
    BY <1>1 DEF SetAside
  <2>2. d.bin = "absent" \/ Content(d) = "wrapper"
    BY <1>1 DEF Content, Distro
  <2> QED
    BY <2>1, <2>2
<1>2. CASE Content(d) = "agent" /\ RealBinExists(d)
  <2>1. SetAside(d) = [d EXCEPT !.bin = "absent"]
    BY <1>2 DEF SetAside, RealBinExists, Distro
  <2>2. d.real # "absent"
    BY <1>2 DEF RealBinExists
  <2> QED
    BY <2>1, <2>2 DEF Distro
<1>3. CASE Content(d) = "agent" /\ ~RealBinExists(d) /\ d.bin = "agent"
  <2>1. SetAside(d) = [d EXCEPT !.real = "agent", !.bin = "absent"]
    BY <1>3 DEF SetAside
  <2> QED
    BY <2>1 DEF Distro
<1>4. CASE Content(d) = "agent" /\ ~RealBinExists(d) /\ d.bin # "agent"
  <2>1. d.bin = "link"
    BY <1>4 DEF Content
  <2>2. (d.real = "shim" /\ ~d.shell) \/ d.real = "absent"
    BY <1>4 DEF RealBinExists, Distro
  <2>3. \/ SetAside(d) = [d EXCEPT !.real = "target", !.bin = "absent"]
        \/ SetAside(d) = [d EXCEPT !.real = "target"]
    BY <1>4, <2>1, <2>2 DEF SetAside
  <2> QED
    BY <2>3 DEF Distro
<1> QED
  BY <1>1, <1>2, <1>3, <1>4

(* Where the wrapper is written, something is in real-bin.                 *)
LEMMA WrapperKeepsAgent ==
    ASSUME DistroInv, TodoInv
    PROVE  /\ install_agent_wrapper(distro) \in Distro
           /\ install_agent_wrapper(distro).bin # "absent"
           /\ install_agent_wrapper(distro).real # "absent"
<1> DEFINE d == Linked(distro)
           aside == SetAside(d)
<1>1. d \in Distro /\ (d.bin = "absent" \/ Content(d) = "wrapper" => d.real # "absent")
  <2>1. Content(d) = Content(distro)
    BY LinkedStep DEF Content
  <2> QED
    BY <2>1, LinkedStep DEF DistroInv
<1> HIDE DEF d
<1>2. aside \in Distro /\ aside.real # "absent"
  BY <1>1, SetAsideStep
<1>3. setup.exe \in Versions \cup {NoExe}
  BY DEF TodoInv
<1>4. install_agent_wrapper(distro) = Overwritten(aside)
  BY DEF install_agent_wrapper, d
<1> HIDE DEF aside
<1>5. /\ Overwritten(aside) \in Distro
      /\ Overwritten(aside).bin # "absent" /\ Overwritten(aside).real = aside.real
  <2>1. CASE aside.bin = "link"
    BY <1>2, <1>3, <2>1 DEF Overwritten, Distro
  <2>2. CASE aside.bin # "link"
    BY <1>2, <1>3, <2>2 DEF Overwritten, Distro
  <2> QED
    BY <2>1, <2>2
<1> QED
  BY <1>2, <1>4, <1>5

LEMMA ChangesDistroStep ==
    ASSUME DistroInv, TodoInv, ChangesDistro
    PROVE  DistroInv'
<1>1. UNCHANGED machine
  BY DEF ChangesDistro
<1>2. CASE \E b \in BOOLEAN : distro' = [distro EXCEPT !.shell = b]
  BY <1>1, <1>2 DEF DistroInv, Distro, Content
<1>3. CASE distro' = install_agent_wrapper(distro)
  <2>1. distro' \in Distro /\ distro'.bin # "absent" /\ distro'.real # "absent"
    BY <1>3, WrapperKeepsAgent
  <2> QED
    BY <1>1, <2>1 DEF DistroInv
<1>4. CASE UNCHANGED distro
  BY <1>1, <1>4 DEF DistroInv, Content
<1> QED
  BY <1>2, <1>3, <1>4 DEF ChangesDistro

---------------------------------------------------------------------------
(* Every step keeps the invariant.                                         *)

LEMMA HostInitially ==
    ASSUME SetupInit
    PROVE  HostInv
<1>1. Native \in Restorable /\ Native \in Commandline
  BY DEF Native, Restorable, Commandline, Extract
<1>2. TodoInv
  <2>1. <<>> \in Seq(InstallPart \cup UninstallPart) /\ Paired(<<>>)
    BY DEF Paired
  <2> QED
    BY <1>1, <2>1 DEF SetupInit, TodoInv, NoSetup, Paired
<1>3. CommandsInv
  <2>1. setup.op = "none"
    BY DEF SetupInit, NoSetup
  <2>2. /\ exes \in [Versions -> {"absent", "cut", "whole"}]
        /\ command \in [Commands -> Versions \cup {NoExe}]
        /\ NoDanglingCommand
    BY DEF SetupInit, NoDanglingCommand
  <2> QED
    BY <2>1, <2>2 DEF CommandsInv
<1>4. ProfilesInv
  <2>1. setup.todo = <<>>
    BY DEF SetupInit, NoSetup
  <2>2. profile \in [Settings -> Restorable \cup {TornFile}]
    BY <1>1 DEF SetupInit
  <2>3. backups \in [Settings -> SUBSET Commandline]
    BY DEF SetupInit
  <2>4. \A f \in Settings : ~profile[f].torn
    BY <1>1, NotTorn DEF SetupInit
  <2> QED
    BY <2>1, <2>2, <2>3, <2>4 DEF ProfilesInv
<1>5. DistroInv
  <2>1. machine \in Machine /\ (machine.local # "no" \/ machine.usr)
    BY DEF SetupInit
  <2> DEFINE b == CASE machine.local = "no" -> "absent"
                    [] machine.local = "file" -> "agent"
                    [] machine.local = "link" -> "link"
  <2>2. b \in {"absent", "agent", "link"} /\ (b = "absent" => machine.usr)
    <3>1. machine.local \in {"no", "file", "link"}
      BY <2>1 DEF Machine
    <3> QED
      BY <2>1, <3>1
  <2>3. distro = [shell |-> FALSE, bin |-> b, target |-> "agent", real |-> "absent",
                  exe |-> NoExe]
    BY DEF SetupInit
  <2> HIDE DEF b
  <2>4. distro.bin = b /\ Content(distro) # "wrapper"
    BY <2>2, <2>3 DEF Content
  <2>5. distro \in Distro
    BY <2>2, <2>3 DEF Distro
  <2> QED
    BY <2>1, <2>2, <2>4, <2>5 DEF DistroInv
<1> QED
  BY <1>2, <1>3, <1>4, <1>5 DEF HostInv

(* Steps of an operation that are done, whose change is elsewhere.         *)
LEMMA DoneKeepsTodo ==
    ASSUME TodoInv, setup.todo # <<>>,
           Done \/ SkipPart \/ setup' = [setup EXCEPT !.todo = <<>>]
    PROVE  TodoInv' /\ \E n \in 1 .. Len(setup.todo), x \in Commandline : Leaves(n, x)
<1>1. PICK n \in 1 .. Len(setup.todo) : Leaves(n, setup.new) /\ setup.new \in Commandline
  BY ProgressesLeave
<1>2. TodoInv'
  BY <1>1, StepLeaves
<1> QED
  BY <1>1, <1>2

LEMMA OtherStepCommands ==
    ASSUME TodoInv, CommandsInv, setup.todo # <<>>, Done,
           Head(setup.todo).do \in {"empty", "refill", "links", "shell", "unshell",
                                    "wrappers", "start"},
           UNCHANGED <<exes, command>>
    PROVE  CommandsInv'
<1>1. \E n \in 1 .. Len(setup.todo), x \in Commandline : Leaves(n, x)
  BY DoneKeepsTodo
<1> QED
  BY <1>1, OtherCommands

LEMMA DistroStays ==
    ASSUME DistroInv, UNCHANGED <<machine, distro>>
    PROVE  DistroInv'
BY DEF DistroInv, Content

LEMMA HostStep ==
    ASSUME HostInv, [SetupNext]_setupVars
    PROVE  HostInv'
<1>0. TodoInv /\ CommandsInv /\ ProfilesInv /\ DistroInv
  BY DEF HostInv
<1>1. CASE OpStarts
  <2>1. TodoInv'
    BY <1>1, StartsTodo
  <2>2. CommandsInv'
    BY <1>0, <1>1, StartsCommands
  <2>3. ProfilesInv'
    <3>1. setup'.todo # <<>> => setup'.todo[1].do \notin {"empty", "refill"}
      <4>1. Begins(setup'.todo)
        BY <1>1, StartsTodo DEF Installs, Uninstalls, Listed
      <4> QED
        BY <4>1 DEF Begins
    <3>2. UNCHANGED <<profile, backups>>
      BY <1>1 DEF OpStarts
    <3> QED
      BY <1>0, <3>1, <3>2 DEF ProfilesInv, HasBackup
  <2>4. DistroInv'
    BY <1>0, <1>1, DistroStays DEF OpStarts
  <2> QED
    BY <2>1, <2>2, <2>3, <2>4 DEF HostInv
<1>2. CASE Stops
  <2>1. TodoInv'
    BY <1>0, <1>2, DoneKeepsTodo DEF Stops, Doing
  <2>2. CommandsInv'
    BY <1>0, <1>2, StopsCommands
  <2>3. ProfilesInv'
    BY <1>0, <1>2, ProfilesStay DEF Stops, Doing
  <2>4. DistroInv'
    BY <1>0, <1>2, DistroStays DEF Stops
  <2> QED
    BY <2>1, <2>2, <2>3, <2>4 DEF HostInv
<1>3. CASE CopiesExe
  <2>0. /\ setup.todo # <<>> /\ Head(setup.todo).do \in {"create", "fill"}
        /\ Done \/ SkipPart
        /\ UNCHANGED <<profile, backups>>
    BY <1>3 DEF CopiesExe, Doing
  <2>1. TodoInv'
    BY <1>0, <2>0, DoneKeepsTodo
  <2>2. CommandsInv'
    BY <1>0, <1>3, CopiesCommands
  <2>3. ProfilesInv'
    BY <1>0, <2>0, ProfilesStay
  <2>4. DistroInv'
    BY <1>0, <1>3, DistroStays DEF CopiesExe
  <2> QED
    BY <2>1, <2>2, <2>3, <2>4 DEF HostInv
<1>4. CASE WritesCommand \/ WritesShortcuts
  <2>0. /\ setup.todo # <<>> /\ Head(setup.todo).do \in {"write", "links", "manage"}
        /\ Done /\ UNCHANGED <<machine, distro, profile, backups>>
    BY <1>4 DEF WritesCommand, WritesShortcuts, Doing
  <2>1. TodoInv'
    BY <1>0, <2>0, DoneKeepsTodo
  <2>2. CommandsInv'
    BY <1>0, <1>4, WritesCommands
  <2>3. ProfilesInv'
    BY <1>0, <2>0, ProfilesStay
  <2>4. DistroInv'
    BY <1>0, <2>0, DistroStays
  <2> QED
    BY <2>1, <2>2, <2>3, <2>4 DEF HostInv
<1>5. CASE RemovesCommand \/ RemovesShortcuts
  <2>0. /\ setup.todo # <<>> /\ Head(setup.todo).do \in {"remove", "unlink"}
        /\ Done /\ UNCHANGED <<machine, distro, profile, backups>>
    BY <1>5 DEF RemovesCommand, RemovesShortcuts, Doing
  <2>1. TodoInv'
    BY <1>0, <2>0, DoneKeepsTodo
  <2>2. CommandsInv'
    BY <1>0, <1>5, RemovesCommands
  <2>3. ProfilesInv'
    BY <1>0, <2>0, ProfilesStay
  <2>4. DistroInv'
    BY <1>0, <2>0, DistroStays
  <2> QED
    BY <2>1, <2>2, <2>3, <2>4 DEF HostInv
<1>6. CASE SavesProfile
  <2>0. /\ setup.todo # <<>> /\ Head(setup.todo).do = "backup"
        /\ UNCHANGED <<exes, command>>
    BY <1>6 DEF SavesProfile, Doing
  <2>1. PICK n \in 1 .. Len(setup.todo), x \in Commandline : Leaves(n, x)
    BY <1>0, <1>6, SavesLeave
  <2>2. TodoInv'
    BY <1>0, <2>1, StepLeaves
  <2>3. CommandsInv'
    BY <1>0, <2>0, <2>1, OtherCommands
  <2>4. ProfilesInv'
    BY <1>0, <1>6, SavesProfiles
  <2>5. DistroInv'
    BY <1>0, <1>6, DistroStays DEF SavesProfile
  <2> QED
    BY <2>2, <2>3, <2>4, <2>5 DEF HostInv
<1>7. CASE WritesProfile
  <2>0. /\ setup.todo # <<>> /\ Head(setup.todo).do \in {"empty", "refill"}
        /\ Done /\ UNCHANGED <<machine, distro, exes, command>>
    BY <1>7 DEF WritesProfile, Doing
  <2>1. TodoInv'
    BY <1>0, <2>0, DoneKeepsTodo
  <2>2. CommandsInv'
    BY <1>0, <2>0, OtherStepCommands
  <2>3. ProfilesInv'
    BY <1>0, <1>7, WritesProfiles
  <2>4. DistroInv'
    BY <1>0, <2>0, DistroStays
  <2> QED
    BY <2>1, <2>2, <2>3, <2>4 DEF HostInv
<1>8. CASE ChangesDistro
  <2>0. /\ setup.todo # <<>> /\ Head(setup.todo).do \in {"links", "shell", "unshell", "wrappers"}
        /\ Done /\ UNCHANGED <<exes, command, profile, backups>>
    BY <1>8 DEF ChangesDistro, Doing
  <2>1. TodoInv'
    BY <1>0, <2>0, DoneKeepsTodo
  <2>2. CommandsInv'
    BY <1>0, <2>0, OtherStepCommands
  <2>3. ProfilesInv'
    BY <1>0, <2>0, ProfilesStay
  <2>4. DistroInv'
    BY <1>0, <1>8, ChangesDistroStep
  <2> QED
    BY <2>1, <2>2, <2>3, <2>4 DEF HostInv
<1>9. CASE CleansUp
  <2>0. /\ setup.todo # <<>> /\ Head(setup.todo).do = "cleanup"
        /\ Done /\ UNCHANGED <<machine, distro, profile, backups>>
    BY <1>9 DEF CleansUp, Doing
  <2>1. TodoInv'
    BY <1>0, <2>0, DoneKeepsTodo
  <2>2. CommandsInv'
    BY <1>0, <1>9, CleansUpCommands
  <2>3. ProfilesInv'
    BY <1>0, <2>0, ProfilesStay
  <2>4. DistroInv'
    BY <1>0, <2>0, DistroStays
  <2> QED
    BY <2>1, <2>2, <2>3, <2>4 DEF HostInv
<1>10. CASE StartsDaemon
  <2>0. /\ setup.todo # <<>> /\ Head(setup.todo).do = "start"
        /\ Done /\ UNCHANGED <<machine, exes, command, distro, profile, backups>>
    BY <1>10 DEF StartsDaemon, Doing
  <2>1. TodoInv'
    BY <1>0, <2>0, DoneKeepsTodo
  <2>2. CommandsInv'
    BY <1>0, <2>0, OtherStepCommands
  <2>3. ProfilesInv'
    BY <1>0, <2>0, ProfilesStay
  <2>4. DistroInv'
    BY <1>0, <2>0, DistroStays
  <2> QED
    BY <2>1, <2>2, <2>3, <2>4 DEF HostInv
<1>11. CASE ShimRuns \/ UNCHANGED setupVars
  <2>0. UNCHANGED <<machine, exes, command, distro, profile, backups, setup>>
    BY <1>11 DEF ShimRuns, setupVars
  <2>1. TodoInv'
    BY <1>0, <2>0 DEF TodoInv, Paired
  <2>2. CommandsInv'
    BY <1>0, <2>0 DEF CommandsInv, NoDanglingCommand
  <2>3. ProfilesInv'
    BY <1>0, <2>0 DEF ProfilesInv, HasBackup
  <2>4. DistroInv'
    BY <1>0, <2>0, DistroStays
  <2> QED
    BY <2>1, <2>2, <2>3, <2>4 DEF HostInv
<1>12. CASE StepFails
  <2>0. /\ setup.todo # <<>> /\ UNCHANGED <<machine, distro, profile, backups>>
        /\ SkipPart \/ setup' = [setup EXCEPT !.todo = <<>>]
    BY <1>12 DEF StepFails
  <2>1. TodoInv'
    BY <1>0, <2>0, DoneKeepsTodo
  <2>2. CommandsInv'
    BY <1>0, <1>12, FailsCommands
  <2>3. ProfilesInv'
    BY <1>0, <2>0, ProfilesStay
  <2>4. DistroInv'
    BY <1>0, <2>0, DistroStays
  <2> QED
    BY <2>1, <2>2, <2>3, <2>4 DEF HostInv
<1>13. CASE OpEnds \/ Crash
  <2>0. setup' = NoSetup /\ UNCHANGED <<machine, exes, command, distro, profile, backups>>
    BY <1>13 DEF OpEnds, Crash
  <2>1. TodoInv' /\ setup'.op = "none" /\ setup'.todo = <<>>
    BY <2>0, IdleTodo
  <2>2. CommandsInv'
    BY <1>0, <2>0, <2>1 DEF CommandsInv, NoDanglingCommand
  <2>3. ProfilesInv'
    BY <1>0, <2>0, <2>1 DEF ProfilesInv, HasBackup
  <2>4. DistroInv'
    BY <1>0, <2>0, DistroStays
  <2> QED
    BY <2>1, <2>2, <2>3, <2>4 DEF HostInv
<1> QED
  BY <1>1, <1>2, <1>3, <1>4, <1>5, <1>6, <1>7, <1>8, <1>9, <1>10, <1>11, <1>12, <1>13
     DEF SetupNext

---------------------------------------------------------------------------
(* Installing, uninstalling, failing steps, crashes and shims that start   *)
(* the daemon keep the invariant of the host.                              *)
LEMMA HostInvHolds == SetupSpec => []HostInv
<1>1. SetupInit => HostInv
  BY HostInitially
<1>2. HostInv /\ [SetupNext]_setupVars => HostInv'
  BY HostStep
<1> QED
  BY <1>1, <1>2, PTL DEF SetupSpec

(* run_install_windows copies the executable before it writes a command,   *)
(* and run_uninstall_windows removes the commands before it cleans up: at  *)
(* no point does a command name an executable that is not there.           *)
THEOREM CommandsHaveTheirExe == SetupSpec => []NoDanglingCommand
<1>1. HostInv => NoDanglingCommand
  BY DEF HostInv, CommandsInv
<1> QED
  BY <1>1, HostInvHolds, PTL

(* However often profiles are wrapped and unwrapped, by one version and    *)
(* another, and wherever a write of settings is cut: the user's own        *)
(* commandline is in the file or in a backup of it.                        *)
THEOREM CommandlinesAreKept == SetupSpec => []CommandlineKept
<1>1. HostInv => CommandlineKept
  <2> SUFFICES ASSUME HostInv, NEW f \in Settings
               PROVE  \E c \in IF profile[f].torn THEN backups[f] ELSE {profile[f]} :
                          Extract(c) = Native
    BY DEF CommandlineKept
  <2>1. CASE profile[f].torn
    <3>1. HasBackup(f)
      BY <2>1 DEF HostInv, ProfilesInv
    <3> QED
      BY <2>1, <3>1 DEF HasBackup
  <2>2. CASE ~profile[f].torn
    <3>1. profile[f] \in Restorable
      BY <2>2 DEF HostInv, ProfilesInv, TornFile
    <3> QED
      BY <2>2, <3>1 DEF Restorable
  <2> QED
    BY <2>1, <2>2
<1> QED
  BY <1>1, HostInvHolds, PTL

(* install_agent_wrapper and install_wsl_shell_integration leave the agent *)
(* to be found when its name is typed, unless both are used or the agent   *)
(* was a link's target and is overwritten.                                 *)
THEOREM AgentsStillRun == SetupSpec => []AgentStillRuns
<1>1. HostInv => AgentStillRuns
  <2> SUFFICES ASSUME HostInv, distro.real # "shim", distro.target # "wrapper",
                      ~ (distro.shell /\ Content(distro) = "wrapper")
               PROVE  TypedFinds
    BY DEF AgentStillRuns
  <2> DEFINE c == Content(distro)
  <2>1. /\ distro.shell \in BOOLEAN /\ c \in {"absent", "agent", "wrapper"}
        /\ distro.real \in {"absent", "agent", "usr", "target"} /\ distro.target = "agent"
        /\ c = "absent" => machine.usr
        /\ c = "wrapper" => distro.real # "absent"
    BY DEF HostInv, DistroInv, Distro, Content
  <2>2. CASE distro.shell
    <3>1. ShellShimFinds
      BY <2>1, <2>2 DEF ShellShimFinds
    <3> QED
      BY <2>2, <3>1 DEF TypedFinds
  <2>3. CASE ~distro.shell /\ c = "agent"
    BY <2>3 DEF TypedFinds
  <2>4. CASE ~distro.shell /\ c = "wrapper"
    <3>1. RealBinRuns(distro)
      BY <2>1, <2>4 DEF RealBinRuns
    <3>2. WrapperFinds
      BY <3>1 DEF WrapperFinds, AgentShimFinds
    <3> QED
      BY <2>4, <3>2 DEF TypedFinds
  <2>5. CASE ~distro.shell /\ c = "absent"
    <3>1. machine.usr
      BY <2>1, <2>5
    <3> QED
      BY <2>5, <3>1 DEF TypedFinds
  <2> QED
    BY <2>1, <2>2, <2>3, <2>4, <2>5
<1> QED
  BY <1>1, HostInvHolds, PTL
=============================================================================
