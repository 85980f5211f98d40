--------------------------- MODULE FlashAllProofs ---------------------------
(***************************************************************************)
(* Theorems about FlashAll, for any phones, factory images, scripts and    *)
(* choices, and any number of faults: types; commands for fastbootd are    *)
(* not sent to anything else; and no phone but the chosen one is touched   *)
(* unless another one is in fastbootd.                                     *)
(***************************************************************************)
EXTENDS FlashAll, SequenceTheorems, FiniteSetTheorems, WellFoundedInduction, TLAPS

-----------------------------------------------------------------------------
(* What is left to do                                                      *)

\* What a task may name: a partition, with a slot or without.
Spots == Names \X (Slots \cup {""})

SimpleOps == {"adbReboot", "choose", "identify", "unlock", "require", "activate", "slots", "snapshot",
              "flashing", "wipe", "activateAgain", "updated", "lock", "reboot", "resizeAll", "super",
              "merge", "erase", "fastbootd", "waitForDisconnect", "waitForReconnect", "checkUserspace"}
SimpleTasks    == [op : SimpleOps]
FlashTasks     == [op : {"flash"}, img : Images, name : Names, optional : BOOLEAN, other : BOOLEAN]
PartitionTasks == [op : {"partition", "write"}, img : Images, place : Spots,
                   name : Names, optional : BOOLEAN]
ResizeTasks    == [op : {"resize"}, place : Spots, size : {"none", "image"}]
RebootTasks    == [op : {"rebootTo"}, mode : Modes \ {"away"}]
LineTasks      == [op : {"rebootLine"}, target : Targets \cup {"nowhere"}]

Tasks == SimpleTasks \cup FlashTasks \cup PartitionTasks \cup ResizeTasks \cup RebootTasks \cup LineTasks

\* Tasks that must stand in a certain place of the chain.
Placed == {"adbReboot", "choose", "merge", "waitForReconnect"}

Plain(q) == \A i \in 1..Len(q) : q[i].op \notin Placed

\* Who must stand before or behind whom.
Chain(q) ==
    \A i \in 1..Len(q) :
      /\ q[i].op = "waitForReconnect" => i < Len(q) /\ q[i + 1].op = "checkUserspace"
      /\ q[i].op = "merge" /\ i > 1 => q[i - 1].op \in {"fastbootd", "checkUserspace"}
      /\ q[i].op = "choose" /\ i > 1 => q[i - 1].op = "adbReboot"
      /\ q[i].op = "adbReboot" => i = 1

\* Every operation of a task is one of Ops.
LEMMA TaskOps == \A t \in Tasks : t.op \in Ops
  BY DEF Tasks, SimpleTasks, SimpleOps, FlashTasks, PartitionTasks, ResizeTasks, RebootTasks, LineTasks, Ops

\* What a task of a kind holds.
LEMMA TaskFields ==
    ASSUME NEW t \in Tasks
    PROVE  /\ t.op = "flash" => t \in FlashTasks
           /\ t.op \in {"partition", "write"} => t \in PartitionTasks
           /\ t.op = "resize" => t \in ResizeTasks
           /\ t.op = "rebootTo" => t \in RebootTasks
           /\ t.op = "rebootLine" => t \in LineTasks
  BY DEF Tasks, SimpleTasks, SimpleOps, FlashTasks, PartitionTasks, ResizeTasks, RebootTasks, LineTasks

\* A plain operation makes a task.
LEMMA SimpleTask == ASSUME NEW op \in SimpleOps PROVE Do(op) \in Tasks /\ Do(op).op = op
  BY DEF Do, Tasks, SimpleTasks

\* Short sequences.
LEMMA Shorts == ASSUME NEW S, NEW x \in S, NEW y \in S PROVE {<<>>, <<x>>, <<x, y>>} \subseteq Seq(S)
<1>1. <<>> \in Seq(S)
  OBVIOUS
<1>2. <<x>> \in Seq(S)
  OBVIOUS
<1>3. <<x, y>> \in Seq(S)
  OBVIOUS
<1>4. QED
  BY <1>1, <1>2, <1>3

\* The parts of a concatenation.
LEMMA Parts ==
    ASSUME NEW p \in Seq(Tasks), NEW q \in Seq(Tasks)
    PROVE  /\ p \o q \in Seq(Tasks) /\ Len(p \o q) = Len(p) + Len(q)
           /\ \A i \in 1..Len(p \o q) :
                /\ i <= Len(p) => i \in 1..Len(p) /\ (p \o q)[i] = p[i]
                /\ i > Len(p) => i - Len(p) \in 1..Len(q) /\ (p \o q)[i] = q[i - Len(p)]
  OBVIOUS

\* The tail of a sequence.
LEMMA Tails ==
    ASSUME NEW q \in Seq(Tasks), q # <<>>
    PROVE  /\ Tail(q) \in Seq(Tasks) /\ Len(Tail(q)) = Len(q) - 1 /\ Len(q) \in Nat \ {0}
           /\ Head(q) = q[1] /\ Head(q) \in Tasks
           /\ \A i \in 1..Len(Tail(q)) : i + 1 \in 1..Len(q) /\ Tail(q)[i] = q[i + 1]
  OBVIOUS

\* A chain without placed tasks.
LEMMA PlainChain == ASSUME NEW q, Plain(q) PROVE Chain(q)
  BY DEF Plain, Chain, Placed

\* Concatenation keeps plain sequences plain.
LEMMA PlainConcat ==
    ASSUME NEW p \in Seq(Tasks), NEW q \in Seq(Tasks), Plain(p), Plain(q)
    PROVE  p \o q \in Seq(Tasks) /\ Plain(p \o q)
<1>1. ASSUME NEW i \in 1..Len(p \o q) PROVE (p \o q)[i].op \notin Placed
  <2>1. CASE i <= Len(p)
    BY <2>1, Parts DEF Plain
  <2>2. CASE i > Len(p)
    BY <2>2, Parts DEF Plain
  <2>3. QED
    BY <2>1, <2>2
<1>2. QED
  BY <1>1, Parts DEF Plain

\* A step takes the head of a chain and may put others in its place: a
\* reboot to fastbootd only what ends in its check.
LEMMA Spliced ==
    ASSUME NEW q \in Seq(Tasks), q # <<>>, Chain(q), NEW m \in Seq(Tasks), Chain(m),
           \A i \in 1..Len(m) : m[i].op # "adbReboot",
           \/ m = <<>>
           \/ Head(q).op = "fastbootd" /\ m[Len(m)].op = "checkUserspace"
           \/ Head(q).op \notin {"fastbootd", "checkUserspace", "adbReboot"}
    PROVE  m \o Tail(q) \in Seq(Tasks) /\ Chain(m \o Tail(q))
<1> DEFINE r == m \o Tail(q)
<1>1. /\ r \in Seq(Tasks) /\ Len(r) = Len(m) + Len(Tail(q)) /\ Len(m) \in Nat /\ Len(q) \in Nat \ {0}
      /\ Len(Tail(q)) = Len(q) - 1
  BY Parts, Tails
<1>2. \A i \in 1..Len(r) : i <= Len(m) => i \in 1..Len(m) /\ r[i] = m[i]
  BY Parts, Tails
<1>3. \A i \in 1..Len(r) : i > Len(m) => i - Len(m) + 1 \in 2..Len(q) /\ r[i] = q[i - Len(m) + 1]
  BY Parts, Tails
<1> HIDE DEF r
<1>4. ASSUME NEW i \in 1..Len(r), i <= Len(m)
      PROVE  /\ r[i].op = "waitForReconnect" => i < Len(r) /\ r[i + 1].op = "checkUserspace"
             /\ r[i].op = "merge" /\ i > 1 => r[i - 1].op \in {"fastbootd", "checkUserspace"}
             /\ r[i].op = "choose" /\ i > 1 => r[i - 1].op = "adbReboot"
             /\ r[i].op = "adbReboot" => i = 1
  <2>1. i \in 1..Len(m) /\ r[i] = m[i]
    BY <1>2, <1>4
  <2>2. i < Len(m) => i + 1 \in 1..Len(r) /\ r[i + 1] = m[i + 1]
    BY <1>1, <1>2, <1>4
  <2>3. i > 1 => r[i - 1] = m[i - 1]
    BY <1>1, <1>2, <1>4
  <2>4. QED
    BY <1>1, <2>1, <2>2, <2>3 DEF Chain
<1>5. ASSUME NEW i \in 1..Len(r), i > Len(m)
      PROVE  /\ r[i].op = "waitForReconnect" => i < Len(r) /\ r[i + 1].op = "checkUserspace"
             /\ r[i].op = "merge" /\ i > 1 => r[i - 1].op \in {"fastbootd", "checkUserspace"}
             /\ r[i].op = "choose" /\ i > 1 => r[i - 1].op = "adbReboot"
             /\ r[i].op = "adbReboot" => i = 1
  <2> DEFINE j == i - Len(m) + 1
  <2>1. j \in 2..Len(q) /\ r[i] = q[j]
    BY <1>3, <1>5
  <2>2. j < Len(q) => i + 1 \in 1..Len(r) /\ i < Len(r) /\ r[i + 1] = q[j + 1]
    <3>1. SUFFICES ASSUME j < Len(q) PROVE i + 1 \in 1..Len(r) /\ i < Len(r) /\ r[i + 1] = q[j + 1]
      OBVIOUS
    <3>2. i + 1 \in 1..Len(r) /\ i < Len(r) /\ i + 1 > Len(m) /\ (i + 1) - Len(m) + 1 = j + 1
      BY <1>1, <1>5, <3>1
    <3>3. QED
      BY <1>3, <3>2
  <2>3. i - 1 > Len(m) => r[i - 1] = q[j - 1]
    <3>1. SUFFICES ASSUME i - 1 > Len(m) PROVE r[i - 1] = q[j - 1]
      OBVIOUS
    <3>2. i - 1 \in 1..Len(r) /\ (i - 1) - Len(m) + 1 = j - 1
      BY <1>1, <1>5, <3>1
    <3>3. QED
      BY <1>3, <3>1, <3>2
  <2>4. i - 1 <= Len(m) /\ i > 1 => j = 2 /\ i - 1 = Len(m) /\ m # <<>> /\ r[i - 1] = m[Len(m)]
    <3>1. SUFFICES ASSUME i - 1 <= Len(m), i > 1
                   PROVE  j = 2 /\ i - 1 = Len(m) /\ m # <<>> /\ r[i - 1] = m[Len(m)]
      OBVIOUS
    <3>2. j = 2 /\ i - 1 = Len(m) /\ i - 1 \in 1..Len(r) /\ Len(m) # 0
      BY <1>1, <1>5, <3>1
    <3>3. QED
      BY <1>2, <3>1, <3>2
  <2>5. Head(q) = q[1]
    BY Tails
  <2> HIDE DEF j
  <2>6. r[i].op = "waitForReconnect" => i < Len(r) /\ r[i + 1].op = "checkUserspace"
    BY <1>1, <2>1, <2>2 DEF Chain
  <2>7. r[i].op # "adbReboot"
    BY <1>1, <2>1 DEF Chain
  <2>8. ASSUME r[i].op = "merge", i > 1 PROVE r[i - 1].op \in {"fastbootd", "checkUserspace"}
    <3>1. q[j - 1].op \in {"fastbootd", "checkUserspace"}
      BY <1>1, <2>1, <2>8 DEF Chain
    <3>2. CASE i - 1 > Len(m)
      BY <2>3, <3>1, <3>2
    <3>3. CASE i - 1 <= Len(m)
      BY <2>4, <2>5, <2>8, <3>1, <3>3
    <3>4. QED
      BY <1>1, <3>2, <3>3
  <2>9. ASSUME r[i].op = "choose", i > 1 PROVE r[i - 1].op = "adbReboot"
    <3>1. q[j - 1].op = "adbReboot"
      BY <1>1, <2>1, <2>9 DEF Chain
    <3>2. CASE i - 1 > Len(m)
      BY <2>3, <3>1, <3>2
    <3>3. CASE i - 1 <= Len(m)
      BY <2>4, <2>5, <2>9, <3>1, <3>3
    <3>4. QED
      BY <1>1, <3>2, <3>3
  <2>10. QED
    BY <2>6, <2>7, <2>8, <2>9
<1>6. Chain(r)
  <2>1. \A i \in 1..Len(r) : i <= Len(m) \/ i > Len(m)
    BY <1>1
  <2>2. QED
    BY <1>4, <1>5, <2>1 DEF Chain
<1>7. QED
  BY <1>1, <1>6 DEF r

-----------------------------------------------------------------------------
(* The lines of a script                                                   *)

\* Induction on numbers, for a set instead of a predicate.
LEMMA Induction ==
    ASSUME NEW T, 0 \in T, \A n \in Nat : n \in T => n + 1 \in T
    PROVE  Nat \subseteq T
<1> SUFFICES ASSUME Nat \ T # {} PROVE FALSE
  OBVIOUS
<1>1. PICK x \in Nat \ T : \A y \in Nat \ T : ~(<<y, x>> \in OpToRel(<, Nat))
  BY WFMin, NatLessThanWellFounded
<1>2. \A y \in Nat \ T : ~(y < x)
  BY <1>1 DEF OpToRel
<1>3. x # 0 /\ x \in Nat
  BY <1>1
<1>4. x - 1 \in Nat /\ x - 1 < x
  BY <1>3
<1>5. x - 1 \in T
  BY <1>2, <1>4
<1>6. (x - 1) + 1 \in T
  BY <1>4, <1>5
<1>7. (x - 1) + 1 = x
  BY <1>3
<1>8. QED
  BY <1>1, <1>6, <1>7

\* What line n adds to the tasks of those before it.
WithLine(n, tasks) == IF script[n].ifWipe => opts.wipe THEN Append(tasks, script[n].task) ELSE tasks

\* parseFastbootInfo() answers a list of tasks, whatever is in the file.
LEMMA ParsedType ==
    ASSUME script \in Seq([ifWipe : BOOLEAN, task : ScriptTasks])
    PROVE  ParseFastbootInfo \in Seq(ScriptTasks)
<1> DEFINE Body(h) == [n \in 0..Len(script) |-> IF n = 0 THEN <<>> ELSE WithLine(n, h[n - 1])]
           tasks == CHOOSE h : h = Body(h)
           Upto(n, f) == /\ f \in [0..n -> Seq(ScriptTasks)] /\ f[0] = <<>>
                         /\ \A i \in 1..n : f[i] = WithLine(i, f[i - 1])
<1>0. Len(script) \in Nat
  OBVIOUS
<1>1. ASSUME NEW n \in 1..Len(script), NEW q \in Seq(ScriptTasks) PROVE WithLine(n, q) \in Seq(ScriptTasks)
  <2>0. script[n] \in [ifWipe : BOOLEAN, task : ScriptTasks]
    BY ElementOfSeq, Zenon
  <2>1. script[n].task \in ScriptTasks
    BY <2>0
  <2>2. Append(q, script[n].task) \in Seq(ScriptTasks)
    BY <2>1
  <2>3. QED
    BY <2>2, Zenon DEF WithLine
<1> DEFINE T == {n \in Nat : n <= Len(script) => \E f : Upto(n, f)}
<1>2. 0 \in T
  <2>1. Upto(0, [i \in 0..0 |-> <<>>])
    OBVIOUS
  <2>2. QED
    BY <2>1
<1>3. ASSUME NEW n \in Nat, n \in T PROVE n + 1 \in T
  <2>1. SUFFICES ASSUME n + 1 <= Len(script) PROVE \E f : Upto(n + 1, f)
    <3> HIDE DEF Upto
    <3>1. n + 1 \in Nat
      OBVIOUS
    <3>2. QED
      BY <3>1, Zenon
  <2>0. n <= Len(script)
    BY <1>0, <2>1
  <2>2. PICK f : Upto(n, f)
    <3> HIDE DEF Upto
    <3>1. QED
      BY <1>3, <2>0, Zenon
  <2> DEFINE g == [i \in 0..(n + 1) |-> IF i = n + 1 THEN WithLine(n + 1, f[n]) ELSE f[i]]
  <2>3. WithLine(n + 1, f[n]) \in Seq(ScriptTasks)
    BY <1>0, <1>1, <2>1, <2>2
  <2>4. \A i \in 0..(n + 1) : i = n + 1 \/ (i \in 0..n /\ i # n + 1)
    OBVIOUS
  <2>5. g \in [0..(n + 1) -> Seq(ScriptTasks)]
    BY <2>2, <2>3, <2>4
  <2>6. g[0] = <<>>
    BY <2>2
  <2>7. ASSUME NEW i \in 1..(n + 1) PROVE g[i] = WithLine(i, g[i - 1])
    <3>1. i \in 0..(n + 1) /\ i - 1 \in 0..n /\ i - 1 # n + 1 /\ i - 1 \in 0..(n + 1)
      OBVIOUS
    <3>2. g[i - 1] = f[i - 1]
      BY <3>1
    <3>3. CASE i = n + 1
      BY <3>1, <3>2, <3>3
    <3>4. CASE i # n + 1
      <4>1. i \in 1..n /\ g[i] = f[i]
        BY <3>1, <3>4
      <4>2. QED
        BY <2>2, <3>2, <4>1
    <3>5. QED
      BY <3>3, <3>4
  <2>8. QED
    <3> HIDE DEF g
    <3>1. QED
      BY <2>5, <2>6, <2>7
<1>4. \E f : f = Body(f)
  <2>1. Len(script) \in T
    <3> HIDE DEF T
    <3>1. QED
      BY <1>0, <1>2, <1>3, Induction
  <2>2. PICK f : Upto(Len(script), f)
    BY <1>0, <2>1
  <2>3. \A i \in 0..Len(script) : i = 0 \/ i \in 1..Len(script)
    BY <1>0
  <2>4. \A i \in 0..Len(script) : f[i] = Body(f)[i]
    BY <1>0, <2>2, <2>3
  <2>5. f = Body(f)
    BY <2>2, <2>4
  <2>6. QED
    <3> HIDE DEF Body
    <3>1. QED
      BY <2>5
<1>5. tasks = Body(tasks)
  <2> HIDE DEF Body
  <2>1. QED
    BY <1>4
<1> DEFINE R == {n \in Nat : n <= Len(script) => tasks[n] \in Seq(ScriptTasks)}
<1> HIDE DEF tasks
<1>6. \A n \in 0..Len(script) : tasks[n] = IF n = 0 THEN <<>> ELSE WithLine(n, tasks[n - 1])
  BY <1>5
<1>7. 0 \in R
  <2>1. tasks[0] = <<>>
    BY <1>0, <1>6
  <2>2. tasks[0] \in Seq(ScriptTasks)
    BY <2>1
  <2>3. QED
    BY <2>2
<1>8. ASSUME NEW n \in Nat, n \in R PROVE n + 1 \in R
  <2>1. SUFFICES ASSUME n + 1 <= Len(script) PROVE tasks[n + 1] \in Seq(ScriptTasks)
    OBVIOUS
  <2>2. n + 1 \in 1..Len(script) /\ n + 1 \in 0..Len(script) /\ n + 1 # 0 /\ (n + 1) - 1 = n /\ n <= Len(script)
    BY <1>0, <2>1
  <2>3. tasks[n] \in Seq(ScriptTasks)
    BY <1>8, <2>2
  <2>4. tasks[n + 1] = WithLine(n + 1, tasks[n])
    BY <1>6, <2>2
  <2>5. QED
    BY <1>1, <2>2, <2>3, <2>4
<1>9. Len(script) \in R
  <2> HIDE DEF R
  <2>1. QED
    BY <1>0, <1>7, <1>8, Induction
<1>10. ParseFastbootInfo = tasks[Len(script)]
  BY DEF ParseFastbootInfo, tasks, WithLine
<1>11. QED
  BY <1>0, <1>9, <1>10

\* A script that is not malformed holds tasks that may stand anywhere.
LEMMA ScriptPlain ==
    ASSUME NEW q \in Seq(ScriptTasks), \A i \in 1..Len(q) : q[i].op # "malformed"
    PROVE  q \in Seq(Tasks) /\ Plain(q) /\ \A i \in 1..Len(q) : q[i].op # "resize"
<1>1. ASSUME NEW t \in ScriptTasks, t.op # "malformed"
      PROVE  t \in Tasks /\ t.op \notin Placed /\ t.op # "resize"
  <2>1. CASE t \in {Do("fastbootd"), Do("super"), Do("erase")}
    BY <2>1, SimpleTask DEF SimpleOps, Placed
  <2>2. CASE t = Do("malformed")
    BY <1>1, <2>2 DEF Do
  <2>3. CASE t \in [op : {"rebootLine"}, target : Targets \cup {"nowhere"}]
    BY <2>3 DEF Tasks, LineTasks, Placed
  <2>4. CASE t \in [op : {"flash"}, img : Images, name : Names, optional : BOOLEAN, other : BOOLEAN]
    BY <2>4 DEF Tasks, FlashTasks, Placed
  <2>5. QED
    BY <2>1, <2>2, <2>3, <2>4, Zenon DEF ScriptTasks
<1>2. \A i \in 1..Len(q) : q[i] \in ScriptTasks
  OBVIOUS
<1>3. \A i \in 1..Len(q) : q[i] \in Tasks /\ q[i].op \notin Placed /\ q[i].op # "resize"
  BY <1>1, <1>2
<1>4. q \in Seq(Tasks)
  BY <1>3
<1>5. QED
  BY <1>3, <1>4 DEF Plain

-----------------------------------------------------------------------------
(* The invariant                                                           *)

\* A phone that is away was told where to go.
PhoneRecord ==
    {r \in [mode : Modes, goto : (Modes \ {"away"}) \cup {""}, plugged : BOOLEAN,
            active : Slots, booted : Slots, locked : BOOLEAN] : r.mode = "away" => r.goto # ""}
PhoneTypes == phone \in [Phones -> PhoneRecord]
StoreTypes == /\ part \in [Phones -> [Places -> Images \cup {"old", "none"}]]
              /\ room \in [Phones -> [Places -> {"old", "none", "image"}]]
PlanTypes  == source \in Sources /\ script \in Scripts /\ opts \in Options
LocalTypes == /\ required \subseteq {"vendor"}
              /\ current \in Slots \cup {"", "all"} /\ secondary \in Slots \cup {""}
              /\ dynamic \subseteq Places /\ updatedSuper \in BOOLEAN
LinkTypes  == dev \in Phones /\ open \in BOOLEAN /\ (open => Mode # "away")
PageTypes  == shown \in {"idle", "progress", "error", "complete"} /\ expecting \in BOOLEAN
CountTypes == faults \in 0..MaxFaults /\ unplugs \in 0..MaxUnplugs

Types == PhoneTypes /\ StoreTypes /\ PlanTypes /\ LocalTypes /\ LinkTypes /\ PageTypes /\ CountTypes

\* A resize behind another task follows one that was resized before.
ResizeLater == \A i \in 2..Len(todo) : todo[i].op = "resize" => dynamic # {}

\* What needs a phone in fastbootd comes when it is known to be there, and once
\* a partition was resized the phone is there as long as the link is the same.
HeadOk ==
    todo # <<>> /\ open /\ (Head(todo).op \in {"merge", "resize"} \/ dynamic # {})
      /\ Head(todo).op # "checkUserspace" => Mode = "fastbootd"

\* The chooser comes before anything is flashed.
Early == \A i \in 1..Len(todo) : todo[i].op \in {"choose", "adbReboot"} => dynamic = {}

\* Nothing has been done to a phone before the user confirms.
Untouched == shown = "idle" => todo = <<>> /\ dynamic = {}

Order == todo \in Seq(Tasks) /\ Chain(todo) /\ ResizeLater /\ HeadOk /\ Early /\ Untouched

Inv == Types /\ Order

-----------------------------------------------------------------------------
(* What a step does to the chain                                           *)

\* m may take the place of the head.
Fitting(m) ==
    /\ m \in Seq(Tasks) /\ Chain(m)
    /\ \A i \in 1..Len(m) : m[i].op \notin {"adbReboot", "choose"}
    /\ m # <<>> => m[1].op # "merge"
    /\ \/ m = <<>>
       \/ Head(todo).op = "fastbootd" /\ m[Len(m)].op = "checkUserspace"
       \/ Head(todo).op \notin {"fastbootd", "checkUserspace", "adbReboot"}

\* The phone is in fastbootd, whatever was known before.
InUserspace == open => Mode = "fastbootd"

\* A step of the chain keeps the order, on a link and in a mode that stay: the
\* steps a fastbootd is needed for come behind a check.
LEMMA OrderKept ==
    ASSUME Order, todo # <<>>, shown' # "idle", NEW m, Fitting(m), todo' = m \o Tail(todo),
           dev' = dev, open' = open, Mode' = Mode,
           dynamic \subseteq dynamic', dynamic' # dynamic => InUserspace /\ Head(todo).op = "resize",
           \A i \in 1..Len(m) : m[i].op = "resize" => dynamic # {} \/ (i = 1 /\ InUserspace),
           Head(todo).op \in {"fastbootd", "checkUserspace"} => m # <<>> \/ InUserspace
    PROVE  Order'
<1>1. /\ todo \in Seq(Tasks) /\ m \in Seq(Tasks) /\ Chain(todo) /\ Chain(m)
      /\ \A i \in 1..Len(m) : m[i].op # "adbReboot"
  BY DEF Order, Fitting
<1>2. todo' \in Seq(Tasks) /\ Chain(todo')
  BY <1>1, Spliced DEF Fitting
<1>3. /\ Len(m) \in Nat /\ Len(todo) \in Nat \ {0} /\ Len(todo') = Len(m) + (Len(todo) - 1)
      /\ Head(todo) = todo[1]
  BY <1>1, Parts, Tails
<1>4. \A i \in 1..Len(todo') : i <= Len(m) => i \in 1..Len(m) /\ todo'[i] = m[i]
  BY <1>1, Parts, Tails
<1>5. \A i \in 1..Len(todo') : i > Len(m) => i - Len(m) + 1 \in 2..Len(todo) /\ todo'[i] = todo[i - Len(m) + 1]
  BY <1>1, Parts, Tails
<1>6. ASSUME NEW i \in 1..Len(todo'), todo'[i].op = "resize"
      PROVE  dynamic # {} \/ (i = 1 /\ InUserspace)
  <2>1. CASE i <= Len(m)
    BY <1>4, <1>6, <2>1
  <2>2. CASE i > Len(m)
    BY <1>5, <1>6, <2>2 DEF Order, ResizeLater
  <2>3. QED
    BY <1>3, <2>1, <2>2
<1>7. ResizeLater'
  <2>1. SUFFICES ASSUME NEW i \in 2..Len(todo'), todo'[i].op = "resize" PROVE dynamic' # {}
    BY DEF ResizeLater
  <2>2. i \in 1..Len(todo') /\ i # 1
    BY <1>3
  <2>3. QED
    BY <1>6, <2>1, <2>2
<1>8. Early'
  <2>1. SUFFICES ASSUME NEW i \in 1..Len(todo'), todo'[i].op \in {"choose", "adbReboot"} PROVE dynamic' = {}
    BY DEF Early
  <2>2. i > Len(m)
    BY <1>3, <1>4, <2>1 DEF Fitting
  <2> DEFINE j == i - Len(m) + 1
  <2>3. j \in 2..Len(todo) /\ j \in 1..Len(todo) /\ j > 1 /\ todo'[i] = todo[j]
    BY <1>3, <1>5, <2>2
  <2>4. dynamic = {}
    BY <2>1, <2>3 DEF Order, Early
  <2> HIDE DEF j
  <2>5. todo[j].op = "choose" /\ todo[j - 1].op = "adbReboot"
    BY <1>1, <2>1, <2>3 DEF Chain
  <2>6. j - 1 \in 1..Len(todo)
    BY <1>3, <2>3
  <2>7. j - 1 = 1
    BY <1>1, <2>5, <2>6 DEF Chain
  <2>8. Head(todo).op = "adbReboot"
    BY <1>3, <2>5, <2>7
  <2>9. QED
    BY <2>4, <2>8
<1>9. HeadOk'
  <2>1. SUFFICES ASSUME todo' # <<>>, open',
                        Head(todo').op \in {"merge", "resize"} \/ dynamic' # {},
                        Head(todo').op # "checkUserspace"
                 PROVE  Mode' = "fastbootd"
    BY DEF HeadOk
  <2>2. 1 \in 1..Len(todo') /\ Head(todo') = todo'[1]
    BY <1>2, <2>1
  <2>3. CASE Head(todo).op # "checkUserspace" /\ dynamic # {}
    BY <2>1, <2>3 DEF Order, HeadOk
  <2>4. CASE Head(todo).op = "checkUserspace"
    BY <2>1, <2>4 DEF InUserspace, Fitting
  <2>5. CASE dynamic = {} /\ dynamic' # {}
    BY <2>1, <2>5 DEF InUserspace
  <2>6. CASE dynamic = {} /\ Head(todo').op = "resize"
    BY <1>6, <2>1, <2>2, <2>6 DEF InUserspace
  <2>7. CASE Head(todo').op = "merge" /\ Head(todo).op # "checkUserspace"
    <3>1. Len(m) < 1
      BY <1>3, <1>4, <2>2, <2>7 DEF Fitting
    <3>2. 2 \in 1..Len(todo) /\ todo'[1] = todo[2]
      BY <1>3, <1>5, <2>2, <3>1
    <3>3. todo[2 - 1].op \in {"fastbootd", "checkUserspace"}
      BY <1>1, <2>2, <2>7, <3>2 DEF Chain
    <3>4. m = <<>> /\ Head(todo).op = "fastbootd"
      BY <1>1, <1>3, <2>7, <3>1, <3>3
    <3>5. QED
      BY <2>1, <3>4 DEF InUserspace
  <2>8. QED
    BY <2>1, <2>3, <2>4, <2>5, <2>6, <2>7
<1>10. Untouched'
  BY DEF Untouched
<1>11. QED
  BY <1>2, <1>7, <1>8, <1>9, <1>10 DEF Order

\* What ends the chain keeps the order.
LEMMA OrderEnds == ASSUME todo' = <<>>, shown' # "idle" PROVE Order'
  BY DEF Order, Chain, ResizeLater, HeadOk, Early, Untouched

\* So does what leaves it alone, if a link that is open then was so before and
\* the phone is in the mode it was.
LEMMA OrderStays ==
    ASSUME Order, todo' = todo, dynamic' = dynamic, shown' = "idle" => shown = "idle",
           open' => open /\ Mode' = Mode
    PROVE  Order'
  BY DEF Order, Chain, ResizeLater, HeadOk, Early, Untouched

-----------------------------------------------------------------------------
(* The actions                                                             *)

\* The parts of the types, and of what each step leaves alone.
LEMMA TypesKept ==
    ASSUME Types
    PROVE  /\ UNCHANGED phone => PhoneTypes'
           /\ UNCHANGED <<part, room>> => StoreTypes'
           /\ UNCHANGED planVars => PlanTypes'
           /\ UNCHANGED localVars => LocalTypes'
           /\ UNCHANGED linkVars /\ Mode' = Mode => LinkTypes'
           /\ UNCHANGED phoneVars => PhoneTypes' /\ StoreTypes'
           /\ UNCHANGED <<linkVars, phone>> => Mode' = Mode
           /\ UNCHANGED <<shown, expecting>> => PageTypes'
           /\ UNCHANGED <<faults, unplugs>> => CountTypes'
<1>1. UNCHANGED phone => PhoneTypes'
  BY DEF Types, PhoneTypes
<1>2. UNCHANGED <<part, room>> => StoreTypes'
  BY DEF Types, StoreTypes
<1>3. UNCHANGED planVars => PlanTypes'
  BY DEF Types, PlanTypes, planVars
<1>4. UNCHANGED localVars => LocalTypes'
  BY DEF Types, LocalTypes, localVars
<1>5. UNCHANGED linkVars /\ Mode' = Mode => LinkTypes'
  BY DEF Types, LinkTypes, linkVars
<1>6. UNCHANGED <<phone, dev>> => Mode' = Mode
  BY DEF Mode
<1>7. UNCHANGED <<shown, expecting>> => PageTypes'
  BY DEF Types, PageTypes
<1>8. UNCHANGED <<faults, unplugs>> => CountTypes'
  BY DEF Types, CountTypes
<1>9. QED
  BY <1>1, <1>2, <1>3, <1>4, <1>5, <1>6, <1>7, <1>8 DEF phoneVars, linkVars

\* A chain that goes on or ends has begun.
LEMMA PageKept ==
    ASSUME Types, shown' \in {"progress", "error", "complete"}, expecting' \in BOOLEAN
    PROVE  PageTypes' /\ shown' # "idle"
  BY DEF PageTypes

\* A phone that is told something is still a phone.
LEMMA PhoneKept ==
    ASSUME Types, NEW p \in Phones, NEW r \in PhoneRecord, phone' = [phone EXCEPT ![p] = r]
    PROVE  PhoneTypes'
  BY DEF Types, PhoneTypes

\* The bounds are numbers, and so is what goes unanswered.
LEMMA Bounds == MaxFaults \in Nat /\ MaxUnplugs \in Nat
  BY BoundAssumption

\* At most four names can go unanswered at a time.
LEMMA NamesFinite ==
    ASSUME NEW a, NEW b, NEW c, NEW d, NEW missed \in SUBSET {a, b, c, d}
    PROVE  Cardinality(missed) \in Nat
<1>1. IsFiniteSet({a}) /\ {a, b} = {a} \cup {b} /\ {a, b, c} = {a, b} \cup {c}
      /\ {a, b, c, d} = {a, b, c} \cup {d}
  BY FS_Singleton
<1>2. IsFiniteSet({a, b})
  BY <1>1, FS_AddElement
<1>3. IsFiniteSet({a, b, c})
  BY <1>1, <1>2, FS_AddElement
<1>4. IsFiniteSet({a, b, c, d})
  BY <1>1, <1>3, FS_AddElement
<1>5. QED
  BY <1>4, FS_Subset, FS_CardinalityType

\* A lookup counts its faults.
LEMMA LookupCounts ==
    ASSUME Types, NEW names, NEW missed \in SUBSET names, Lookup(names, missed),
           Cardinality(missed) \in Nat, unplugs' = unplugs
    PROVE  CountTypes' /\ (missed = {} /\ names # {} => open)
  BY Bounds DEF Types, CountTypes, Lookup

\* So do an answer and a refusal.
LEMMA AnswerCounts ==
    ASSUME Types, Answered \/ Fails \/ UNCHANGED faults, unplugs' = unplugs
    PROVE  CountTypes'
  BY Bounds DEF Types, CountTypes, Answered, Fails

\* Without anything in its place a task is simply gone.
LEMMA NothingFits ==
    ASSUME Order, todo # <<>>
    PROVE  Fitting(<<>>) /\ <<>> \o Tail(todo) = Tail(todo)
  BY DEF Order, Fitting, Chain

\* A step that does its task and nothing to the chain.
LEMMA OrderProceeds ==
    ASSUME Order, todo # <<>>, Proceed, dev' = dev, open' = open, Mode' = Mode, dynamic' = dynamic,
           Head(todo).op \in {"fastbootd", "checkUserspace"} => InUserspace
    PROVE  Order'
<1>1. todo' = <<>> \o Tail(todo) /\ shown' # "idle"
  BY NothingFits DEF Proceed, Goes
<1>2. QED
  BY <1>1, NothingFits, OrderKept

\* One that puts plain tasks in its place.
LEMMA OrderInserts ==
    ASSUME Order, todo # <<>>, NEW m \in Seq(Tasks), Plain(m), ProceedWith(m),
           Head(todo).op \notin {"fastbootd", "checkUserspace", "adbReboot"},
           dev' = dev, open' = open, Mode' = Mode, dynamic' = dynamic,
           \A i \in 1..Len(m) : m[i].op = "resize" => dynamic # {} \/ (i = 1 /\ InUserspace)
    PROVE  Order'
<1>1. todo' = m \o Tail(todo) /\ shown' # "idle"
  BY DEF ProceedWith, Goes
<1>2. Fitting(m)
  BY PlainChain DEF Fitting, Plain, Placed
<1>3. QED
  BY <1>1, <1>2, OrderKept

\* The initial state.
LEMMA InitInv == Init => Inv
<1> SUFFICES ASSUME Init PROVE Inv
  OBVIOUS
<1>1. PhoneTypes /\ Mode # "away"
  <2>1. PICK start \in Starts, mode \in [Phones -> OtherModes] :
            phone = [p \in Phones |->
                [mode |-> IF p = Ours THEN start.mode ELSE mode[p],
                 goto |-> "", plugged |-> TRUE, active |-> start.active, booted |-> start.active,
                 locked |-> start.locked]]
    BY DEF Init
  <2>2. start \in [mode : Modes \ {"away"}, active : Slots, locked : BOOLEAN]
    BY StartAssumption
  <2>2a. Mode # "away"
    BY <2>1, <2>2, OursAssumption DEF Init, Mode
  <2>3. \A p \in Phones : mode[p] \in Modes \ {"away"}
    BY OtherModesAssumption
  <2>4. PhoneTypes
    BY <2>1, <2>2, <2>3 DEF PhoneTypes, PhoneRecord
  <2>5. QED
    BY <2>2a, <2>4
<1>2. StoreTypes /\ PlanTypes /\ PageTypes
  BY DEF Init, StoreTypes, PlanTypes, PageTypes
<1>2a. LinkTypes
  BY <1>1, OursAssumption DEF Init, LinkTypes
<1>3. LocalTypes
  BY DEF Init, LocalTypes
<1>4. CountTypes
  <2>1. faults = 0 /\ unplugs = 0
    BY DEF Init
  <2>2. QED
    BY <2>1, Bounds DEF CountTypes
<1>5. Order
  <2>1. todo = <<>> /\ dynamic = {}
    BY DEF Init
  <2>2. QED
    BY <2>1 DEF Order, Chain, ResizeLater, HeadOk, Early, Untouched
<1>6. QED
  BY <1>1, <1>2, <1>2a, <1>3, <1>4, <1>5 DEF Inv, Types

\* The pages of the application: the user confirms.
LEMMA InstallKeeps == ASSUME Inv, Install PROVE Inv'
<1>1. /\ todo = <<>> /\ dynamic = {} /\ shown' = "progress" /\ expecting' \in BOOLEAN
      /\ UNCHANGED <<planVars, localVars, linkVars, phoneVars, faults, unplugs>>
  BY DEF Inv, Types, PageTypes, Order, Untouched, Install
<1>2. Types'
  BY <1>1, TypesKept, PageKept DEF Inv, Types, phoneVars
<1>3. Stages \in Seq(Tasks) /\ Plain(Stages) /\ (\A i \in 1..Len(Stages) : Stages[i].op # "resize")
  <2>1. Stages \in Seq(Tasks)
    BY SimpleTask DEF Stages, SimpleOps
  <2>2. \A i \in 1..Len(Stages) : Stages[i].op \notin Placed \cup {"resize"}
    BY DEF Stages, Do, Placed
  <2>3. QED
    BY <2>1, <2>2 DEF Plain
<1>4. FromAdb \in Seq(Tasks) /\ Len(FromAdb) = 3 /\ FromAdb[1].op = "adbReboot"
      /\ FromAdb[2].op = "choose" /\ FromAdb[3].op = "identify"
  BY SimpleTask DEF FromAdb, SimpleOps, Do
<1>5. CASE todo' = Stages
  <2>1. Chain(todo') /\ todo' \in Seq(Tasks) /\ Plain(todo')
    BY <1>3, <1>5, PlainChain
  <2>2. ResizeLater'
    BY <1>3, <1>5 DEF ResizeLater
  <2>3. HeadOk'
    BY <1>1, <1>5 DEF HeadOk, Stages, Do, localVars
  <2>4. Early' /\ Untouched'
    BY <1>1, <2>1 DEF Early, Untouched, Plain, Placed, localVars
  <2>5. QED
    BY <1>2, <2>1, <2>2, <2>3, <2>4 DEF Inv, Order
<1>6. CASE todo' = FromAdb \o Stages
  <2>1. /\ todo' \in Seq(Tasks) /\ Len(todo') = 3 + Len(Stages)
        /\ \A i \in 1..Len(todo') :
             /\ i <= 3 => todo'[i] = FromAdb[i]
             /\ i > 3 => i - 3 \in 1..Len(Stages) /\ todo'[i] = Stages[i - 3]
    <3> DEFINE f == FromAdb
               g == Stages
    <3>1. f \in Seq(Tasks) /\ g \in Seq(Tasks)
      BY <1>3, <1>4
    <3>2. todo' = f \o g /\ Len(f) = 3
      BY <1>4, <1>6
    <3> HIDE DEF f, g
    <3>3. /\ f \o g \in Seq(Tasks) /\ Len(f \o g) = Len(f) + Len(g)
          /\ \A i \in 1..Len(f \o g) :
                /\ i <= Len(f) => i \in 1..Len(f) /\ (f \o g)[i] = f[i]
                /\ i > Len(f) => i - Len(f) \in 1..Len(g) /\ (f \o g)[i] = g[i - Len(f)]
      BY <3>1, Parts
    <3>4. /\ todo' \in Seq(Tasks) /\ Len(todo') = 3 + Len(g)
          /\ \A i \in 1..Len(todo') :
               /\ i <= 3 => todo'[i] = f[i]
               /\ i > 3 => i - 3 \in 1..Len(g) /\ todo'[i] = g[i - 3]
      BY <3>2, <3>3
    <3>5. QED
      BY <3>4 DEF f, g
  <2>2. \A i \in 1..Len(todo') : i = 1 \/ i = 2 \/ i = 3 \/ i > 3
    BY <1>3, <2>1
  <2>3. \A i \in 1..Len(todo') : i > 3 => todo'[i].op \notin Placed /\ todo'[i].op # "resize"
    BY <1>3, <2>1 DEF Plain
  <2>4. 1 \in 1..Len(todo') /\ 2 \in 1..Len(todo') /\ 3 \in 1..Len(todo') /\ Head(todo') = todo'[1]
    BY <1>3, <2>1
  <2>5. todo'[1].op = "adbReboot" /\ todo'[2].op = "choose" /\ todo'[3].op = "identify"
    BY <1>4, <2>1, <2>4
  <2>6. Chain(todo')
    BY <2>2, <2>3, <2>5 DEF Chain, Placed
  <2>7. ResizeLater'
    BY <2>2, <2>3, <2>4, <2>5 DEF ResizeLater
  <2>8. HeadOk' /\ Early' /\ Untouched'
    BY <1>1, <2>4, <2>5 DEF HeadOk, Early, Untouched, localVars
  <2>9. QED
    BY <1>2, <2>1, <2>6, <2>7, <2>8 DEF Inv, Order
<1>7. QED
  BY <1>5, <1>6 DEF Install

\* A task is at hand.
LEMMA AtHand == ASSUME NEW op, Task(op) PROVE todo # <<>> /\ Head(todo).op = op
  BY DEF Task

\* Throwing ends the chain.
LEMMA Thrown ==
    ASSUME Types, Throw, expecting' \in BOOLEAN
    PROVE  Order' /\ PageTypes'
  BY OrderEnds, PageKept DEF Throw

\* Going on shows progress.
LEMMA Going == ASSUME Types, NEW q, Goes(q), expecting' \in BOOLEAN PROVE PageTypes' /\ shown' # "idle"
  BY PageKept DEF Goes

\* The mode of a phone that is told something stays.
LEMMA ModeKept ==
    ASSUME Types, NEW r \in PhoneRecord, phone' = [phone EXCEPT ![dev] = r], r.mode = Mode, dev' = dev
    PROVE  Mode' = Mode /\ PhoneTypes'
  BY PhoneKept DEF Types, PhoneTypes, LinkTypes, Mode

\* What a phone may be told: where to go, its slot, its lock.
LEMMA Told ==
    ASSUME Types
    PROVE  /\ \A g \in Modes \ {"away"} : [phone[dev] EXCEPT !.goto = g] \in PhoneRecord
                                /\ [phone[dev] EXCEPT !.goto = g].mode = Mode
           /\ \A s \in Slots : [phone[dev] EXCEPT !.active = s] \in PhoneRecord
                                /\ [phone[dev] EXCEPT !.active = s].mode = Mode
           /\ \A b \in BOOLEAN : [phone[dev] EXCEPT !.locked = b] \in PhoneRecord
                                /\ [phone[dev] EXCEPT !.locked = b].mode = Mode
<1>1. PICK r \in PhoneRecord : r = phone[dev] /\ r.mode = Mode
  BY DEF Types, PhoneTypes, LinkTypes, Mode
<1>2. \A g \in Modes \ {"away"} : [r EXCEPT !.goto = g] \in PhoneRecord /\ [r EXCEPT !.goto = g].mode = r.mode
  <2>1. "" \notin Modes
    BY DEF Modes
  <2>2. QED
    BY <2>1 DEF PhoneRecord
<1>3. \A s \in Slots : [r EXCEPT !.active = s] \in PhoneRecord /\ [r EXCEPT !.active = s].mode = r.mode
  BY DEF PhoneRecord
<1>4. \A b \in BOOLEAN : [r EXCEPT !.locked = b] \in PhoneRecord /\ [r EXCEPT !.locked = b].mode = r.mode
  BY DEF PhoneRecord
<1>5. QED
  BY <1>1, <1>2, <1>3, <1>4

\* From adb: the reboot, the chooser, the product.
LEMMA AdbRebootKeeps == ASSUME Inv, AdbReboot PROVE Inv'
<1>1. /\ todo # <<>> /\ Head(todo).op = "adbReboot" /\ Proceed
      /\ UNCHANGED <<planVars, expecting, localVars, linkVars, part, room, unplugs>>
      /\ Answered \/ Fails
  BY AtHand DEF AdbReboot
<1>2. UNCHANGED phone \/ phone' = [phone EXCEPT ![dev].goto = "bootloader"]
  BY DEF AdbReboot
<1>3. Mode' = Mode /\ PhoneTypes'
  BY <1>1, <1>2, Told, ModeKept, TypesKept DEF Inv, Modes, Mode, linkVars
<1>4. Types'
  BY <1>1, <1>3, TypesKept, AnswerCounts, Going DEF Inv, Types, Proceed, PageTypes
<1>5. Order'
  BY <1>1, <1>3, OrderProceeds DEF Inv, linkVars, localVars
<1>6. QED
  BY <1>4, <1>5 DEF Inv

\* The chooser, which opens the chosen phone or ends the chain.
LEMMA ChooseKeeps == ASSUME Inv, Choose PROVE Inv'
<1>1. /\ todo # <<>> /\ Head(todo).op = "choose" /\ expecting' \in BOOLEAN
      /\ UNCHANGED <<planVars, localVars, phoneVars, faults, unplugs>>
  BY AtHand DEF Choose, Inv, Types, PageTypes
<1>2. CASE Throw /\ UNCHANGED linkVars
  BY <1>1, <1>2, Thrown, TypesKept DEF Inv, Types, phoneVars
<1>3. CASE Proceed /\ dev' = Ours /\ open' = TRUE
  <2>0. LinkTypes'
    <3>1. shown' = "error" \/ phone[Ours].mode \in {"bootloader", "fastbootd"}
      BY DEF Choose, Throw
    <3>2. shown' = "progress" /\ phone' = phone
      BY <1>1, <1>3 DEF Proceed, Goes, phoneVars
    <3>3. Mode' = phone[Ours].mode
      BY <1>3, <3>2 DEF Mode
    <3>4. QED
      BY <1>3, <3>1, <3>2, <3>3, OursAssumption DEF LinkTypes
  <2>1. Types'
    BY <1>1, <1>3, <2>0, Going, TypesKept DEF Inv, Types, Proceed, phoneVars
  <2>2. /\ todo \in Seq(Tasks) /\ Chain(todo) /\ dynamic = {} /\ dynamic' = {} /\ todo' = Tail(todo)
        /\ shown' # "idle"
    <3>1. 1 \in 1..Len(todo) /\ Head(todo) = todo[1]
      BY <1>1, Tails DEF Inv, Order
    <3>2. QED
      BY <1>1, <1>3, <3>1 DEF Inv, Order, Early, Proceed, Goes, localVars
  <2>3. /\ Len(todo') = Len(todo) - 1 /\ Len(todo) \in Nat \ {0} /\ Head(todo) = todo[1]
        /\ \A i \in 1..Len(todo') : i + 1 \in 1..Len(todo) /\ todo'[i] = todo[i + 1]
    BY <1>1, <2>2, Tails
  <2>4. todo' \in Seq(Tasks) /\ Chain(todo')
    <3>1. Fitting(<<>>) /\ <<>> \o Tail(todo) = Tail(todo)
      BY <1>1, NothingFits DEF Inv
    <3>2. QED
      BY <1>1, <2>2, <3>1, Spliced DEF Fitting
  <2>5. \A i \in 1..Len(todo') : todo'[i].op # "resize"
    <3>1. \A i \in 1..Len(todo') : i + 1 \in 2..Len(todo)
      BY <2>3
    <3>2. QED
      BY <2>2, <2>3, <3>1 DEF Inv, Order, ResizeLater
  <2>6. \A i \in 1..Len(todo') : i = 1 => todo'[i].op # "merge"
    <3>1. \A i \in 1..Len(todo') : i = 1 => 2 \in 1..Len(todo) /\ todo'[i] = todo[2] /\ 2 - 1 = 1
      BY <2>3
    <3>2. QED
      BY <1>1, <2>2, <2>3, <3>1 DEF Chain
  <2>7. ResizeLater'
    BY <2>2, <2>5 DEF ResizeLater
  <2>8. HeadOk'
    <3>1. todo' # <<>> => 1 \in 1..Len(todo') /\ Head(todo') = todo'[1]
      BY <2>4
    <3>2. QED
      BY <2>2, <2>5, <2>6, <3>1 DEF HeadOk
  <2>9. Early' /\ Untouched'
    BY <2>2 DEF Early, Untouched
  <2>10. QED
    BY <2>1, <2>4, <2>7, <2>8, <2>9 DEF Inv, Order
<1>4. QED
  BY <1>2, <1>3 DEF Choose

\* The product name.
LEMMA IdentifyKeeps == ASSUME Inv, Identify PROVE Inv'
<1>1. /\ todo # <<>> /\ Head(todo).op = "identify" /\ Proceed
      /\ UNCHANGED <<planVars, expecting, localVars, linkVars, phoneVars, unplugs>>
  BY AtHand DEF Identify, Quietly
<1>2. CountTypes'
  BY <1>1, NamesFinite, LookupCounts DEF Identify, Inv
<1>3. Types'
  BY <1>1, <1>2, TypesKept, Going DEF Inv, Types, Proceed, PageTypes, phoneVars
<1>4. Order'
  BY <1>1, OrderProceeds DEF Inv, linkVars, localVars, phoneVars, Mode
<1>5. QED
  BY <1>3, <1>4 DEF Inv

-----------------------------------------------------------------------------
(* Steps on a link that stays, to a phone in a mode that stays             *)

\* What such a step is known to do when its chain is not looked at.
Steady ==
    /\ UNCHANGED <<planVars, linkVars>> /\ Mode' = Mode /\ expecting' \in BOOLEAN
    /\ PhoneTypes' /\ StoreTypes' /\ LocalTypes' /\ CountTypes'

\* It keeps the types, and what is left is the order.
LEMMA SteadyKeeps ==
    ASSUME Inv, Steady, shown' \in {"progress", "error", "complete"}, Order'
    PROVE  Inv'
<1>1. PlanTypes' /\ LinkTypes' /\ PageTypes'
  BY TypesKept, PageKept DEF Inv, Steady
<1>2. QED
  BY <1>1 DEF Inv, Types, Steady

\* It throws.
LEMMA SteadyThrows == ASSUME Inv, Steady, Throw PROVE Inv'
  BY SteadyKeeps, OrderEnds DEF Throw

\* It goes on.
LEMMA SteadyProceeds ==
    ASSUME Inv, Steady, todo # <<>>, Proceed, dynamic' = dynamic,
           Head(todo).op \in {"fastbootd", "checkUserspace"} => InUserspace
    PROVE  Inv'
<1>1. dev' = dev /\ open' = open /\ Mode' = Mode
  BY DEF Steady, linkVars
<1>2. Order'
  BY <1>1, OrderProceeds DEF Inv
<1>3. QED
  BY <1>2, SteadyKeeps DEF Proceed, Goes

\* It goes on with plain tasks.
LEMMA SteadyInserts ==
    ASSUME Inv, Steady, todo # <<>>, NEW m \in Seq(Tasks), Plain(m), ProceedWith(m), dynamic' = dynamic,
           Head(todo).op \notin {"fastbootd", "checkUserspace", "adbReboot"},
           \A i \in 1..Len(m) : m[i].op = "resize" => dynamic # {} \/ (i = 1 /\ InUserspace)
    PROVE  Inv'
<1>1. dev' = dev /\ open' = open /\ Mode' = Mode
  BY DEF Steady, linkVars
<1>2. Order'
  BY <1>1, OrderInserts DEF Inv
<1>3. QED
  BY <1>2, SteadyKeeps DEF ProceedWith, Goes

\* A step that does nothing to the phones is steady.
LEMMA QuietIsSteady ==
    ASSUME Inv, Quietly, CountTypes'
    PROVE  Steady /\ dynamic' = dynamic
<1>1. UNCHANGED <<planVars, expecting, localVars, linkVars, phoneVars>>
  BY DEF Quietly
<1>2. Mode' = Mode
  BY <1>1 DEF Mode, phoneVars, linkVars
<1>3. PhoneTypes' /\ StoreTypes' /\ LocalTypes' /\ expecting' \in BOOLEAN
  BY <1>1, TypesKept DEF Inv, Types, PageTypes
<1>4. QED
  BY <1>1, <1>2, <1>3 DEF Steady, localVars

\* The counters when the step leaves them.
LEMMA QuietCounts == ASSUME Inv, UNCHANGED <<faults, unplugs>> PROVE CountTypes'
  BY TypesKept DEF Inv

\* Names of up to four variables.
LEMMA LookupFaults ==
    ASSUME Inv, NEW a, NEW b, NEW c, NEW d, NEW names \in SUBSET {a, b, c, d},
           NEW missed \in SUBSET names, Lookup(names, missed), unplugs' = unplugs
    PROVE  CountTypes'
<1>1. missed \in SUBSET {a, b, c, d}
  OBVIOUS
<1>2. Cardinality(missed) \in Nat
  BY <1>1, NamesFinite
<1>3. QED
  BY <1>2, LookupCounts DEF Inv

\* What is written to a partition.
LEMMA ContentTypes ==
    ASSUME Inv, NEW place \in Places, NEW what \in Images \cup {"old", "none"}, Content(place, what),
           UNCHANGED room
    PROVE  StoreTypes'
<1>1. part' = [part EXCEPT ![dev] = [part[dev] EXCEPT ![place] = what]]
  BY DEF Content
<1>2. part[dev] \in [Places -> Images \cup {"old", "none"}]
  BY DEF Inv, Types, StoreTypes, LinkTypes
<1>3. [part[dev] EXCEPT ![place] = what] \in [Places -> Images \cup {"old", "none"}]
  BY <1>2
<1>4. QED
  BY <1>1, <1>3 DEF Inv, Types, StoreTypes

-----------------------------------------------------------------------------
(* The stages                                                              *)

\* The bootloader is unlocked, which wipes the phone.
LEMMA UnlockKeeps == ASSUME Inv, Unlock PROVE Inv'
<1>1. /\ todo # <<>> /\ Head(todo).op = "unlock" /\ (Proceed \/ Throw)
      /\ UNCHANGED <<planVars, expecting, localVars, linkVars, unplugs>>
  BY AtHand DEF Unlock
<1>2. UNCHANGED phone \/ phone' = [phone EXCEPT ![dev].locked = FALSE]
  BY DEF Unlock, phoneVars
<1>3. Mode' = Mode /\ PhoneTypes'
  BY <1>1, <1>2, Told, ModeKept, TypesKept DEF Inv, Mode, linkVars
<1>4. StoreTypes'
  <2>1. UNCHANGED <<part, room>> \/ (Content(<<"userdata", "">>, "none") /\ UNCHANGED room)
    BY DEF Unlock, phoneVars, Content
  <2>2. <<"userdata", "">> \in Places
    BY DEF Places
  <2>3. QED
    BY <2>1, <2>2, ContentTypes, TypesKept DEF Inv
<1>5. CountTypes'
  <2>1. CASE \E missed \in SUBSET {"unlocked"} : Lookup({"unlocked"}, missed)
    BY <1>1, <2>1, LookupFaults
  <2>2. CASE Answered \/ Fails
    BY <1>1, <2>2, AnswerCounts DEF Inv
  <2>3. QED
    BY <2>1, <2>2 DEF Unlock
<1>6. Steady /\ dynamic' = dynamic
  BY <1>1, <1>3, <1>4, <1>5, TypesKept DEF Steady, Inv, Types, PageTypes, localVars
<1>7. QED
  BY <1>1, <1>6, SteadyProceeds, SteadyThrows

\* checkRequirements().
LEMMA RequireKeeps == ASSUME Inv, Require PROVE Inv'
<1>1. /\ todo # <<>> /\ Head(todo).op = "require" /\ (Proceed \/ Throw)
      /\ UNCHANGED <<planVars, expecting, current, secondary, dynamic, updatedSuper, linkVars,
                     phoneVars, unplugs>>
  BY AtHand DEF Require
<1>2. CountTypes'
  <2>1. CASE \E missed \in SUBSET {"product", "has-slot"} : Lookup({"product", "has-slot"}, missed)
    <3>1. {"product", "has-slot"} \in SUBSET {"product", "has-slot", 1, 2}
      OBVIOUS
    <3>2. QED
      BY <1>1, <2>1, LookupFaults
  <2>2. CASE UNCHANGED faults
    BY <1>1, <2>2, QuietCounts
  <2>3. QED
    BY <2>1, <2>2 DEF Require
<1>3. LocalTypes'
  <2>1. required' \subseteq {"vendor"}
    BY DEF Require, Demanded, Inv, Types, LocalTypes
  <2>2. QED
    BY <1>1, <2>1 DEF Inv, Types, LocalTypes
<1>4. Steady
  BY <1>1, <1>2, <1>3, TypesKept DEF Steady, Inv, Types, PageTypes, phoneVars
<1>5. QED
  BY <1>1, <1>4, SteadyProceeds, SteadyThrows

\* A slot that is looked up is one of the two, or none.
LEMMA SlotTypes ==
    ASSUME Inv, NEW missed
    PROVE  /\ Current(missed) \in Slots \cup {""}
           /\ opts.slot \in Slots \cup {"", "all"}
           /\ \A s \in Slots : Other(s) \in Slots
<1>1. phone[dev].active \in Slots /\ phone[dev].booted \in Slots
  BY DEF Inv, Types, PhoneTypes, LinkTypes, PhoneRecord
<1>2. Current(missed) \in Slots \cup {""}
  BY <1>1 DEF Current
<1>3. opts.slot \in Slots \cup {"", "all"}
  BY OptionAssumption DEF Inv, Types, PlanTypes
<1>4. \A s \in Slots : Other(s) \in Slots
  <2>1. \A s \in Slots : \E o \in Slots : o # s
    BY DEF Slots
  <2>2. QED
    BY <2>1 DEF Other
<1>5. QED
  BY <1>2, <1>3, <1>4

\* The slot is made active.
LEMMA ActivateKeeps == ASSUME Inv, Activate PROVE Inv'
<1>1. /\ todo # <<>> /\ Head(todo).op = "activate" /\ (Proceed \/ Throw)
      /\ UNCHANGED <<planVars, expecting, localVars, linkVars, part, room, unplugs>>
  BY AtHand DEF Activate
<1>2. UNCHANGED phone \/ \E s \in Slots : phone' = [phone EXCEPT ![dev].active = s]
  <2>1. PICK missed \in SUBSET {"slot-count", "current-slot"} :
            LET slot == IF opts.slot = "all" THEN "a" ELSE SlotOr(opts.slot, Current(missed)) IN
            \/ UNCHANGED phone
            \/ slot # "" /\ SetActive(slot)
    BY DEF Activate
  <2> DEFINE slot == IF opts.slot = "all" THEN "a" ELSE SlotOr(opts.slot, Current(missed))
  <2>2. slot # "" => slot \in Slots
    BY SlotTypes DEF SlotOr, Slots
  <2>3. QED
    BY <2>1, <2>2 DEF SetActive
<1>3. Mode' = Mode /\ PhoneTypes'
  BY <1>1, <1>2, Told, ModeKept, TypesKept DEF Inv, Mode, linkVars
<1>4. CountTypes'
  <2>1. CASE \E missed \in SUBSET {"slot-count", "current-slot"} : Lookup({"slot-count", "current-slot"}, missed)
    <3>1. {"slot-count", "current-slot"} \in SUBSET {"slot-count", "current-slot", 1, 2}
      OBVIOUS
    <3>2. QED
      BY <1>1, <2>1, <3>1, LookupFaults
  <2>2. CASE Fails
    BY <1>1, <2>2, AnswerCounts DEF Inv
  <2>3. QED
    BY <2>1, <2>2 DEF Activate
<1>5. Steady /\ dynamic' = dynamic
  BY <1>1, <1>3, <1>4, TypesKept DEF Steady, Inv, Types, PageTypes, localVars
<1>6. QED
  BY <1>1, <1>5, SteadyProceeds, SteadyThrows

\* The slots are looked up.
LEMMA DetermineSlotsKeeps == ASSUME Inv, DetermineSlots PROVE Inv'
<1>1. /\ todo # <<>> /\ Head(todo).op = "slots" /\ Proceed
      /\ UNCHANGED <<planVars, expecting, required, dynamic, updatedSuper, linkVars, phoneVars, unplugs>>
  BY AtHand DEF DetermineSlots
<1>2. PICK missed \in SUBSET {"slot-count", "current-slot"} :
          LET one == IF opts.slot \in Slots THEN opts.slot ELSE Current(missed) IN
          /\ Lookup({"slot-count", "current-slot"}, missed)
          /\ current' = SlotOr(opts.slot, Current(missed))
          /\ secondary' = IF opts.skipSecondary \/ "slot-count" \in missed \/ one = ""
                          THEN "" ELSE Other(one)
  BY DEF DetermineSlots
<1>3. CountTypes'
  <2>1. {"slot-count", "current-slot"} \in SUBSET {"slot-count", "current-slot", 1, 2}
    OBVIOUS
  <2>2. QED
    BY <1>1, <1>2, <2>1, LookupFaults
<1>4. current' \in Slots \cup {"", "all"} /\ secondary' \in Slots \cup {""}
  BY <1>2, SlotTypes DEF SlotOr
<1>5. LocalTypes'
  BY <1>1, <1>4 DEF Inv, Types, LocalTypes
<1>6. Steady
  BY <1>1, <1>3, <1>5, TypesKept DEF Steady, Inv, Types, PageTypes, phoneVars
<1>7. QED
  BY <1>1, <1>6, SteadyProceeds

\* cancelSnapshotIfNeeded().
LEMMA CancelSnapshotKeeps == ASSUME Inv, CancelSnapshot PROVE Inv'
<1>1. todo # <<>> /\ Head(todo).op = "snapshot" /\ Proceed /\ Quietly /\ (Answered \/ Fails) /\ unplugs' = unplugs
  BY AtHand DEF CancelSnapshot, Quietly
<1>2. CountTypes'
  BY <1>1, AnswerCounts DEF Inv
<1>3. QED
  BY <1>1, <1>2, QuietIsSteady, SteadyProceeds

\* The built-in list of images.
LEMMA ListPlain ==
    ASSUME Inv
    PROVE  ListTasks \in Seq(Tasks) /\ Plain(ListTasks) /\ \A i \in 1..Len(ListTasks) : ListTasks[i].op # "resize"
<1> DEFINE F == FlashTasks
           S == <<Do("super")>>
           D == Demand(OsImages)
           O == IF secondary = "" THEN <<>> ELSE OtherImages
           Fine(q) == q \in Seq(Tasks) /\ Plain(q) /\ \A i \in 1..Len(q) : q[i].op # "resize"
<1>1. \A t \in F : t \in Tasks /\ t.op \notin Placed /\ t.op # "resize"
  BY DEF Tasks, FlashTasks, Placed
<1>2. \A q \in Seq(F) : Fine(q)
  <2>1. SUFFICES ASSUME NEW q \in Seq(F) PROVE Fine(q)
    OBVIOUS
  <2>2. \A i \in 1..Len(q) : q[i] \in F
    OBVIOUS
  <2>3. q \in Seq(Tasks)
    BY <1>1, <2>2
  <2>4. QED
    BY <1>1, <2>2, <2>3 DEF Plain
<1>3. BootImages \in Seq(F)
  BY DEF BootImages, Image, FlashTasks, Images, Names
<1>4. Fine(S)
  <2>1. Do("super") \in Tasks /\ Do("super").op = "super"
    BY SimpleTask DEF SimpleOps
  <2>2. S \in Seq(Tasks) /\ Len(S) = 1 /\ S[1] = Do("super")
    BY <2>1
  <2>3. QED
    BY <2>1, <2>2 DEF Plain, Placed
<1>5. D \in Seq(F)
  <2> DEFINE a == Image("system", "system", FALSE)
             b == Image("vendor", "vendor", TRUE)
             D1(t) == [t EXCEPT !.optional = @ /\ t.name \notin required]
  <2>1. a \in F /\ b \in F
    BY DEF Image, FlashTasks, Images, Names
  <2>2. \A t \in F : D1(t) \in F
    BY DEF FlashTasks
  <2>3. OsImages = <<a, b>>
    BY DEF OsImages
  <2> HIDE DEF a, b, F
  <2>4. OsImages \in Seq(F) /\ DOMAIN OsImages = 1..2 /\ \A i \in 1..2 : OsImages[i] \in F
    BY <2>1, <2>3
  <2>5. D = [i \in 1..2 |-> D1(OsImages[i])]
    BY <2>4 DEF Demand
  <2> HIDE DEF D, D1
  <2>6. D \in [1..2 -> F]
    BY <2>2, <2>4, <2>5
  <2>7. QED
    BY <2>6, SeqDef, Zenon
<1>6. O \in Seq(F)
  <2> DEFINE t == OtherImage("system_other", "system", TRUE)
  <2>1. t \in F
    BY DEF OtherImage, Image, FlashTasks, Images, Names
  <2>2. OtherImages = <<t>>
    BY DEF OtherImages
  <2> HIDE DEF t, F
  <2>3. {<<>>, <<t>>} \subseteq Seq(F)
    BY <2>1, Shorts
  <2>4. QED
    BY <2>2, <2>3
<1>7. \A p, q : Fine(p) /\ Fine(q) => Fine(p \o q)
  <2>1. SUFFICES ASSUME NEW p, NEW q, Fine(p), Fine(q) PROVE Fine(p \o q)
    OBVIOUS
  <2>2. p \o q \in Seq(Tasks) /\ Plain(p \o q)
    BY <2>1, PlainConcat
  <2>3. \A i \in 1..Len(p \o q) : (p \o q)[i].op # "resize"
    <3>1. SUFFICES ASSUME NEW i \in 1..Len(p \o q) PROVE (p \o q)[i].op # "resize"
      OBVIOUS
    <3>2. /\ i <= Len(p) => i \in 1..Len(p) /\ (p \o q)[i] = p[i]
          /\ i > Len(p) => i - Len(p) \in 1..Len(q) /\ (p \o q)[i] = q[i - Len(p)]
      BY <2>1, Parts
    <3>3. i <= Len(p) \/ i > Len(p)
      BY <2>1
    <3>4. QED
      BY <2>1, <3>2, <3>3
  <2>4. QED
    BY <2>2, <2>3
<1>8. ListTasks = ((BootImages \o S) \o D) \o O
  BY DEF ListTasks
<1> HIDE DEF Fine, F, S, D, O
<1>9. Fine(BootImages) /\ Fine(D) /\ Fine(O)
  BY <1>2, <1>3, <1>5, <1>6
<1>10. Fine(BootImages \o S)
  BY <1>4, <1>7, <1>9
<1>11. Fine((BootImages \o S) \o D)
  BY <1>7, <1>9, <1>10
<1>12. Fine(ListTasks)
  BY <1>7, <1>8, <1>9, <1>11
<1>13. QED
  BY <1>12 DEF Fine

\* One plain operation in place of a task.
LEMMA OnePlain ==
    ASSUME NEW op \in SimpleOps, op \notin Placed
    PROVE  /\ <<Do(op)>> \in Seq(Tasks) /\ Plain(<<Do(op)>>)
           /\ \A i \in 1..Len(<<Do(op)>>) : <<Do(op)>>[i].op # "resize"
<1>1. Do(op) \in Tasks /\ Do(op).op = op /\ op # "resize"
  BY SimpleTask DEF SimpleOps
<1>2. Len(<<Do(op)>>) = 1 /\ <<Do(op)>>[1] = Do(op) /\ <<Do(op)>> \in Seq(Tasks)
  BY <1>1
<1>3. QED
  BY <1>1, <1>2 DEF Plain

\* No task in the place of one.
LEMMA NonePlain == <<>> \in Seq(Tasks) /\ Plain(<<>>) /\ \A i \in 1..Len(<<>>) : <<>>[i].op # "resize"
  BY DEF Plain

\* The tasks of a script or of the list take the place of "flashing".
LEMMA CollectTasksKeeps == ASSUME Inv, CollectTasks PROVE Inv'
<1>1. todo # <<>> /\ Head(todo).op = "flashing" /\ Quietly /\ UNCHANGED <<faults, unplugs>>
  BY AtHand DEF CollectTasks, Quietly
<1>2. Steady /\ dynamic' = dynamic
  BY <1>1, QuietCounts, QuietIsSteady
<1> DEFINE m == IF script # <<>> THEN Append(ParseFastbootInfo, Do("resizeAll")) ELSE ListTasks
<1>3. CASE Throw
  BY <1>2, <1>3, SteadyThrows
<1>4. CASE ~Malformed /\ ProceedWith(m)
  <2>1. m \in Seq(Tasks) /\ Plain(m) /\ \A i \in 1..Len(m) : m[i].op # "resize"
    <3>1. CASE script = <<>>
      BY <3>1, ListPlain
    <3>2. CASE script # <<>>
      <4> DEFINE q == ParseFastbootInfo
                 l == <<Do("resizeAll")>>
      <4>1. q \in Seq(ScriptTasks)
        BY ScriptAssumption, ParsedType DEF Inv, Types, PlanTypes
      <4>2. \A i \in 1..Len(q) : q[i].op # "malformed"
        BY <1>4, <4>1 DEF Malformed
      <4>3. q \in Seq(Tasks) /\ Plain(q) /\ \A i \in 1..Len(q) : q[i].op # "resize"
        BY <4>1, <4>2, ScriptPlain
      <4>4. l \in Seq(Tasks) /\ Plain(l) /\ \A i \in 1..Len(l) : l[i].op # "resize"
        BY OnePlain DEF SimpleOps, Placed
      <4>5. m = q \o l
        <5>1. Append(q, Do("resizeAll")) = q \o l
          BY <4>3
        <5>2. QED
          BY <3>2, <5>1
      <4> HIDE DEF q, l, m
      <4>6. m \in Seq(Tasks) /\ Plain(m)
        BY <4>3, <4>4, <4>5, PlainConcat
      <4>7. \A i \in 1..Len(m) : m[i].op # "resize"
        <5>1. SUFFICES ASSUME NEW i \in 1..Len(m) PROVE m[i].op # "resize"
          OBVIOUS
        <5>2. /\ i <= Len(q) => i \in 1..Len(q) /\ m[i] = q[i]
              /\ i > Len(q) => i - Len(q) \in 1..Len(l) /\ m[i] = l[i - Len(q)]
          BY <4>3, <4>4, <4>5, Parts
        <5>3. i <= Len(q) \/ i > Len(q)
          BY <4>3
        <5>4. QED
          BY <4>3, <4>4, <5>2, <5>3
      <4>8. QED
        BY <4>6, <4>7
    <3>3. QED
      BY <3>1, <3>2
  <2> HIDE DEF m
  <2>2. QED
    BY <1>1, <1>2, <1>4, <2>1, SteadyInserts
<1>5. QED
  BY <1>3, <1>4 DEF CollectTasks

\* The user's wish to wipe becomes an erase.
LEMMA WipeKeeps == ASSUME Inv, Wipe PROVE Inv'
<1>1. todo # <<>> /\ Head(todo).op = "wipe" /\ Quietly /\ UNCHANGED <<faults, unplugs>>
  BY AtHand DEF Wipe, Quietly
<1>2. Steady /\ dynamic' = dynamic
  BY <1>1, QuietCounts, QuietIsSteady
<1>3. CASE ProceedWith(<<Do("erase")>>)
  <2> DEFINE m == <<Do("erase")>>
  <2>1. m \in Seq(Tasks) /\ Plain(m) /\ \A i \in 1..Len(m) : m[i].op # "resize"
    BY OnePlain DEF SimpleOps, Placed
  <2>2. ProceedWith(m)
    BY <1>3
  <2> HIDE DEF m
  <2>3. QED
    BY <1>1, <1>2, <2>1, <2>2, SteadyInserts
<1>4. CASE ProceedWith(<<>>)
  BY <1>1, <1>2, <1>4, NonePlain, SteadyInserts
<1>5. QED
  BY <1>3, <1>4 DEF Wipe

\* The same slot again.
LEMMA ActivateAgainKeeps == ASSUME Inv, ActivateAgain PROVE Inv'
<1>1. /\ todo # <<>> /\ Head(todo).op = "activateAgain" /\ Proceed
      /\ UNCHANGED <<planVars, expecting, localVars, linkVars, part, room, unplugs>>
  BY AtHand DEF ActivateAgain
<1>2. UNCHANGED phone \/ \E s \in Slots : phone' = [phone EXCEPT ![dev].active = s]
  BY DEF ActivateAgain, SetActive
<1>3. Mode' = Mode /\ PhoneTypes'
  BY <1>1, <1>2, Told, ModeKept, TypesKept DEF Inv, Mode, linkVars
<1>4. CountTypes'
  <2>1. CASE \E missed \in SUBSET {"slot-count"} : Lookup({"slot-count"}, missed)
    BY <1>1, <2>1, LookupFaults
  <2>2. CASE Answered \/ Fails
    BY <1>1, <2>2, AnswerCounts DEF Inv
  <2>3. QED
    BY <2>1, <2>2 DEF ActivateAgain
<1>5. Steady /\ dynamic' = dynamic
  BY <1>1, <1>3, <1>4, TypesKept DEF Steady, Inv, Types, PageTypes, localVars
<1>6. QED
  BY <1>1, <1>5, SteadyProceeds

\* update() returns.
LEMMA UpdatedKeeps == ASSUME Inv, Updated PROVE Inv'
<1>1. /\ todo # <<>> /\ Head(todo).op = "updated" /\ Proceed /\ expecting' = FALSE
      /\ UNCHANGED <<planVars, localVars, linkVars, phoneVars, faults, unplugs>>
  BY AtHand DEF Updated
<1>2. Steady /\ dynamic' = dynamic
  BY <1>1, TypesKept DEF Steady, Inv, Types, phoneVars, localVars
<1>3. QED
  BY <1>1, <1>2, SteadyProceeds

\* The bootloader is locked again.
LEMMA LockKeeps == ASSUME Inv, Lock PROVE Inv'
<1>1. /\ todo # <<>> /\ Head(todo).op = "lock" /\ (Proceed \/ Throw)
      /\ UNCHANGED <<planVars, expecting, localVars, linkVars, part, room, unplugs>>
  BY AtHand DEF Lock
<1>2. UNCHANGED phone \/ phone' = [phone EXCEPT ![dev].locked = TRUE]
  BY DEF Lock
<1>3. Mode' = Mode /\ PhoneTypes'
  BY <1>1, <1>2, Told, ModeKept, TypesKept DEF Inv, Mode, linkVars
<1>4. CountTypes'
  BY <1>1, AnswerCounts DEF Inv, Lock
<1>5. Steady /\ dynamic' = dynamic
  BY <1>1, <1>3, <1>4, TypesKept DEF Steady, Inv, Types, PageTypes, localVars
<1>6. QED
  BY <1>1, <1>5, SteadyProceeds, SteadyThrows

\* The reboot into the new system ends the installation.
LEMMA RebootKeeps == ASSUME Inv, Reboot PROVE Inv'
<1>1. /\ todo' = <<>> /\ shown' \in {"error", "complete"}
      /\ UNCHANGED <<planVars, expecting, localVars, linkVars, part, room, unplugs>>
  BY DEF Reboot, Throw
<1>2. UNCHANGED phone \/ phone' = [phone EXCEPT ![dev].goto = "android"]
  BY DEF Reboot
<1>3. Mode' = Mode /\ PhoneTypes'
  BY <1>1, <1>2, Told, ModeKept, TypesKept DEF Inv, Mode, linkVars, Modes
<1>4. CountTypes'
  BY <1>1, AnswerCounts DEF Inv, Reboot
<1>5. Steady
  BY <1>1, <1>3, <1>4, TypesKept DEF Steady, Inv, Types, PageTypes
<1>6. QED
  BY <1>1, <1>5, SteadyKeeps, OrderEnds

-----------------------------------------------------------------------------
(* The tasks of a script                                                   *)

\* The slot of a task, and the partitions it stands for.
LEMMA PlaceTypes ==
    ASSUME Inv, NEW name \in Names, NEW slot \in Slots \cup {"", "all"}, NEW missed
    PROVE  ResolvedNames(name, slot, missed) \in Seq(Spots)
<1>1. ASSUME NEW s \in Slots \cup {""} PROVE Resolved(name, s, missed) \in Spots
  <2>1. SlotOr(s, Current(missed)) \in Slots \cup {""}
    BY SlotTypes DEF SlotOr
  <2>2. QED
    BY <2>1 DEF Resolved, Spots
<1>2. CASE slot # "all"
  <2> DEFINE p == Resolved(name, slot, missed)
  <2>1. p \in Spots
    BY <1>1, <1>2
  <2>2. ResolvedNames(name, slot, missed) = <<p>>
    BY <1>2 DEF ResolvedNames
  <2> HIDE DEF p
  <2>3. <<p>> \in Seq(Spots)
    BY <2>1, Shorts
  <2>4. QED
    BY <2>2, <2>3
<1>3. CASE slot = "all"
  <2> DEFINE p == Resolved(name, "a", missed)
             q == Resolved(name, "b", missed)
  <2>1. p \in Spots /\ q \in Spots
    BY <1>1 DEF Slots
  <2>2. ResolvedNames(name, slot, missed) \in {<<<<name, "">>>>, <<>>, <<p, q>>}
    BY <1>3 DEF ResolvedNames
  <2>3. <<name, "">> \in Spots
    BY DEF Spots
  <2> HIDE DEF p, q
  <2>4. <<<<name, "">>>> \in Seq(Spots) /\ <<>> \in Seq(Spots) /\ <<p, q>> \in Seq(Spots)
    BY <2>1, <2>3, Shorts
  <2>5. QED
    BY <2>2, <2>4
<1>4. QED
  BY <1>2, <1>3

\* The commands for the partitions of an image.
LEMMA PartitionTasksPlain ==
    ASSUME NEW task \in FlashTasks, NEW places \in Seq(Spots), NEW m,
           m = [i \in DOMAIN places |-> PartitionTask("partition", task, places[i])]
    PROVE  m \in Seq(Tasks) /\ Plain(m) /\ \A i \in 1..Len(m) : m[i].op # "resize"
<1>1. \A x \in Spots : /\ PartitionTask("partition", task, x) \in Tasks
                       /\ PartitionTask("partition", task, x).op = "partition"
  BY DEF PartitionTask, Tasks, PartitionTasks, FlashTasks
<1>2. PICK n \in Nat : n = Len(places) /\ DOMAIN places = 1..n /\ \A i \in 1..n : places[i] \in Spots
  OBVIOUS
<1>3. m = [i \in 1..n |-> PartitionTask("partition", task, places[i])]
  BY <1>2
<1>4. \A i \in 1..n : m[i] \in Tasks /\ m[i].op = "partition"
  BY <1>1, <1>2, <1>3
<1>5. m \in [1..n -> Tasks]
  BY <1>3, <1>4
<1>6. m \in Seq(Tasks)
  BY <1>5, SeqDef, Zenon
<1>7. Len(m) = n
  BY <1>5
<1>8. QED
  BY <1>4, <1>6, <1>7 DEF Plain, Placed

\* flashImageEntry().
LEMMA FlashImageKeeps == ASSUME Inv, FlashImage PROVE Inv'
<1> DEFINE task == Head(todo)
           slot == SlotOf(task)
           names == {"has-slot", "slot-count", "current-slot", "partition-size"}
<1>1. todo # <<>> /\ task.op = "flash" /\ Quietly /\ unplugs' = unplugs
  BY AtHand DEF FlashImage, Quietly
<1>2. task \in FlashTasks
  BY <1>1, Tails, TaskFields DEF Inv, Order
<1>3. CASE (Proceed \/ Throw) /\ UNCHANGED faults
  <2>1. Steady /\ dynamic' = dynamic
    BY <1>1, <1>3, QuietCounts, QuietIsSteady
  <2>2. QED
    BY <1>1, <1>3, <2>1, SteadyProceeds, SteadyThrows
<1>4. CASE \E missed \in SUBSET names :
             LET places == ResolvedNames(task.name, slot, missed) IN
             /\ Lookup(names, missed)
             /\ \/ Throw
                \/ ProceedWith([i \in DOMAIN places |-> PartitionTask("partition", task, places[i])])
  <2>1. PICK missed \in SUBSET names :
             LET places == ResolvedNames(task.name, slot, missed) IN
             /\ Lookup(names, missed)
             /\ \/ Throw
                \/ ProceedWith([i \in DOMAIN places |-> PartitionTask("partition", task, places[i])])
    BY <1>4
  <2>2. CountTypes'
    <3>1. Cardinality(missed) \in Nat
      BY <2>1, NamesFinite
    <3>2. Lookup(names, missed) /\ missed \in SUBSET names
      BY <2>1
    <3> HIDE DEF names
    <3>3. QED
      BY <1>1, <3>1, <3>2, LookupCounts DEF Inv
  <2>3. Steady /\ dynamic' = dynamic
    BY <1>1, <2>2, QuietIsSteady
  <2>4. CASE Throw
    BY <2>3, <2>4, SteadyThrows
  <2> DEFINE places == ResolvedNames(task.name, slot, missed)
             m == [i \in DOMAIN places |-> PartitionTask("partition", task, places[i])]
  <2>5. CASE ProceedWith(m)
    <3>1. slot \in Slots \cup {"", "all"} /\ task.name \in Names
      BY <1>2, SlotTypes DEF SlotOf, FlashTasks, Inv, Types, LocalTypes
    <3>2. places \in Seq(Spots)
      BY <3>1, PlaceTypes
    <3>3. m \in Seq(Tasks) /\ Plain(m) /\ \A i \in 1..Len(m) : m[i].op # "resize"
      <4> HIDE DEF places, task
      <4>1. QED
        BY <1>2, <3>2, PartitionTasksPlain
    <3> HIDE DEF m
    <3>4. QED
      BY <1>1, <2>3, <2>5, <3>3, SteadyInserts
  <2>6. QED
    BY <2>1, <2>4, <2>5
<1>5. QED
  BY <1>3, <1>4 DEF FlashImage

\* One partition, up to the first command.
LEMMA FlashPartitionKeeps == ASSUME Inv, FlashPartition PROVE Inv'
<1> DEFINE task == Head(todo)
           w == WriteTask(task, task.place)
           z == ResizeTask(task.place, "image")
<1>1. todo # <<>> /\ task.op = "partition" /\ Quietly /\ unplugs' = unplugs
  BY AtHand DEF FlashPartition, Quietly
<1>2. task \in PartitionTasks
  BY <1>1, Tails, TaskFields DEF Inv, Order
<1>3. CountTypes'
  BY <1>1, LookupFaults DEF FlashPartition
<1>4. Steady /\ dynamic' = dynamic
  BY <1>1, <1>3, QuietIsSteady
<1>5. w \in Tasks /\ w.op = "write" /\ z \in Tasks /\ z.op = "resize"
  BY <1>2 DEF WriteTask, PartitionTask, ResizeTask, PartitionTasks, ResizeTasks, Tasks
<1>6. \/ Throw
      \/ ProceedWith(<<w>>)
      \/ ProceedWith(<<z, w>>) /\ InUserspace
  <2>1. IsLogical(task.place) => InUserspace
    BY DEF IsLogical, Exists, InUserspace
  <2>2. QED
    BY <2>1 DEF FlashPartition, SizeThenWrite
<1> HIDE DEF w, z
<1>7. CASE ProceedWith(<<w>>)
  <2> DEFINE m == <<w>>
  <2>1. m \in Seq(Tasks) /\ Len(m) = 1 /\ m[1] = w
    BY <1>5
  <2>2. Plain(m) /\ \A i \in 1..Len(m) : m[i].op # "resize"
    BY <1>5, <2>1 DEF Plain, Placed
  <2>3. ProceedWith(m)
    BY <1>7
  <2> HIDE DEF m
  <2>4. QED
    BY <1>1, <1>4, <2>1, <2>2, <2>3, SteadyInserts
<1>8. CASE ProceedWith(<<z, w>>) /\ InUserspace
  <2> DEFINE m == <<z, w>>
  <2>1. m \in Seq(Tasks) /\ Len(m) = 2 /\ m[1] = z /\ m[2] = w
    BY <1>5
  <2>2. Plain(m) /\ \A i \in 1..Len(m) : m[i].op = "resize" => i = 1
    BY <1>5, <2>1 DEF Plain, Placed
  <2>3. ProceedWith(m)
    BY <1>8
  <2> HIDE DEF m
  <2>4. QED
    BY <1>1, <1>4, <1>8, <2>1, <2>2, <2>3, SteadyInserts
<1>9. QED
  BY <1>4, <1>6, <1>7, <1>8, SteadyThrows

\* A logical partition is given its size.
LEMMA ResizeKeeps == ASSUME Inv, Resize PROVE Inv'
<1> DEFINE task == Head(todo)
<1>1. /\ todo # <<>> /\ task.op = "resize"
      /\ UNCHANGED <<planVars, expecting, required, current, secondary, updatedSuper, linkVars,
                     phone, unplugs>>
      /\ Answered \/ Fails
  BY AtHand DEF Resize
<1>2. task \in ResizeTasks
  BY <1>1, Tails, TaskFields DEF Inv, Order
<1>3. CountTypes'
  BY <1>1, AnswerCounts DEF Inv
<1>4. PhoneTypes' /\ Mode' = Mode /\ expecting' \in BOOLEAN
  BY <1>1, TypesKept DEF Inv, Types, PageTypes, linkVars, Mode
<1>5. CASE Throw /\ UNCHANGED <<part, room, dynamic>>
  <2>1. Steady
    BY <1>1, <1>3, <1>4, <1>5, TypesKept DEF Steady, Inv, localVars
  <2>2. QED
    BY <1>5, <2>1, SteadyThrows
<1>6. CASE /\ Answered /\ Exists(task.place)
           /\ Content(task.place, "none")
           /\ room' = [room EXCEPT ![dev][task.place] = task.size]
           /\ dynamic' = IF task.size = "image" THEN dynamic \cup {task.place} ELSE dynamic
           /\ Proceed
  <2>1. task.place \in Places /\ task.size \in {"none", "image"}
    BY <1>2, <1>6 DEF Exists, ResizeTasks
  <2>2. dynamic' \subseteq Places /\ dynamic \subseteq dynamic'
    BY <1>6, <2>1 DEF Inv, Types, LocalTypes
  <2>3. StoreTypes'
    <3>1. part' = [part EXCEPT ![dev] = [part[dev] EXCEPT ![task.place] = "none"]]
      BY <1>6 DEF Content
    <3>2. room' = [room EXCEPT ![dev] = [room[dev] EXCEPT ![task.place] = task.size]]
      BY <1>6
    <3>3. [part[dev] EXCEPT ![task.place] = "none"] \in [Places -> Images \cup {"old", "none"}]
      BY <2>1 DEF Inv, Types, StoreTypes, LinkTypes
    <3>4. [room[dev] EXCEPT ![task.place] = task.size] \in [Places -> {"old", "none", "image"}]
      BY <2>1 DEF Inv, Types, StoreTypes, LinkTypes
    <3> HIDE DEF task
    <3>5. QED
      BY <3>1, <3>2, <3>3, <3>4 DEF Inv, Types, StoreTypes
  <2>4. LocalTypes'
    BY <1>1, <2>2 DEF Inv, Types, LocalTypes
  <2>5. Steady
    BY <1>1, <1>3, <1>4, <2>3, <2>4 DEF Steady
  <2>6. InUserspace
    BY <1>1 DEF Inv, Order, HeadOk, InUserspace
  <2>7. todo' = <<>> \o Tail(todo) /\ shown' = "progress" /\ Fitting(<<>>)
    BY <1>1, <1>6, NothingFits DEF Proceed, Goes, Inv
  <2>8. dev' = dev /\ open' = open
    BY <1>1 DEF linkVars
  <2>9. Order'
    BY <1>1, <1>4, <2>2, <2>6, <2>7, <2>8, OrderKept DEF Inv
  <2>10. QED
    BY <2>5, <2>7, <2>9, SteadyKeeps
<1>7. QED
  BY <1>5, <1>6 DEF Resize

\* flashBlob().
LEMMA WriteKeeps == ASSUME Inv, Write PROVE Inv'
<1> DEFINE task == Head(todo)
<1>1. /\ todo # <<>> /\ task.op = "write" /\ (Proceed \/ Throw)
      /\ UNCHANGED <<planVars, expecting, localVars, linkVars, phone, room, unplugs>>
      /\ Answered \/ Fails
  BY AtHand DEF Write
<1>2. task \in PartitionTasks
  BY <1>1, Tails, TaskFields DEF Inv, Order
<1>3. CountTypes'
  BY <1>1, AnswerCounts DEF Inv
<1>4. StoreTypes'
  <2>1. UNCHANGED part \/ (task.place \in Places /\ (Content(task.place, task.img) \/ Content(task.place, "none")))
    BY DEF Write, Exists
  <2>2. task.img \in Images
    BY <1>2 DEF PartitionTasks
  <2> HIDE DEF task
  <2>3. QED
    BY <1>1, <2>1, <2>2, ContentTypes, TypesKept DEF Inv
<1>5. Steady /\ dynamic' = dynamic
  BY <1>1, <1>3, <1>4, TypesKept DEF Steady, Inv, Types, PageTypes, localVars, linkVars, Mode
<1>6. QED
  BY <1>1, <1>5, SteadyProceeds, SteadyThrows

\* updateSuper(): fastbootd first.
LEMMA UpdateSuperKeeps == ASSUME Inv, UpdateSuper PROVE Inv'
<1>1. todo # <<>> /\ Head(todo).op = "super" /\ Quietly /\ UNCHANGED <<faults, unplugs>>
  BY AtHand DEF UpdateSuper, Quietly
<1>2. Steady /\ dynamic' = dynamic
  BY <1>1, QuietCounts, QuietIsSteady
<1>3. CASE ProceedWith(<<>>)
  BY <1>1, <1>2, <1>3, NonePlain, SteadyInserts
<1>4. CASE ProceedWith(<<Do("fastbootd"), Do("merge")>>)
  <2> DEFINE a == Do("fastbootd")
             b == Do("merge")
             m == <<a, b>>
  <2>1. a \in Tasks /\ a.op = "fastbootd" /\ b \in Tasks /\ b.op = "merge"
    BY SimpleTask DEF SimpleOps
  <2>2. ProceedWith(m)
    BY <1>4
  <2> HIDE DEF a, b
  <2>3. m \in Seq(Tasks) /\ Len(m) = 2 /\ m[1] = a /\ m[2] = b
    BY <2>1
  <2> HIDE DEF m
  <2>4. \A i \in 1..Len(m) : i = 1 \/ i = 2
    BY <2>3
  <2>5. Chain(m)
    BY <2>1, <2>3, <2>4 DEF Chain
  <2>6. Fitting(m)
    BY <1>1, <2>1, <2>3, <2>4, <2>5 DEF Fitting
  <2>7. todo' = m \o Tail(todo) /\ shown' = "progress" /\ dev' = dev /\ open' = open /\ Mode' = Mode
    BY <1>2, <2>2 DEF ProceedWith, Goes, Steady, linkVars
  <2>8. \A i \in 1..Len(m) : m[i].op # "resize"
    BY <2>1, <2>3, <2>4
  <2>9. Order'
    BY <1>1, <1>2, <2>6, <2>7, <2>8, OrderKept DEF Inv
  <2>10. QED
    BY <1>2, <2>7, <2>9, SteadyKeeps
<1>5. QED
  BY <1>3, <1>4 DEF UpdateSuper

\* The layout of super is written.
LEMMA MergeKeeps == ASSUME Inv, Merge PROVE Inv'
<1>1. /\ todo # <<>> /\ Head(todo).op = "merge" /\ (Proceed \/ Throw)
      /\ UNCHANGED <<planVars, expecting, required, current, secondary, dynamic, linkVars, phone, unplugs>>
      /\ Answered \/ Fails
  BY AtHand DEF Merge
<1>2. CountTypes'
  BY <1>1, AnswerCounts DEF Inv
<1>3. StoreTypes'
  <2> DEFINE cleared(q) == [x \in Places |-> IF opts.wipe /\ x \in LogicalPlaces THEN "none" ELSE q[x]]
  <2>1. CASE UNCHANGED <<part, room>>
    BY <2>1, TypesKept DEF Inv
  <2>2. CASE part' = [part EXCEPT ![dev] = cleared(part[dev])] /\ room' = [room EXCEPT ![dev] = cleared(room[dev])]
    <3>1. part[dev] \in [Places -> Images \cup {"old", "none"}] /\ room[dev] \in [Places -> {"old", "none", "image"}]
      BY DEF Inv, Types, StoreTypes, LinkTypes
    <3>2. cleared(part[dev]) \in [Places -> Images \cup {"old", "none"}]
      BY <3>1
    <3>3. cleared(room[dev]) \in [Places -> {"old", "none", "image"}]
      BY <3>1
    <3> HIDE DEF cleared
    <3>4. QED
      BY <2>2, <3>2, <3>3 DEF Inv, Types, StoreTypes
  <2>3. QED
    <3>1. \/ UNCHANGED <<part, room>>
          \/ part' = [part EXCEPT ![dev] = cleared(part[dev])] /\ room' = [room EXCEPT ![dev] = cleared(room[dev])]
      BY DEF Merge
    <3>2. QED
      BY <2>1, <2>2, <3>1
<1>4. LocalTypes'
  <2>1. updatedSuper' \in BOOLEAN
    BY DEF Merge, Inv, Types, LocalTypes
  <2>2. QED
    BY <1>1, <2>1 DEF Inv, Types, LocalTypes
<1>5. Steady
  BY <1>1, <1>2, <1>3, <1>4, TypesKept DEF Steady, Inv, Types, PageTypes, linkVars, Mode
<1>6. QED
  BY <1>1, <1>5, SteadyProceeds, SteadyThrows

\* A list of some partitions as resizes.
LEMMA ResizesPlain ==
    ASSUME NEW places \in Seq(Places), NEW m, m = [i \in DOMAIN places |-> ResizeTask(places[i], "none")]
    PROVE  m \in Seq(Tasks) /\ Plain(m) /\ Len(m) = Len(places)
<1>1. \A x \in Places : /\ ResizeTask(x, "none") \in Tasks
                        /\ ResizeTask(x, "none").op = "resize"
  <2>1. Places \subseteq Spots
    <3>1. {"boot", "system", "vendor"} \subseteq Names /\ "userdata" \in Names
      BY DEF Names
    <3>2. {"boot", "system", "vendor"} \X Slots \subseteq Spots
      BY <3>1 DEF Spots
    <3>3. <<"userdata", "">> \in Spots
      BY <3>1 DEF Spots
    <3>4. QED
      BY <3>2, <3>3 DEF Places
  <2>2. \A x \in Spots : ResizeTask(x, "none") \in ResizeTasks /\ ResizeTask(x, "none").op = "resize"
    BY DEF ResizeTask, ResizeTasks
  <2>3. QED
    BY <2>1, <2>2 DEF Tasks
<1>2. PICK n \in Nat : n = Len(places) /\ DOMAIN places = 1..n /\ \A i \in 1..n : places[i] \in Places
  OBVIOUS
<1>3. m = [i \in 1..n |-> ResizeTask(places[i], "none")]
  BY <1>2
<1>4. \A i \in 1..n : m[i] \in Tasks /\ m[i].op = "resize"
  BY <1>1, <1>2, <1>3
<1>5. m \in [1..n -> Tasks]
  BY <1>3, <1>4
<1>6. m \in Seq(Tasks)
  BY <1>5, SeqDef, Zenon
<1>7. Len(m) = n
  BY <1>5
<1>8. QED
  BY <1>2, <1>4, <1>6, <1>7 DEF Plain, Placed

\* The places of a phone are few, and those that were resized make a list.
LEMMA DynamicList ==
    ASSUME Inv
    PROVE  SetToSeq(dynamic) \in Seq(Places) /\ (Len(SetToSeq(dynamic)) # 0 => dynamic # {})
<1>1. IsFiniteSet(dynamic)
  <2>2. IsFiniteSet(Slots)
    <3>1. IsFiniteSet({"a"}) /\ Slots = {"a"} \cup {"b"}
      BY FS_Singleton DEF Slots
    <3>2. QED
      BY <3>1, FS_AddElement
  <2>3. IsFiniteSet({"boot", "system", "vendor"})
    <3>1. IsFiniteSet({"boot"}) /\ {"boot", "system", "vendor"} = ({"boot"} \cup {"system"}) \cup {"vendor"}
      BY FS_Singleton
    <3>2. IsFiniteSet({"boot"} \cup {"system"})
      BY <3>1, FS_AddElement
    <3>3. QED
      BY <3>1, <3>2, FS_AddElement
  <2>4. IsFiniteSet({"boot", "system", "vendor"} \X Slots)
    BY <2>2, <2>3, FS_Product
  <2>5. IsFiniteSet(Places)
    BY <2>4, FS_AddElement DEF Places
  <2>6. QED
    BY <2>5, FS_Subset DEF Inv, Types, LocalTypes
<1>2. Cardinality(dynamic) \in Nat /\ ExistsBijection(1..Cardinality(dynamic), dynamic)
  BY <1>1, FS_CardinalityType
<1>3. PICK n \in Nat : n = Cardinality(dynamic)
  BY <1>2
<1>4. PICK g : g \in Bijection(1..n, dynamic)
  BY <1>2, <1>3 DEF ExistsBijection
<1>5. g \in [1..n -> dynamic] /\ IsInjective(g)
  <2>1. g \in Injection(1..n, dynamic)
    BY <1>4 DEF Bijection
  <2>2. QED
    BY <2>1 DEF Injection
<1>6. SetToSeq(dynamic) \in [1..n -> dynamic]
  <2>1. SetToSeq(dynamic) = CHOOSE f \in [1..n -> dynamic] : IsInjective(f)
    BY <1>3 DEF SetToSeq
  <2>2. \E f \in [1..n -> dynamic] : IsInjective(f)
    BY <1>5, Zenon
  <2>3. QED
    BY <2>1, <2>2, Zenon
<1>7. PICK q : q = SetToSeq(dynamic)
  OBVIOUS
<1>8. q \in [1..n -> dynamic]
  BY <1>6, <1>7
<1>9. q \in [1..n -> Places]
  BY <1>8 DEF Inv, Types, LocalTypes
<1>10. q \in Seq(Places)
  BY <1>9, SeqDef, Zenon
<1>11. Len(q) = n
  BY <1>8
<1>12. n # 0 => dynamic # {}
  <2>1. n # 0 => 1 \in 1..n
    OBVIOUS
  <2>2. n # 0 => q[1] \in dynamic
    BY <1>8, <2>1
  <2>3. QED
    BY <2>2
<1>13. QED
  BY <1>7, <1>10, <1>11, <1>12

\* resizeDynamicPartitionsToZero().
LEMMA ResizeAllKeeps == ASSUME Inv, ResizeAll PROVE Inv'
<1> DEFINE zero == IF updatedSuper THEN SetToSeq(dynamic) ELSE <<>>
           m == [i \in DOMAIN zero |-> ResizeTask(zero[i], "none")]
<1>1. /\ todo # <<>> /\ Head(todo).op = "resizeAll" /\ Quietly /\ UNCHANGED <<faults, unplugs>>
      /\ ProceedWith(m)
  BY AtHand DEF ResizeAll, Quietly
<1>2. Steady /\ dynamic' = dynamic
  BY <1>1, QuietCounts, QuietIsSteady
<1>3. zero \in Seq(Places) /\ (Len(zero) # 0 => dynamic # {})
  <2>1. <<>> \in Seq(Places) /\ Len(<<>>) = 0
    OBVIOUS
  <2>2. QED
    BY <2>1, DynamicList
<1> HIDE DEF zero
<1>4. m \in Seq(Tasks) /\ Plain(m) /\ Len(m) = Len(zero)
  BY <1>3, ResizesPlain
<1> HIDE DEF m
<1>5. ASSUME NEW i \in 1..Len(m) PROVE dynamic # {}
  <2>1. Len(zero) # 0
    BY <1>3, <1>4, <1>5
  <2>2. QED
    BY <1>3, <2>1
<1>6. QED
  BY <1>1, <1>2, <1>4, <1>5, SteadyInserts

\* erasePartitionIfExists().
LEMMA EraseKeeps == ASSUME Inv, Erase PROVE Inv'
<1>1. /\ todo # <<>> /\ Head(todo).op = "erase" /\ Proceed
      /\ UNCHANGED <<planVars, expecting, localVars, linkVars, phone, room, unplugs>>
      /\ Answered \/ Fails
      /\ UNCHANGED part \/ Content(<<"userdata", "">>, "none")
  BY AtHand DEF Erase
<1>2. CountTypes'
  BY <1>1, AnswerCounts DEF Inv
<1>3. StoreTypes'
  <2>1. <<"userdata", "">> \in Places
    BY DEF Places
  <2>2. QED
    BY <1>1, <2>1, ContentTypes, TypesKept DEF Inv
<1>4. Steady /\ dynamic' = dynamic
  BY <1>1, <1>2, <1>3, TypesKept DEF Steady, Inv, Types, PageTypes, localVars, linkVars, Mode
<1>5. QED
  BY <1>1, <1>4, SteadyProceeds

\* A reboot of a script leaves the chain without a phone.
LEMMA RebootAwayKeeps == ASSUME Inv, RebootAway PROVE Inv'
<1> DEFINE target == Head(todo).target
<1>1. todo # <<>> /\ Head(todo).op = "rebootLine" /\ Quietly /\ UNCHANGED <<faults, unplugs>>
  BY AtHand DEF RebootAway, Quietly
<1>2. Steady /\ dynamic' = dynamic
  BY <1>1, QuietCounts, QuietIsSteady
<1>3. CASE Throw
  BY <1>2, <1>3, SteadyThrows
<1>4. CASE target \in Targets /\ ProceedWith(<<RebootTask(target), Do("waitForDisconnect")>>)
  <2> DEFINE a == RebootTask(target)
             b == Do("waitForDisconnect")
             m == <<a, b>>
  <2>1. a \in Tasks /\ a.op = "rebootTo"
    BY <1>4 DEF RebootTask, Tasks, RebootTasks, Targets, Modes
  <2>2. b \in Tasks /\ b.op = "waitForDisconnect"
    BY SimpleTask DEF SimpleOps
  <2>3. ProceedWith(m)
    BY <1>4
  <2> HIDE DEF a, b
  <2>4. m \in Seq(Tasks) /\ Len(m) = 2 /\ m[1] = a /\ m[2] = b
    BY <2>1, <2>2
  <2> HIDE DEF m
  <2>5. Plain(m) /\ \A i \in 1..Len(m) : m[i].op # "resize"
    BY <2>1, <2>2, <2>4 DEF Plain, Placed
  <2>6. QED
    BY <1>1, <1>2, <2>3, <2>4, <2>5, SteadyInserts
<1>5. QED
  BY <1>3, <1>4 DEF RebootAway

-----------------------------------------------------------------------------
(* rebootToUserspaceFastboot()                                             *)

\* A list of four in two parts.
LEMMA FourTasks == ASSUME NEW a, NEW b, NEW c, NEW d PROVE <<a, b, c>> \o <<d>> = <<a, b, c, d>>
<1> DEFINE p == <<a, b, c>>
           q == <<d>>
           S == {a, b, c, d}
<1>1. p \in Seq(S) /\ Len(p) = 3 /\ p[1] = a /\ p[2] = b /\ p[3] = c
  OBVIOUS
<1>2. q \in Seq(S) /\ Len(q) = 1 /\ q[1] = d
  OBVIOUS
<1> DEFINE r == <<a, b, c, d>>
<1>3. r \in Seq(S) /\ Len(r) = 4 /\ r[1] = a /\ r[2] = b /\ r[3] = c /\ r[4] = d
  OBVIOUS
<1> HIDE DEF p, q, r, S
<1>4. /\ p \o q \in Seq(S) /\ Len(p \o q) = 4
      /\ \A i \in 1..4 : (p \o q)[i] = IF i <= 3 THEN p[i] ELSE q[i - 3]
  <2>1. /\ p \o q \in Seq(S) /\ Len(p \o q) = Len(p) + Len(q)
        /\ \A i \in 1..Len(p) + Len(q) : (p \o q)[i] = IF i <= Len(p) THEN p[i] ELSE q[i - Len(p)]
    BY <1>1, <1>2, ConcatProperties, Zenon
  <2>2. Len(p) = 3 /\ Len(q) = 1 /\ 3 + 1 = 4
    BY <1>1, <1>2
  <2>3. QED
    BY <2>1, <2>2
<1>5. \A i \in 1..4 : i = 1 \/ i = 2 \/ i = 3 \/ i = 4
  OBVIOUS
<1>6. \A i \in 1..4 : (p \o q)[i] = r[i]
  BY <1>1, <1>2, <1>3, <1>4, <1>5
<1>7. p \o q = r
  BY <1>3, <1>4, <1>6, SeqEqual
<1>8. QED
  BY <1>7 DEF p, q, r

\* The phone is in fastbootd, or is sent there and looked at again.
LEMMA RebootToUserspaceKeeps == ASSUME Inv, RebootToUserspace PROVE Inv'
<1>1. /\ todo # <<>> /\ Head(todo).op = "fastbootd" /\ expecting' \in BOOLEAN
      /\ UNCHANGED <<planVars, localVars, linkVars, phoneVars, unplugs>>
  BY AtHand DEF RebootToUserspace, Inv, Types, PageTypes
<1>2. CountTypes'
  BY <1>1, LookupFaults DEF RebootToUserspace
<1>3. Steady /\ dynamic' = dynamic
  BY <1>1, <1>2, TypesKept DEF Steady, Inv, Types, phoneVars, localVars
<1>4. CASE Mode = "fastbootd" /\ Proceed
  BY <1>1, <1>3, <1>4, SteadyProceeds DEF InUserspace
<1>5. CASE ProceedWith(<<RebootTask("fastbootd"), Do("waitForDisconnect"), Do("waitForReconnect")>> \o AfterReconnect)
  <2> DEFINE a == RebootTask("fastbootd")
             b == Do("waitForDisconnect")
             c == Do("waitForReconnect")
             d == Do("checkUserspace")
             m == <<a, b, c, d>>
  <2>1. /\ a \in Tasks /\ a.op = "rebootTo" /\ b \in Tasks /\ b.op = "waitForDisconnect"
        /\ c \in Tasks /\ c.op = "waitForReconnect" /\ d \in Tasks /\ d.op = "checkUserspace"
    <3>1. a \in Tasks /\ a.op = "rebootTo"
      BY DEF RebootTask, Tasks, RebootTasks, Modes
    <3>2. QED
      BY <3>1, SimpleTask DEF SimpleOps
  <2>2. ProceedWith(m)
    <3>1. ProceedWith(<<a, b, c>> \o <<d>>)
      BY <1>5 DEF AfterReconnect
    <3> HIDE DEF a, b, c, d
    <3>2. <<a, b, c>> \o <<d>> = m
      BY FourTasks
    <3> HIDE DEF m
    <3>3. QED
      BY <3>1, <3>2
  <2> HIDE DEF a, b, c, d
  <2>3. m \in Seq(Tasks) /\ Len(m) = 4 /\ m[1] = a /\ m[2] = b /\ m[3] = c /\ m[4] = d
    BY <2>1
  <2> HIDE DEF m
  <2>4. \A i \in 1..Len(m) : i = 1 \/ i = 2 \/ i = 3 \/ i = 4
    BY <2>3
  <2>5. Chain(m)
    BY <2>1, <2>3, <2>4 DEF Chain
  <2>6. Fitting(m) /\ m # <<>>
    <3>1. m[Len(m)].op = "checkUserspace" /\ m # <<>>
      <4>1. PICK n \in Nat : n = Len(m) /\ n = 4
        BY <2>3
      <4>2. m[n] = d
        BY <2>3, <4>1
      <4>3. m # <<>>
        BY <2>3
      <4>4. QED
        BY <2>1, <4>1, <4>2, <4>3
    <3>2. \A i \in 1..Len(m) : m[i].op \notin {"adbReboot", "choose"}
      BY <2>1, <2>3, <2>4
    <3>3. m[1].op # "merge"
      BY <2>1, <2>3
    <3>4. QED
      BY <1>1, <2>3, <2>5, <3>1, <3>2, <3>3 DEF Fitting
  <2>7. todo' = m \o Tail(todo) /\ shown' = "progress" /\ dev' = dev /\ open' = open /\ Mode' = Mode
    BY <1>3, <2>2 DEF ProceedWith, Goes, Steady, linkVars
  <2>8. \A i \in 1..Len(m) : m[i].op # "resize"
    BY <2>1, <2>3, <2>4
  <2>9. Order'
    BY <1>1, <1>3, <2>6, <2>7, <2>8, OrderKept DEF Inv
  <2>10. QED
    BY <1>3, <2>7, <2>9, SteadyKeeps
<1>6. QED
  BY <1>4, <1>5 DEF RebootToUserspace

\* The reboot is asked for.
LEMMA RebootToKeeps == ASSUME Inv, RebootTo PROVE Inv'
<1> DEFINE task == Head(todo)
<1>1. /\ todo # <<>> /\ task.op = "rebootTo" /\ (Proceed \/ Throw)
      /\ UNCHANGED <<planVars, expecting, localVars, linkVars, part, room, unplugs>>
      /\ Answered \/ Fails
  BY AtHand DEF RebootTo
<1>2. task.mode \in Modes \ {"away"}
  BY <1>1, Tails, TaskFields DEF Inv, Order, RebootTasks
<1>3. UNCHANGED phone \/ phone' = [phone EXCEPT ![dev].goto = task.mode]
  BY DEF RebootTo
<1> HIDE DEF task
<1>4. Mode' = Mode /\ PhoneTypes'
  BY <1>1, <1>2, <1>3, Told, ModeKept, TypesKept DEF Inv, Mode, linkVars
<1>5. CountTypes'
  BY <1>1, AnswerCounts DEF Inv
<1>6. Steady /\ dynamic' = dynamic
  BY <1>1, <1>4, <1>5, TypesKept DEF Steady, Inv, Types, PageTypes, localVars
<1>7. QED
  BY <1>1, <1>6, SteadyProceeds, SteadyThrows DEF task

\* The phone has left.
LEMMA WaitForDisconnectKeeps == ASSUME Inv, WaitForDisconnect PROVE Inv'
<1>1. todo # <<>> /\ Head(todo).op = "waitForDisconnect" /\ Proceed /\ Quietly /\ UNCHANGED <<faults, unplugs>>
  BY AtHand DEF WaitForDisconnect, Quietly
<1>2. QED
  BY <1>1, QuietCounts, QuietIsSteady, SteadyProceeds

\* It is looked at.
LEMMA CheckUserspaceKeeps == ASSUME Inv, CheckUserspace PROVE Inv'
<1>1. /\ todo # <<>> /\ Head(todo).op = "checkUserspace" /\ Quietly /\ unplugs' = unplugs
      /\ Throw \/ (Proceed /\ Mode = "fastbootd")
  BY AtHand DEF CheckUserspace, Quietly
<1>2. CountTypes'
  BY <1>1, LookupFaults DEF CheckUserspace
<1>3. Steady /\ dynamic' = dynamic
  BY <1>1, <1>2, QuietIsSteady
<1>4. QED
  BY <1>1, <1>3, SteadyProceeds, SteadyThrows DEF InUserspace

\* A phone is opened again: whichever it is, it is looked at next.
LEMMA WaitForReconnectKeeps == ASSUME Inv, WaitForReconnect PROVE Inv'
<1>1. /\ todo # <<>> /\ Head(todo).op = "waitForReconnect"
      /\ UNCHANGED <<planVars, expecting, localVars, phoneVars, faults, unplugs>>
  BY AtHand DEF WaitForReconnect
<1>2. CASE Throw /\ UNCHANGED linkVars
  <2>1. Steady
    BY <1>1, <1>2, TypesKept DEF Steady, Inv, Types, PageTypes, phoneVars, linkVars, Mode
  <2>2. QED
    BY <1>2, <2>1, SteadyThrows
<1>3. CASE /\ Proceed /\ open' = TRUE
           /\ \E p \in FindMatchingDevice(Enumerated) :
                 phone[p].mode \in {"bootloader", "fastbootd"} /\ dev' = p
  <2>1. dev' \in Phones /\ phone[dev'].mode # "away"
    BY <1>3 DEF FindMatchingDevice, Enumerated
  <2>2. LinkTypes'
    BY <1>1, <1>3, <2>1 DEF LinkTypes, Mode, phoneVars
  <2>3. Types'
    BY <1>1, <1>3, <2>2, Going, TypesKept DEF Inv, Types, PageTypes, Proceed, phoneVars
  <2>4. /\ todo \in Seq(Tasks) /\ Chain(todo) /\ dynamic' = dynamic /\ todo' = Tail(todo)
        /\ shown' # "idle"
    BY <1>1, <1>3 DEF Inv, Order, Proceed, Goes, localVars
  <2>5. /\ Len(todo') = Len(todo) - 1 /\ Len(todo) \in Nat \ {0} /\ Head(todo) = todo[1]
        /\ \A i \in 1..Len(todo') : i + 1 \in 1..Len(todo) /\ todo'[i] = todo[i + 1]
    BY <1>1, <2>4, Tails
  <2>6. todo' \in Seq(Tasks) /\ Chain(todo')
    <3>1. Fitting(<<>>) /\ <<>> \o Tail(todo) = Tail(todo)
      BY <1>1, NothingFits DEF Inv
    <3>2. QED
      BY <1>1, <2>4, <3>1, Spliced DEF Fitting
  <2>7. ResizeLater'
    <3>1. \A i \in 2..Len(todo') : i \in 1..Len(todo') /\ i + 1 \in 2..Len(todo)
      BY <2>5
    <3>2. QED
      BY <2>4, <2>5, <3>1 DEF ResizeLater, Inv, Order
  <2>8. HeadOk'
    <3>1. 1 \in 1..Len(todo)
      BY <2>5
    <3>2. 1 < Len(todo) /\ todo[1 + 1].op = "checkUserspace"
      BY <1>1, <2>4, <2>5, <3>1 DEF Chain
    <3>3. 1 \in 1..Len(todo') /\ todo'[1] = todo[1 + 1]
      BY <2>5, <3>2
    <3>4. Head(todo') = todo'[1]
      BY <2>6, <3>3
    <3>5. QED
      BY <3>2, <3>3, <3>4 DEF HeadOk
  <2>9. Early'
    BY <2>4, <2>5 DEF Early, Inv, Order
  <2>10. Untouched'
    BY <2>4 DEF Untouched
  <2>11. QED
    BY <2>3, <2>6, <2>7, <2>8, <2>9, <2>10 DEF Inv, Order
<1>4. QED
  BY <1>2, <1>3 DEF WaitForReconnect

-----------------------------------------------------------------------------
(* The phones                                                              *)

\* The disconnect listener: the link of a phone that has gone is closed.
LEMMA DisconnectKeeps ==
    ASSUME Inv, NEW p \in Phones, Disconnected(p), PhoneTypes', CountTypes',
           \A q \in Phones \ {p} : phone'[q] = phone[q]
    PROVE  Inv'
<1>1. /\ open' = (open /\ p # dev) /\ shown' \in {"error", shown}
      /\ UNCHANGED <<planVars, todo, expecting, localVars, dev, part, room>>
  BY DEF Disconnected
<1>2. open' => open /\ Mode' = Mode
  BY <1>1 DEF Mode, Inv, Types, LinkTypes
<1>3. LinkTypes'
  <2>1. open' \in BOOLEAN
    BY <1>1
  <2>2. QED
    BY <1>1, <1>2, <2>1 DEF Inv, Types, LinkTypes
<1>4. PageTypes'
  BY <1>1 DEF Inv, Types, PageTypes
<1>5. Types'
  BY <1>1, <1>3, <1>4, TypesKept DEF Inv, Types
<1>6. Order'
  BY <1>1, <1>2, OrderStays DEF Inv, localVars
<1>7. QED
  BY <1>5, <1>6 DEF Inv

\* A change of a phone that keeps the link and its mode.
LEMMA ChangeKeeps ==
    ASSUME Inv, PhoneTypes', CountTypes', open => Mode' = Mode,
           UNCHANGED <<planVars, todo, shown, expecting, localVars, linkVars, part, room>>
    PROVE  Inv'
<1>1. LinkTypes'
  BY DEF Inv, Types, LinkTypes, linkVars
<1>2. Types'
  BY <1>1, TypesKept DEF Inv, Types
<1>3. Order'
  BY OrderStays DEF Inv, localVars, linkVars
<1>4. QED
  BY <1>2, <1>3 DEF Inv

\* A phone leaves the bus.
LEMMA LeaveKeeps == ASSUME Inv, NEW p \in Phones, Leave(p) PROVE Inv'
<1>1. /\ phone[p].goto # "" /\ phone' = [phone EXCEPT ![p] = [phone[p] EXCEPT !.mode = "away"]]
      /\ Disconnected(p) /\ UNCHANGED <<faults, unplugs>>
  BY DEF Leave
<1>2. PICK r \in PhoneRecord : r = phone[p]
  BY DEF Inv, Types, PhoneTypes
<1>3. [r EXCEPT !.mode = "away"] \in PhoneRecord
  BY <1>1, <1>2 DEF PhoneRecord, Modes
<1>4. PhoneTypes' /\ \A q \in Phones \ {p} : phone'[q] = phone[q]
  <2>1. PhoneTypes'
    BY <1>1, <1>2, <1>3, PhoneKept DEF Inv
  <2>2. QED
    BY <1>1, <2>1 DEF Inv, Types, PhoneTypes
<1>5. QED
  BY <1>1, <1>4, QuietCounts, DisconnectKeeps

\* It comes back, in the mode it was told or in its bootloader.
LEMMA ArriveKeeps == ASSUME Inv, NEW p \in Phones, Arrive(p) PROVE Inv'
<1>1. PICK r \in PhoneRecord : r = phone[p]
  BY DEF Inv, Types, PhoneTypes
<1> DEFINE a == [r EXCEPT !.mode = r.goto, !.goto = "", !.booted = r.active]
           b == [r EXCEPT !.mode = "bootloader", !.goto = ""]
<1>2. /\ r.mode = "away" /\ (phone' = [phone EXCEPT ![p] = a] \/ phone' = [phone EXCEPT ![p] = b])
      /\ UNCHANGED <<planVars, todo, shown, expecting, localVars, linkVars, part, room, unplugs>>
  BY <1>1 DEF Arrive, Inv, Types, PhoneTypes
<1>3. a \in PhoneRecord /\ b \in PhoneRecord
  BY <1>2 DEF PhoneRecord, Modes
<1> HIDE DEF a, b
<1>4. PhoneTypes'
  BY <1>2, <1>3, PhoneKept DEF Inv
<1>5. CountTypes'
  <2>1. unplugs' = unplugs /\ (faults' = faults \/ (faults < MaxFaults /\ faults' = faults + 1))
    BY DEF Arrive
  <2>2. QED
    BY <2>1, Bounds DEF Inv, Types, CountTypes
<1>6. open => Mode' = Mode
  <2>1. open => p # dev
    BY <1>1, <1>2 DEF Inv, Types, LinkTypes, Mode
  <2>2. QED
    BY <1>2, <2>1 DEF Mode, linkVars, Inv, Types, PhoneTypes, LinkTypes
<1>7. QED
  BY <1>2, <1>4, <1>5, <1>6, ChangeKeeps

\* The cable is pulled.
LEMMA UnplugKeeps == ASSUME Inv, NEW p \in Phones, Unplug(p) PROVE Inv'
<1>1. PICK r \in PhoneRecord : r = phone[p]
  BY DEF Inv, Types, PhoneTypes
<1>2. phone' = [phone EXCEPT ![p] = [r EXCEPT !.plugged = FALSE]] /\ Disconnected(p)
  BY <1>1 DEF Unplug
<1>3. [r EXCEPT !.plugged = FALSE] \in PhoneRecord
  BY DEF PhoneRecord
<1>4. PhoneTypes'
  BY <1>2, <1>3, PhoneKept DEF Inv
<1>5. \A q \in Phones \ {p} : phone'[q] = phone[q]
  BY <1>2 DEF Inv, Types, PhoneTypes
<1>6. CountTypes'
  BY Bounds DEF Unplug, Inv, Types, CountTypes
<1>7. QED
  BY <1>2, <1>4, <1>5, <1>6, DisconnectKeeps

\* It is put back.
LEMMA ReplugKeeps == ASSUME Inv, NEW p \in Phones, Replug(p) PROVE Inv'
<1>1. PICK r \in PhoneRecord : r = phone[p]
  BY DEF Inv, Types, PhoneTypes
<1>2. /\ phone' = [phone EXCEPT ![p] = [r EXCEPT !.plugged = TRUE]]
      /\ UNCHANGED <<planVars, todo, shown, expecting, localVars, linkVars, part, room, faults, unplugs>>
  BY <1>1 DEF Replug
<1>3. [r EXCEPT !.plugged = TRUE] \in PhoneRecord /\ [r EXCEPT !.plugged = TRUE].mode = r.mode
  BY DEF PhoneRecord
<1>4. PhoneTypes'
  BY <1>2, <1>3, PhoneKept DEF Inv
<1>5. Mode' = Mode
  BY <1>1, <1>2, <1>3 DEF Mode, linkVars, Inv, Types, PhoneTypes, LinkTypes
<1>6. QED
  BY <1>2, <1>4, <1>5, QuietCounts, ChangeKeeps

-----------------------------------------------------------------------------
(* The theorems                                                            *)

\* Every step of the page keeps the invariant.
LEMMA HostStepKeeps == ASSUME Inv, HostStep PROVE Inv'
  BY AdbRebootKeeps, ChooseKeeps, IdentifyKeeps, UnlockKeeps, RequireKeeps, ActivateKeeps,
     DetermineSlotsKeeps, CancelSnapshotKeeps, CollectTasksKeeps, WipeKeeps, ActivateAgainKeeps,
     UpdatedKeeps, LockKeeps, RebootKeeps, FlashImageKeeps, FlashPartitionKeeps, ResizeKeeps,
     WriteKeeps, UpdateSuperKeeps, MergeKeeps, ResizeAllKeeps, EraseKeeps, RebootAwayKeeps,
     RebootToUserspaceKeeps, RebootToKeeps, WaitForDisconnectKeeps, WaitForReconnectKeeps,
     CheckUserspaceKeeps
  DEF HostStep

\* Nothing changes.
LEMMA StutterKeeps == ASSUME Inv, UNCHANGED fvars PROVE Inv'
<1>1. UNCHANGED <<planVars, todo, shown, expecting, localVars, linkVars, phone, part, room, faults, unplugs>>
  BY DEF fvars, phoneVars
<1>2. PhoneTypes' /\ CountTypes'
  BY <1>1, TypesKept DEF Inv
<1>3. Mode' = Mode
  BY <1>1 DEF Mode, linkVars
<1>4. QED
  BY <1>1, <1>2, <1>3, ChangeKeeps

\* So does every step there is.
LEMMA NextKeeps == ASSUME Inv, [Next]_fvars PROVE Inv'
<1>1. CASE Install
  BY <1>1, InstallKeeps
<1>2. CASE HostStep
  BY <1>2, HostStepKeeps
<1>3. ASSUME NEW p \in Phones, Leave(p) \/ Arrive(p) \/ Unplug(p) \/ Replug(p) PROVE Inv'
  BY <1>3, LeaveKeeps, ArriveKeeps, UnplugKeeps, ReplugKeeps
<1>4. CASE UNCHANGED fvars
  BY <1>4, StutterKeeps
<1>5. QED
  BY <1>1, <1>2, <1>3, <1>4 DEF Next

\* The invariant holds in every state there is.
LEMMA Invariant == Spec => []Inv
  BY InitInv, NextKeeps, PTL DEF Spec

\* Every variable keeps its type, the tasks of the chain and the phones among
\* them, whatever is in the factory image and in its script.
THEOREM FlashTypes == Spec => []TypeOK
<1>1. Inv => TypeOK
  <2>1. SUFFICES ASSUME Inv PROVE TypeOK
    OBVIOUS
  <2>2. \A i \in DOMAIN todo : todo[i].op \in Ops
    <3>1. \A i \in 1..Len(todo) : todo[i] \in Tasks
      BY <2>1 DEF Inv, Order
    <3>2. DOMAIN todo = 1..Len(todo)
      BY <2>1 DEF Inv, Order
    <3>3. QED
      BY <3>1, <3>2, TaskOps
  <2>3. phone \in [Phones -> [mode : Modes, goto : Modes \cup {""}, plugged : BOOLEAN,
                               active : Slots, booted : Slots, locked : BOOLEAN]]
    <3>1. PhoneRecord \subseteq [mode : Modes, goto : Modes \cup {""}, plugged : BOOLEAN,
                                 active : Slots, booted : Slots, locked : BOOLEAN]
      BY DEF PhoneRecord
    <3> HIDE DEF PhoneRecord
    <3>2. QED
      BY <2>1, <3>1 DEF Inv, Types, PhoneTypes
  <2>4. source \in Sources /\ script \in Scripts /\ opts \in Options
    BY <2>1 DEF Inv, Types, PlanTypes
  <2>5. /\ required \subseteq {"vendor"}
        /\ current \in Slots \cup {"", "all"} /\ secondary \in Slots \cup {""}
        /\ dynamic \subseteq Places /\ updatedSuper \in BOOLEAN
    BY <2>1 DEF Inv, Types, LocalTypes
  <2>6. /\ shown \in {"idle", "progress", "error", "complete"} /\ expecting \in BOOLEAN
        /\ dev \in Phones /\ open \in BOOLEAN
        /\ faults \in 0..MaxFaults /\ unplugs \in 0..MaxUnplugs
    BY <2>1 DEF Inv, Types, PageTypes, LinkTypes, CountTypes
  <2>7. /\ part \in [Phones -> [Places -> Images \cup {"old", "none"}]]
        /\ room \in [Phones -> [Places -> {"old", "none", "image"}]]
    BY <2>1 DEF Inv, Types, StoreTypes
  <2>8. QED
    BY <2>2, <2>3, <2>4, <2>5, <2>6, <2>7, Zenon DEF TypeOK
<1>2. QED
  BY <1>1, Invariant, PTL

\* resize-logical-partition and update-super go to a phone in fastbootd only,
\* on any number of phones, for any script and after any faults.
THEOREM OnlyInUserspace == Spec => []UserspaceOnly
<1>1. Inv => UserspaceOnly
  BY DEF Inv, Order, HeadOk, UserspaceOnly
<1>2. QED
  BY <1>1, Invariant, PTL

-----------------------------------------------------------------------------
(* The other phones                                                        *)

\* They are as they were found, and the page holds one of them for the length
\* of a look at most.
OthersWait ==
    /\ dev = Ours \/ todo = <<>> \/ Head(todo).op = "checkUserspace"
    /\ shown = "idle" => dev = Ours
    /\ \A p \in Phones \ {Ours} : phone[p].mode \in OtherModes /\ phone[p].goto = ""

\* A step of the page changes nothing on other phones than the one it holds.
Elsewhere(p) == part'[p] = part[p] /\ room'[p] = room[p] /\ phone'[p] = phone[p]

\* Changes to the phone that is held are not changes to others.
LEMMA ChangedHere ==
    ASSUME Inv, NEW p \in Phones, p # dev,
           UNCHANGED phone \/ \E r : phone' = [phone EXCEPT ![dev] = r],
           UNCHANGED part \/ \E r : part' = [part EXCEPT ![dev] = r],
           UNCHANGED room \/ \E r : room' = [room EXCEPT ![dev] = r]
    PROVE  Elsewhere(p)
<1>1. phone'[p] = phone[p]
  BY DEF Inv, Types, PhoneTypes
<1>2. part'[p] = part[p]
  BY DEF Inv, Types, StoreTypes
<1>3. room'[p] = room[p]
  BY DEF Inv, Types, StoreTypes
<1>4. QED
  BY <1>1, <1>2, <1>3 DEF Elsewhere

\* Every step of the page is of that kind.
LEMMA HostStepsHere == ASSUME Inv, HostStep, NEW p \in Phones, p # dev PROVE Elsewhere(p)
<1>1. CASE UNCHANGED phoneVars
  BY <1>1 DEF phoneVars, Elsewhere
<1>2. CASE AdbReboot \/ Activate \/ ActivateAgain \/ Lock \/ Reboot \/ RebootTo
  <2>1. UNCHANGED <<part, room>>
    BY <1>2 DEF AdbReboot, Activate, ActivateAgain, Lock, Reboot, RebootTo
  <2>2. UNCHANGED phone \/ \E r : phone' = [phone EXCEPT ![dev] = r]
    BY <1>2 DEF AdbReboot, Activate, ActivateAgain, Lock, Reboot, RebootTo, SetActive
  <2>3. QED
    BY <2>1, <2>2, ChangedHere
<1>3. CASE Unlock
  BY <1>3, ChangedHere DEF Unlock, phoneVars
<1>4. CASE Resize
  BY <1>4, ChangedHere DEF Resize, Content
<1>5. CASE Write
  BY <1>5, ChangedHere DEF Write, Content
<1>6. CASE Merge
  BY <1>6, ChangedHere DEF Merge
<1>7. CASE Erase
  BY <1>7, ChangedHere DEF Erase, Content
<1>8. CASE \/ Choose \/ Identify \/ Require \/ DetermineSlots \/ CancelSnapshot \/ CollectTasks \/ Wipe
           \/ Updated \/ FlashImage \/ FlashPartition \/ UpdateSuper \/ ResizeAll \/ RebootAway
           \/ RebootToUserspace \/ WaitForDisconnect \/ WaitForReconnect \/ CheckUserspace
  BY <1>1, <1>8 DEF Choose, Identify, Require, DetermineSlots, CancelSnapshot, CollectTasks, Wipe,
     Updated, FlashImage, FlashPartition, UpdateSuper, ResizeAll, RebootAway, RebootToUserspace,
     WaitForDisconnect, WaitForReconnect, CheckUserspace, Quietly
<1>9. QED
  BY <1>2, <1>3, <1>4, <1>5, <1>6, <1>7, <1>8 DEF HostStep

\* The link only changes in the chooser and after a reboot.
LEMMA HostStepsLink ==
    ASSUME HostStep
    PROVE  dev' = dev \/ dev' = Ours \/ WaitForReconnect
  BY DEF HostStep, AdbReboot, Choose, Identify, Unlock, Require, Activate, DetermineSlots, CancelSnapshot,
     CollectTasks, Wipe, ActivateAgain, Updated, Lock, Reboot, FlashImage, FlashPartition, Resize, Write,
     UpdateSuper, Merge, ResizeAll, Erase, RebootAway, RebootToUserspace, RebootTo, WaitForDisconnect,
     CheckUserspace, Quietly, linkVars

\* While another phone is held nothing but the look can be next.
LEMMA OnlyLooks ==
    ASSUME HostStep, Head(todo).op = "checkUserspace"
    PROVE  CheckUserspace
  BY DEF HostStep, AdbReboot, Choose, Identify, Unlock, Require, Activate, DetermineSlots, CancelSnapshot,
     CollectTasks, Wipe, ActivateAgain, Updated, Lock, Reboot, FlashImage, FlashPartition, Resize, Write,
     UpdateSuper, Merge, ResizeAll, Erase, RebootAway, RebootToUserspace, RebootTo, WaitForDisconnect,
     WaitForReconnect, Task

\* Every step of the page shows that it works, or has ended.
LEMMA HostStepsShow == ASSUME HostStep PROVE todo # <<>> /\ shown' # "idle"
  BY DEF HostStep, AdbReboot, Choose, Identify, Unlock, Require, Activate, DetermineSlots, CancelSnapshot,
     CollectTasks, Wipe, ActivateAgain, Updated, Lock, Reboot, FlashImage, FlashPartition, Resize, Write,
     UpdateSuper, Merge, ResizeAll, Erase, RebootAway, RebootToUserspace, RebootTo, WaitForDisconnect,
     WaitForReconnect, CheckUserspace, Task, Proceed, ProceedWith, Goes, Throw

\* The chain that is left after a phone was opened again starts with the look.
LEMMA ThenLooks ==
    ASSUME Inv, WaitForReconnect, dev' # dev
    PROVE  todo' = <<>> \/ Head(todo').op = "checkUserspace"
<1>1. todo # <<>> /\ Head(todo).op = "waitForReconnect" /\ (Throw \/ Proceed)
  BY AtHand DEF WaitForReconnect
<1>2. CASE Throw
  BY <1>2 DEF Throw
<1>3. CASE Proceed
  <2>1. todo \in Seq(Tasks) /\ Chain(todo) /\ todo' = Tail(todo)
    BY <1>3 DEF Inv, Order, Proceed, Goes
  <2>2. /\ Len(todo') = Len(todo) - 1 /\ Len(todo) \in Nat \ {0} /\ Head(todo) = todo[1]
        /\ \A i \in 1..Len(todo') : i + 1 \in 1..Len(todo) /\ todo'[i] = todo[i + 1]
    BY <1>1, <2>1, Tails
  <2>3. 1 \in 1..Len(todo)
    BY <2>2
  <2>4. 1 < Len(todo) /\ todo[1 + 1].op = "checkUserspace"
    BY <1>1, <2>1, <2>2, <2>3 DEF Chain
  <2>5. 1 \in 1..Len(todo') /\ todo'[1] = todo[1 + 1]
    BY <2>2, <2>4
  <2>6. todo' \in Seq(Tasks) /\ todo' # <<>>
    <3>1. todo' \in Seq(Tasks)
      BY <1>1, <2>1, Tails
    <3>2. QED
      BY <2>5, <3>1
  <2>7. Head(todo') = todo'[1]
    BY <2>5, <2>6
  <2>8. QED
    BY <2>4, <2>5, <2>7
<1>4. QED
  BY <1>1, <1>2, <1>3

\* What the property says of a phone.
Spared(p) ==
    /\ part'[p] = part[p] /\ room'[p] = room[p]
    /\ phone'[p].active = phone[p].active /\ phone'[p].locked = phone[p].locked

\* They wait in every step, if none of them could pass for a phone in fastbootd.
LEMMA OthersKeepWaiting ==
    ASSUME Inv, OthersWait, "fastbootd" \notin OtherModes, [Next]_fvars
    PROVE  OthersWait' /\ \A p \in Phones \ {Ours} : Spared(p)
<1>1. CASE HostStep /\ dev = Ours
  <2>1. \A p \in Phones \ {Ours} : Elsewhere(p)
    BY <1>1, HostStepsHere
  <2>2. shown' # "idle"
    BY <1>1, HostStepsShow
  <2>3. dev' = Ours \/ todo' = <<>> \/ Head(todo').op = "checkUserspace"
    BY <1>1, HostStepsLink, ThenLooks
  <2>4. QED
    BY <2>1, <2>2, <2>3 DEF OthersWait, Elsewhere, Spared
<1>2. CASE HostStep /\ dev # Ours
  <2>1. todo # <<>> /\ shown' # "idle"
    BY <1>2, HostStepsShow
  <2>2. Head(todo).op = "checkUserspace"
    BY <1>2, <2>1 DEF OthersWait
  <2>3. CheckUserspace
    BY <1>2, <2>2, OnlyLooks
  <2>4. Mode # "fastbootd"
    BY <1>2 DEF OthersWait, Mode, Inv, Types, LinkTypes
  <2>5. todo' = <<>> /\ UNCHANGED phoneVars
    BY <2>3, <2>4 DEF CheckUserspace, Throw, Quietly
  <2>6. QED
    BY <2>1, <2>5 DEF OthersWait, Elsewhere, Spared, phoneVars
<1>3. CASE Install
  <2>1. UNCHANGED <<phone, part, room, dev>> /\ shown = "idle" /\ shown' = "progress"
    BY <1>3 DEF Install, phoneVars, linkVars
  <2>2. QED
    BY <2>1 DEF OthersWait, Elsewhere, Spared
<1>4. ASSUME NEW p \in Phones, Leave(p) \/ Arrive(p) \/ Unplug(p) \/ Replug(p)
      PROVE  OthersWait' /\ \A q \in Phones \ {Ours} : Spared(q)
  <2>1. /\ UNCHANGED <<todo, dev, part, room>> /\ (shown' = "idle" => shown = "idle")
        /\ \E r : phone' = [phone EXCEPT ![p] = r]
    BY <1>4 DEF Leave, Arrive, Unplug, Replug, Disconnected, linkVars
  <2>2. ASSUME NEW q \in Phones \ {Ours}
        PROVE  /\ phone'[q].mode = phone[q].mode /\ phone'[q].goto = phone[q].goto
               /\ phone'[q].active = phone[q].active /\ phone'[q].locked = phone[q].locked
    <3>1. CASE q # p
      BY <2>1, <3>1 DEF Inv, Types, PhoneTypes
    <3>2. CASE q = p
      <4>1. phone[p].goto = "" /\ phone[p].mode # "away"
        BY <3>2, OtherModesAssumption DEF OthersWait
      <4>2. PICK b \in BOOLEAN : phone' = [phone EXCEPT ![p] = [phone[p] EXCEPT !.plugged = b]]
        BY <1>4, <4>1 DEF Leave, Arrive, Unplug, Replug
      <4>3. PICK r \in PhoneRecord : r = phone[p]
        BY DEF Inv, Types, PhoneTypes
      <4>4. phone'[p] = [r EXCEPT !.plugged = b]
        BY <4>2, <4>3 DEF Inv, Types, PhoneTypes
      <4>5. QED
        BY <3>2, <4>3, <4>4 DEF PhoneRecord
    <3>3. QED
      BY <3>1, <3>2
  <2>3. QED
    BY <2>1, <2>2 DEF OthersWait, Spared
<1>5. CASE UNCHANGED fvars
  BY <1>5 DEF fvars, phoneVars, linkVars, OthersWait, Spared
<1>6. QED
  BY <1>1, <1>2, <1>3, <1>4, <1>5 DEF Next

\* No phone but the one the user chose is written to, made to start another slot,
\* or locked, whatever its serial number and product, if no other phone is in
\* fastbootd; one that is would pass the look (the run flash_wrong_phone).
THEOREM OthersAreSpared == "fastbootd" \notin OtherModes => (Spec => OnlyOurs)
<1> SUFFICES ASSUME "fastbootd" \notin OtherModes PROVE Spec => OnlyOurs
  OBVIOUS
<1>1. Init => OthersWait
  <2>1. SUFFICES ASSUME Init PROVE OthersWait
    OBVIOUS
  <2>2. \A p \in Phones \ {Ours} : phone[p].mode \in OtherModes /\ phone[p].goto = ""
    <3>1. PICK start \in Starts, mode \in [Phones -> OtherModes] :
              phone = [p \in Phones |->
                  [mode |-> IF p = Ours THEN start.mode ELSE mode[p],
                   goto |-> "", plugged |-> TRUE, active |-> start.active, booted |-> start.active,
                   locked |-> start.locked]]
      BY <2>1 DEF Init
    <3>2. QED
      BY <3>1
  <2>3. QED
    BY <2>1, <2>2 DEF Init, OthersWait
<1>2. Inv /\ OthersWait /\ [Next]_fvars => OthersWait'
  BY OthersKeepWaiting
<1>3. Inv /\ OthersWait /\ [Next]_fvars =>
          [\A p \in Phones \ {Ours} :
              /\ part'[p] = part[p] /\ room'[p] = room[p]
              /\ phone'[p].active = phone[p].active /\ phone'[p].locked = phone[p].locked]_fvars
  BY OthersKeepWaiting DEF Spared
<1>4. QED
  BY <1>1, <1>2, <1>3, Invariant, PTL DEF Spec, OnlyOurs
=============================================================================
