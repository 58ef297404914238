---------------------------- MODULE FramesProofs ----------------------------
(***************************************************************************)
(* Proofs that a running coroutine's thread has the frame allocator of its *)
(* environment, that every frame's memory resource outlives it, and that a *)
(* stop is heeded, for any threads and chains and whatever the bounds.     *)
(***************************************************************************)
EXTENDS Frames, TLAPS

\* Every leaf is for Zenon unless it names another prover.
USE Zenon

Resources ==
    {Context} \cup {Trampoline(c) : c \in Chains}
    \cup {Wrapper(c, d) : c \in Chains, d \in Depths}
    \cup {Awaitable(c, d) : c \in Chains, d \in Depths}

Level == [ch : Chains, saved : Resources \cup {Nil}]
Frame == [kind : Kinds, mr : Resources, env : Resources,
          via : {"run_async", "call", "run", "run_ex"}]

\* The types of what the proofs look at.
LevelTypes ==
    /\ tls \in [Threads -> Resources \cup {Nil}]
    /\ level \in [Threads -> [Levels -> Level \cup {Nil}]]
    /\ top \in [Threads -> 0 .. MaxLevels]

FrameTypes ==
    /\ frame \in [Chains -> [Depths -> Frame \cup {Nil}]]
    /\ depth \in [Chains -> 0 .. MaxDepth]
    /\ \A c \in Chains : \A d \in 1 .. depth[c] : frame[c][d] \in Frame

States == {"new", "running", "start", "waiting", "back", "over"}
StateTypes == st \in [Chains -> States]

\* A chain that may get the control has a coroutine to take it, and one that comes back
\* from run(ex) has the parent too.
HasFrames ==
    \A c \in Chains : /\ st[c] \in {"running", "start", "waiting"} => depth[c] >= 1
                      /\ st[c] = "back" => depth[c] >= 2

\* What each chain's deepest coroutine wants the thread's allocator to be.
EnvOf == [c \in Chains |-> Deepest(c).env]

\* The chains on the levels are running, each on one level only; a level puts back the
\* allocator of the coroutine that it interrupted; the thread has that of the last one.
LevelsOK ==
    \A t \in Threads :
        /\ \A i \in 1 .. top[t] :
               /\ level[t][i] \in Level /\ st[level[t][i].ch] = "running"
               /\ \A u \in Threads : \A j \in 1 .. top[u] :
                      level[u][j].ch = level[t][i].ch => u = t /\ j = i
               /\ level[t][i].saved = IF i = 1 THEN Nil ELSE EnvOf[level[t][i - 1].ch]
        /\ tls[t] = IF top[t] = 0 THEN Nil ELSE EnvOf[level[t][top[t]].ch]

\* r is the chain's resource, or that of a run() at a depth up to d.
FromRun(c, d, r) ==
    \E e \in 2 .. d : r = Awaitable(c, e) /\ frame[c][e].via \in {"run", "run_ex"}
OfChain(c, d, r) == r = get_resource(c) \/ FromRun(c, d, r)

\* Every coroutine's environment names such a resource, and its frame came from one, or
\* from the wrapper of its own run().
Lineage ==
    \A c \in Chains : \A d \in 1 .. depth[c] :
        /\ frame[c][d].via = "run_async" <=> d = 1
        /\ OfChain(c, d, frame[c][d].env)
        /\ \/ OfChain(c, d, frame[c][d].mr)
           \/ frame[c][d].mr = Wrapper(c, d) /\ frame[c][d].via \in {"run", "run_ex"}

IInv ==
    /\ LevelTypes /\ FrameTypes /\ StateTypes
    /\ HasFrames /\ LevelsOK /\ Lineage

-----------------------------------------------------------------------------
(* What may happen to the levels.                                          *)

\* Others(c): nothing changes for the chains other than c.
Others(c) == \A x \in Chains \ {c} : st'[x] = st[x] /\ EnvOf'[x] = EnvOf[x]

\* A chain that is on no level changes.
LEMMA Elsewhere ==
    ASSUME LevelTypes, LevelsOK, NEW c \in Chains, st[c] # "running",
           UNCHANGED thread_vars, Others(c)
    PROVE  LevelTypes' /\ LevelsOK'
<1>1. UNCHANGED <<tls, level, top>>
  BY DEF thread_vars
<1>2. LevelTypes'
  BY <1>1 DEF LevelTypes
<1>3. \A t \in Threads : \A i \in 1 .. top[t] :
          /\ st'[level[t][i].ch] = "running"
          /\ EnvOf'[level[t][i].ch] = EnvOf[level[t][i].ch]
  <2> SUFFICES ASSUME NEW t \in Threads, NEW i \in 1 .. top[t]
               PROVE  level[t][i].ch \in Chains \ {c} /\ st[level[t][i].ch] = "running"
    BY DEF Others
  <2>1. level[t][i] \in Level /\ st[level[t][i].ch] = "running"
    BY SMTT(30) DEF LevelsOK
  <2> QED
    BY <2>1 DEF Level
<1>4. ASSUME NEW t \in Threads, NEW i \in 1 .. top[t]
      PROVE  level[t][i].saved = IF i = 1 THEN Nil ELSE EnvOf'[level[t][i - 1].ch]
  <2>1. i # 1 => i - 1 \in 1 .. top[t]
    BY SMTT(30) DEF LevelTypes
  <2>2. level[t][i].saved = IF i = 1 THEN Nil ELSE EnvOf[level[t][i - 1].ch]
    BY SMTT(30) DEF LevelsOK
  <2> QED
    BY <1>3, <2>1, <2>2
<1>5. ASSUME NEW t \in Threads
      PROVE  tls[t] = IF top[t] = 0 THEN Nil ELSE EnvOf'[level[t][top[t]].ch]
  <2>1. top[t] # 0 => top[t] \in 1 .. top[t]
    BY SMTT(30) DEF LevelTypes
  <2>2. tls[t] = IF top[t] = 0 THEN Nil ELSE EnvOf[level[t][top[t]].ch]
    BY DEF LevelsOK
  <2> QED
    BY <1>3, <2>1, <2>2
<1> QED
  BY <1>1, <1>2, <1>3, <1>4, <1>5, SMTT(30) DEF LevelsOK

\* The chain on the last level of t goes on with another coroutine (Resumed).
LEMMA Continues ==
    ASSUME LevelTypes, LevelsOK, NEW t \in Threads, NEW c \in Chains, On(t, c),
           Others(c), st'[c] = st[c], EnvOf'[c] \in Resources,
           UNCHANGED <<level, top>>, tls' = [tls EXCEPT ![t] = EnvOf'[c]]
    PROVE  LevelTypes' /\ LevelsOK'
<1>1. \A u \in Threads : \A i \in 1 .. top[u] :
          /\ level[u][i].ch \in Chains
          /\ ~(u = t /\ i = top[t]) =>
                 st'[level[u][i].ch] = st[level[u][i].ch] /\ EnvOf'[level[u][i].ch] = EnvOf[level[u][i].ch]
  <2> SUFFICES ASSUME NEW u \in Threads, NEW i \in 1 .. top[u]
               PROVE  /\ level[u][i].ch \in Chains
                      /\ level[u][i].ch = c => u = t /\ i = top[t]
    BY DEF Others
  <2>1. top[t] \in 1 .. top[t] /\ level[t][top[t]].ch = c
    BY SMTT(30) DEF On, LevelTypes
  <2> QED
    BY <2>1, SMTT(30) DEF LevelsOK, Level
<1>2. LevelTypes'
  BY DEF LevelTypes
<1>3. ASSUME NEW u \in Threads
      PROVE  tls'[u] = IF top[u] = 0 THEN Nil ELSE EnvOf'[level[u][top[u]].ch]
  <2>1. top[u] \in Nat
    BY SMTT(30) DEF LevelTypes
  <2> QED
    BY <1>1, <2>1, SMTT(30) DEF LevelTypes, LevelsOK, On
<1>4. ASSUME NEW u \in Threads, NEW i \in 1 .. top[u]
      PROVE  /\ st'[level[u][i].ch] = "running"
             /\ level[u][i].saved = IF i = 1 THEN Nil ELSE EnvOf'[level[u][i - 1].ch]
  <2>1. top[u] \in Nat /\ (i # 1 => i - 1 \in 1 .. top[u] /\ i - 1 # top[u])
    BY SMTT(30) DEF LevelTypes
  <2> QED
    BY <1>1, <2>1, SMTT(30) DEF LevelsOK, On
<1> QED
  BY <1>2, <1>3, <1>4, SMTT(30) DEF LevelsOK

\* The last level of t ends (Suspend).
LEMMA Leaves ==
    ASSUME LevelTypes, LevelsOK, NEW t \in Threads, NEW c \in Chains, On(t, c),
           Others(c), Suspend(t)
    PROVE  LevelTypes' /\ LevelsOK'
<1>1. top[t] \in 1 .. MaxLevels /\ top[t] \in Levels /\ level[t][top[t]].ch = c
  BY FramesAssumption, SMTT(30) DEF On, LevelTypes, Levels
<1>2. \A u \in Threads : \A i \in 1 .. top'[u] :
          /\ top'[u] \in 0 .. top[u] /\ i \in 1 .. top[u] /\ ~(u = t /\ i = top[t])
          /\ level'[u][i] = level[u][i]
  BY <1>1, SMTT(30) DEF LevelTypes, Suspend, Levels
<1>3. \A u \in Threads : \A i \in 1 .. top'[u] :
          /\ level[u][i].ch \in Chains
          /\ st'[level[u][i].ch] = "running" /\ EnvOf'[level[u][i].ch] = EnvOf[level[u][i].ch]
  <2> SUFFICES ASSUME NEW u \in Threads, NEW i \in 1 .. top'[u]
               PROVE  /\ level[u][i].ch \in Chains \ {c} /\ st[level[u][i].ch] = "running"
    BY DEF Others
  <2>1. i \in 1 .. top[u] /\ ~(u = t /\ i = top[t])
    BY <1>2
  <2>2. top[t] \in 1 .. top[t]
    BY <1>1, SMTT(30)
  <2> QED
    BY <1>1, <2>1, <2>2, SMTT(30) DEF LevelsOK, Level
<1>4. LevelTypes'
  <2>1. level[t][top[t]].saved \in Resources \cup {Nil}
    <3>1. top[t] \in 1 .. top[t]
      BY <1>1, SMTT(30)
    <3> QED
      BY <3>1 DEF LevelsOK, Level
  <2>2. top' \in [Threads -> 0 .. MaxLevels] /\ tls' \in [Threads -> Resources \cup {Nil}]
    BY <1>1, <2>1, FramesAssumption, SMTT(30) DEF LevelTypes, Suspend
  <2>3. level' \in [Threads -> [Levels -> Level \cup {Nil}]]
    BY <1>1 DEF LevelTypes, Suspend
  <2> QED
    BY <2>2, <2>3 DEF LevelTypes
<1>5. ASSUME NEW u \in Threads
      PROVE  tls'[u] = IF top'[u] = 0 THEN Nil ELSE EnvOf'[level'[u][top'[u]].ch]
  <2>1. CASE u = t
    <3>1. top[t] \in 1 .. top[t] /\ top'[t] = top[t] - 1 /\ tls'[t] = level[t][top[t]].saved
      BY <1>1, SMTT(30) DEF LevelTypes, Suspend
    <3>2. tls'[t] = IF top[t] = 1 THEN Nil ELSE EnvOf[level[t][top[t] - 1].ch]
      BY <3>1, SMTT(30) DEF LevelsOK
    <3>3. top[t] # 1 => top[t] - 1 \in 1 .. top'[t]
      BY <1>1, <3>1, SMTT(30)
    <3>4. top[t] # 1 => EnvOf'[level'[t][top[t] - 1].ch] = EnvOf[level[t][top[t] - 1].ch]
      BY <1>2, <1>3, <3>3, SMTT(30)
    <3>5. top[t] = 1 <=> top'[t] = 0
      BY <1>1, <3>1, SMTT(30)
    <3> QED
      BY <2>1, <3>1, <3>2, <3>4, <3>5
  <2>2. CASE u # t
    <3>1. top'[u] = top[u] /\ tls'[u] = tls[u] /\ top[u] \in Nat
      BY <2>2, SMTT(30) DEF LevelTypes, Suspend
    <3>2. top[u] # 0 => top[u] \in 1 .. top'[u]
      BY <3>1, SMTT(30)
    <3> QED
      BY <1>2, <1>3, <3>1, <3>2, SMTT(30) DEF LevelsOK
  <2> QED
    BY <2>1, <2>2
<1>6. ASSUME NEW u \in Threads, NEW i \in 1 .. top'[u]
      PROVE  /\ level'[u][i] \in Level /\ st'[level'[u][i].ch] = "running"
             /\ \A v \in Threads : \A j \in 1 .. top'[v] :
                    level'[v][j].ch = level'[u][i].ch => v = u /\ j = i
    BY <1>2, <1>3, SMTT(30) DEF LevelsOK
<1>7. ASSUME NEW u \in Threads, NEW i \in 1 .. top'[u]
      PROVE  level'[u][i].saved = IF i = 1 THEN Nil ELSE EnvOf'[level'[u][i - 1].ch]
  <2>1. i # 1 => i - 1 \in 1 .. top'[u]
    BY <1>4, SMTT(30) DEF LevelTypes
  <2> QED
    BY <1>2, <1>3, <2>1, SMTT(30) DEF LevelsOK
<1> QED
  BY <1>4, <1>5, <1>6, <1>7, SMTT(30) DEF LevelsOK

\* A level begins on t (Lend and Resumed).
LEMMA Enters ==
    ASSUME LevelTypes, LevelsOK, NEW t \in Threads, NEW c \in Chains, st[c] # "running",
           Others(c), st'[c] = "running", EnvOf'[c] \in Resources,
           Lend(t, c), tls' = [tls EXCEPT ![t] = EnvOf'[c]]
    PROVE  LevelTypes' /\ LevelsOK'
<1> DEFINE new == top[t] + 1
<1>1. new \in Levels /\ top' = [top EXCEPT ![t] = new]
  BY FramesAssumption, SMTT(30) DEF LevelTypes, Levels, Lend
<1>2. /\ level'[t][new] = [ch |-> c, saved |-> tls[t]] /\ top'[t] = new
      /\ new \in Nat /\ new # 0 /\ level'[t][new] \in Level
  <2>1. [ch |-> c, saved |-> tls[t]] \in Level
    BY DEF LevelTypes, Level
  <2>2. level'[t][new] = [ch |-> c, saved |-> tls[t]]
    BY <1>1 DEF LevelTypes, Lend
  <2> QED
    BY <1>1, <2>1, <2>2, FramesAssumption, SMTT(30) DEF LevelTypes, Levels
<1>3. \A u \in Threads : \A i \in 1 .. top[u] :
          /\ i \in 1 .. top'[u] /\ level'[u][i] = level[u][i] /\ ~(u = t /\ i = new)
  <2> SUFFICES ASSUME NEW u \in Threads, NEW i \in 1 .. top[u]
               PROVE  /\ i \in 1 .. top'[u] /\ level'[u][i] = level[u][i]
                      /\ ~(u = t /\ i = new)
    OBVIOUS
  <2>1. i \in 1 .. top'[u] /\ ~(u = t /\ i = new)
    BY <1>1, SMTT(30) DEF LevelTypes
  <2> QED
    BY <2>1, SMTT(30) DEF LevelTypes, Lend
<1>4. \A u \in Threads : \A i \in 1 .. top'[u] : i \in 1 .. top[u] \/ (u = t /\ i = new)
  BY <1>1, SMTT(30) DEF LevelTypes
<1>5. \A u \in Threads : \A i \in 1 .. top[u] :
          /\ level[u][i].ch \in Chains \ {c}
          /\ st'[level[u][i].ch] = "running" /\ EnvOf'[level[u][i].ch] = EnvOf[level[u][i].ch]
  BY SMTT(30) DEF LevelsOK, Others, Level
<1>6. LevelTypes'
  BY <1>1, <1>2, SMTT(30) DEF LevelTypes, Levels, Lend
<1>7. ASSUME NEW u \in Threads
      PROVE  tls'[u] = IF top'[u] = 0 THEN Nil ELSE EnvOf'[level'[u][top'[u]].ch]
  <2>1. CASE u = t
    BY <1>2, <2>1, SMTT(30) DEF LevelTypes
  <2>2. CASE u # t
    <3>1. top'[u] = top[u] /\ tls'[u] = tls[u] /\ top[u] \in Nat
      BY <1>1, <2>2, SMTT(30) DEF LevelTypes
    <3>2. top[u] # 0 => top[u] \in 1 .. top[u]
      BY <3>1, SMTT(30)
    <3> QED
      BY <1>3, <1>5, <3>1, <3>2, SMTT(30) DEF LevelsOK
  <2> QED
    BY <2>1, <2>2
<1>8. ASSUME NEW u \in Threads, NEW i \in 1 .. top'[u]
      PROVE  /\ level'[u][i] \in Level /\ st'[level'[u][i].ch] = "running"
             /\ \A v \in Threads : \A j \in 1 .. top'[v] :
                    level'[v][j].ch = level'[u][i].ch => v = u /\ j = i
  <2>1. level'[u][i] \in Level /\ st'[level'[u][i].ch] = "running"
    BY <1>2, <1>3, <1>4, <1>5, SMTT(30) DEF LevelsOK
  <2>2. ASSUME NEW v \in Threads, NEW j \in 1 .. top'[v], level'[v][j].ch = level'[u][i].ch
        PROVE  v = u /\ j = i
    <3>1. CASE i \in 1 .. top[u] /\ j \in 1 .. top[v]
      BY <1>3, <2>2, <3>1, SMTT(30) DEF LevelsOK
    <3>2. CASE i \in 1 .. top[u] /\ v = t /\ j = new
      BY <1>2, <1>3, <1>5, <2>2, <3>2, SMTT(30)
    <3>3. CASE j \in 1 .. top[v] /\ u = t /\ i = new
      BY <1>2, <1>3, <1>5, <2>2, <3>3, SMTT(30)
    <3> QED
      BY <1>4, <3>1, <3>2, <3>3
  <2> QED
    BY <2>1, <2>2
<1>9. ASSUME NEW u \in Threads, NEW i \in 1 .. top'[u]
      PROVE  level'[u][i].saved = IF i = 1 THEN Nil ELSE EnvOf'[level'[u][i - 1].ch]
  <2>1. CASE i \in 1 .. top[u]
    <3>1. i # 1 => i - 1 \in 1 .. top[u]
      BY <2>1, SMTT(30) DEF LevelTypes
    <3> QED
      BY <1>3, <1>5, <2>1, <3>1, SMTT(30) DEF LevelsOK
  <2>2. CASE u = t /\ i = new
    <3>0. top[t] \in Nat
      BY SMTT(30) DEF LevelTypes
    <3>1. i # 1 => i - 1 = top[t] /\ i - 1 \in 1 .. top[t]
      BY <2>2, <3>0, SMTT(30)
    <3>2. i = 1 => top[t] = 0
      BY <2>2, SMTT(30) DEF LevelTypes
    <3>3. i # 1 => top[t] # 0
      BY <2>2, SMTT(30) DEF LevelTypes
    <3>4. tls[t] = IF i = 1 THEN Nil ELSE EnvOf[level[t][i - 1].ch]
      BY <3>1, <3>2, <3>3, SMTT(30) DEF LevelsOK
    <3>5. level'[u][i].saved = tls[t]
      BY <1>2, <2>2, SMTT(30)
    <3>6. i # 1 => EnvOf'[level'[t][i - 1].ch] = EnvOf[level[t][i - 1].ch]
      BY <1>3, <1>5, <3>1, SMTT(30)
    <3> QED
      BY <2>2, <3>4, <3>5, <3>6
  <2> QED
    BY <1>4, <2>1, <2>2
<1> QED
  BY <1>6, <1>7, <1>8, <1>9, SMTT(30) DEF LevelsOK

-----------------------------------------------------------------------------
(* What may happen to the frames.                                          *)

\* The resources that a chain uses.
LEMMA ResourceTypes ==
    ASSUME NEW c \in Chains
    PROVE  /\ get_resource(c) \in Resources
           /\ \A d \in Depths : Wrapper(c, d) \in Resources /\ Awaitable(c, d) \in Resources
  BY SMTT(30) DEF Resources, get_resource

\* Nothing but c's frames changes.
OtherFrames(c) == \A x \in Chains \ {c} : EnvOf'[x] = EnvOf[x] /\ depth'[x] = depth[x]

\* A chain that goes from one state to another with the frames that its new state asks
\* for leaves the other chains as they are.
LEMMA Moves ==
    ASSUME FrameTypes, StateTypes, HasFrames, FrameTypes', NEW c \in Chains, NEW s \in States,
           OtherFrames(c), st' = [st EXCEPT ![c] = s],
           s \in {"running", "start", "waiting"} => depth'[c] >= 1,
           s = "back" => depth'[c] >= 2
    PROVE  Others(c) /\ StateTypes' /\ HasFrames' /\ st'[c] = s
<1>1. StateTypes' /\ st'[c] = s /\ \A x \in Chains \ {c} : st'[x] = st[x]
  BY DEF StateTypes
<1>2. Others(c)
  BY <1>1 DEF Others, OtherFrames
<1>3. HasFrames'
  <2> SUFFICES ASSUME NEW x \in Chains
               PROVE  /\ st'[x] \in {"running", "start", "waiting"} => depth'[x] >= 1
                      /\ st'[x] = "back" => depth'[x] >= 2
    BY DEF HasFrames
  <2>1. CASE x = c
    BY <1>1, <2>1
  <2>2. CASE x # c
    BY <1>1, <2>2 DEF OtherFrames, HasFrames
  <2> QED
    BY <2>1, <2>2
<1> QED
  BY <1>1, <1>2, <1>3

\* So does one that stays in its state with a coroutine more or less.
LEMMA Stays ==
    ASSUME FrameTypes, StateTypes, HasFrames, FrameTypes', NEW c \in Chains,
           OtherFrames(c), st' = st, st[c] = "running", depth'[c] >= 1
    PROVE  Others(c) /\ StateTypes' /\ HasFrames' /\ st'[c] = st[c]
<1>1. st' = [st EXCEPT ![c] = "running"]
  BY DEF StateTypes
<1> QED
  BY <1>1, Moves DEF States

\* No frame is made or destroyed.
LEMMA SameFrames ==
    ASSUME FrameTypes, Lineage, UNCHANGED <<frame, depth>>
    PROVE  /\ FrameTypes' /\ Lineage' /\ EnvOf' = EnvOf
           /\ \A c \in Chains : OtherFrames(c) /\ depth'[c] = depth[c]
<1>1. FrameTypes'
  BY DEF FrameTypes
<1>2. Lineage'
  BY SMTT(30) DEF Lineage, OfChain, FromRun
<1>3. EnvOf' = EnvOf
  BY DEF EnvOf, Deepest
<1>4. \A c \in Chains : OtherFrames(c) /\ depth'[c] = depth[c]
  BY <1>3 DEF OtherFrames
<1> QED
  BY <1>1, <1>2, <1>3, <1>4

\* A chain's first coroutine is made (Made).
LEMMA FirstFrame ==
    ASSUME FrameTypes, Lineage, NEW c \in Chains, NEW k \in Kinds,
           frame' = [frame EXCEPT ![c][1] = Root(c, k)], depth' = [depth EXCEPT ![c] = 1]
    PROVE  /\ FrameTypes' /\ Lineage' /\ OtherFrames(c)
           /\ EnvOf'[c] = get_resource(c) /\ get_resource(c) \in Resources
<1>1. Root(c, k) \in Frame /\ 1 \in Depths
  BY ResourceTypes, FramesAssumption, SMTT(30) DEF Root, Frame, Depths
<1>2. FrameTypes'
  BY <1>1, FramesAssumption, SMTT(30) DEF FrameTypes, Depths
<1>3. Lineage'
  BY <1>1, FramesAssumption, SMTT(30) DEF FrameTypes, Lineage, OfChain, FromRun, Root
<1>4. EnvOf'[c] = get_resource(c)
  BY <1>1 DEF FrameTypes, EnvOf, Deepest, Root
<1> QED
  BY <1>1, <1>2, <1>3, <1>4, ResourceTypes DEF FrameTypes, OtherFrames, EnvOf, Deepest

\* A child is made, in its parent's environment or in that of a run() (Push).
LEMMA NextFrame ==
    ASSUME FrameTypes, Lineage, NEW c \in Chains, NEW f \in Frame, depth[c] >= 1, Push(c, f),
           f.via # "run_async",
           \/ f.env = Deepest(c).env /\ f.mr = Deepest(c).env
           \/ /\ f.env = Awaitable(c, depth[c] + 1) /\ f.mr = Wrapper(c, depth[c] + 1)
              /\ f.via \in {"run", "run_ex"}
    PROVE  /\ FrameTypes' /\ Lineage' /\ OtherFrames(c)
           /\ EnvOf'[c] = f.env /\ f.env \in Resources /\ depth'[c] = depth[c] + 1
<1>0. PICK new \in Nat : new = depth[c] + 1
  BY SMTT(30) DEF FrameTypes
<1>1. /\ depth[c] \in 1 .. MaxDepth /\ new \in Depths /\ new \in Nat /\ new >= 2
      /\ depth' = [depth EXCEPT ![c] = new] /\ frame' = [frame EXCEPT ![c][new] = f]
      /\ depth[c] \in Depths
  BY <1>0, FramesAssumption, SMTT(30) DEF FrameTypes, Depths, Push
<1>2. /\ depth' \in [Chains -> 0 .. MaxDepth] /\ depth'[c] = new
      /\ frame' \in [Chains -> [Depths -> Frame \cup {Nil}]]
  <2>1. new \in 0 .. MaxDepth
    BY <1>1, SMTT(30) DEF Depths
  <2> QED
    BY <1>1, <2>1 DEF FrameTypes
<1>3. /\ frame'[c][new] = f
      /\ \A d \in 1 .. depth[c] : frame'[c][d] = frame[c][d] /\ d # new
  <2>1. \A d \in 1 .. depth[c] : d \in Depths /\ d # new
    BY <1>0, <1>1, FramesAssumption, SMTT(30) DEF Depths
  <2> QED
    BY <1>1, <2>1 DEF FrameTypes
<1>4. \A x \in Chains \ {c} : frame'[x] = frame[x] /\ depth'[x] = depth[x]
  BY <1>1 DEF FrameTypes
<1>10. FrameTypes'
  <2> SUFFICES ASSUME NEW x \in Chains, NEW d \in 1 .. depth'[x]
               PROVE  frame'[x][d] \in Frame
    BY <1>2 DEF FrameTypes
  <2>1. CASE x # c
    BY <1>4, <2>1 DEF FrameTypes
  <2>2. CASE x = c /\ d # new
    <3>1. d \in 1 .. depth[c]
      BY <1>0, <1>1, <1>2, <2>2, SMTT(30)
    <3> QED
      BY <1>3, <2>2, <3>1 DEF FrameTypes
  <2>3. CASE x = c /\ d = new
    BY <1>3, <2>3
  <2> QED
    BY <2>1, <2>2, <2>3
<1>5. ASSUME NEW x \in Chains, NEW d \in 1 .. depth[x], NEW r, OfChain(x, d, r)
      PROVE  OfChain(x, d, r)'
  <2>1. \A e \in 2 .. d : frame'[x][e] = frame[x][e]
    BY <1>3, <1>4, SMTT(30) DEF FrameTypes
  <2> QED
    BY <1>5, <2>1 DEF OfChain, FromRun
<1>6. f.env = Deepest(c).env => OfChain(c, new, f.env)'
  <2>1. OfChain(c, depth[c], Deepest(c).env)
    BY <1>1, SMTT(30) DEF Lineage, Deepest
  <2> QED
    BY <1>0, <1>1, <1>3, <2>1, SMTT(30) DEF OfChain, FromRun
<1>7. f.env = Awaitable(c, new) /\ f.via \in {"run", "run_ex"} => OfChain(c, new, f.env)'
  BY <1>1, <1>3, SMTT(30) DEF OfChain, FromRun
<1>8. Lineage'
  <2> SUFFICES ASSUME NEW x \in Chains, NEW d \in 1 .. depth'[x]
               PROVE  /\ frame'[x][d].via = "run_async" <=> d = 1
                      /\ OfChain(x, d, frame[x][d].env)'
                      /\ \/ OfChain(x, d, frame[x][d].mr)'
                         \/ /\ frame'[x][d].mr = Wrapper(x, d)
                            /\ frame'[x][d].via \in {"run", "run_ex"}
    BY DEF Lineage
  <2>1. CASE x = c /\ d = new
    <3>1. frame'[x][d] = f /\ d # 1
      BY <1>1, <1>3, <2>1, SMTT(30)
    <3>2. OfChain(c, new, f.env)'
      BY <1>0, <1>6, <1>7
    <3>3. OfChain(x, d, frame[x][d].env)'
      BY <2>1, <3>1, <3>2 DEF OfChain, FromRun
    <3>4. CASE f.mr = Deepest(c).env /\ f.env = Deepest(c).env
      <4>1. f.mr = f.env
        BY <3>4
      <4>2. OfChain(x, d, frame[x][d].mr)'
        BY <2>1, <3>1, <3>2, <4>1 DEF OfChain, FromRun
      <4> QED
        BY <3>1, <3>3, <4>2
    <3>5. CASE f.mr = Wrapper(c, new) /\ f.via \in {"run", "run_ex"}
      BY <2>1, <3>1, <3>3, <3>5
    <3> QED
      BY <1>0, <3>4, <3>5
  <2>2. CASE ~(x = c /\ d = new)
    <3>1. d \in 1 .. depth[x] /\ frame'[x][d] = frame[x][d]
      <4>1. x = c => d \in 1 .. depth[c]
        BY <1>0, <1>1, <1>2, <2>2, SMTT(30)
      <4> QED
        BY <1>3, <1>4, <4>1
    <3>2. /\ frame[x][d].via = "run_async" <=> d = 1
          /\ OfChain(x, d, frame[x][d].env)
          /\ \/ OfChain(x, d, frame[x][d].mr)
             \/ frame[x][d].mr = Wrapper(x, d) /\ frame[x][d].via \in {"run", "run_ex"}
      BY <3>1 DEF Lineage
    <3> QED
      BY <1>5, <3>1, <3>2
  <2> QED
    BY <2>1, <2>2
<1>9. EnvOf'[c] = f.env /\ OtherFrames(c)
  <2>1. EnvOf'[c] = frame'[c][depth'[c]].env
    BY DEF EnvOf, Deepest
  <2>2. \A x \in Chains : EnvOf[x] = frame[x][depth[x]].env /\ EnvOf'[x] = frame'[x][depth'[x]].env
    BY DEF EnvOf, Deepest
  <2> QED
    BY <1>2, <1>3, <1>4, <2>1, <2>2, SMTT(30) DEF OtherFrames
<1> QED
  BY <1>0, <1>2, <1>8, <1>9, <1>10 DEF Frame

\* The deepest frame is destroyed (Pop).
LEMMA LastFrame ==
    ASSUME FrameTypes, Lineage, NEW c \in Chains, depth[c] >= 1, Pop(c)
    PROVE  /\ FrameTypes' /\ Lineage' /\ OtherFrames(c) /\ depth'[c] = depth[c] - 1
           /\ depth[c] >= 2 => /\ EnvOf'[c] = frame[c][depth[c] - 1].env
                               /\ frame[c][depth[c] - 1].env \in Resources
<1>1. /\ depth[c] \in 1 .. MaxDepth /\ depth[c] \in Depths /\ depth' = [depth EXCEPT ![c] = @ - 1]
      /\ frame' = [frame EXCEPT ![c][depth[c]] = Nil]
  BY FramesAssumption, SMTT(30) DEF FrameTypes, Depths, Pop
<1>2. \A x \in Chains : \A d \in 1 .. depth'[x] :
          d \in 1 .. depth[x] /\ frame'[x][d] = frame[x][d]
  BY <1>1, SMTT(30) DEF FrameTypes, Depths
<1>3. FrameTypes'
  <2>1. depth' \in [Chains -> 0 .. MaxDepth] /\ frame' \in [Chains -> [Depths -> Frame \cup {Nil}]]
    BY <1>1, FramesAssumption, SMTT(30) DEF FrameTypes
  <2> QED
    BY <1>2, <2>1 DEF FrameTypes
<1>4. \A x \in Chains : \A d \in 1 .. depth'[x] : \A r : OfChain(x, d, r) => OfChain(x, d, r)'
  <2> SUFFICES ASSUME NEW x \in Chains, NEW d \in 1 .. depth'[x], NEW r, OfChain(x, d, r)
               PROVE  OfChain(x, d, r)'
    OBVIOUS
  <2>1. \A e \in 2 .. d : e \in 1 .. depth'[x]
    BY <1>3, SMTT(30) DEF FrameTypes
  <2> QED
    BY <1>2, <2>1 DEF OfChain, FromRun
<1>5. Lineage'
  BY <1>2, <1>4, SMTT(30) DEF Lineage
<1>6. OtherFrames(c) /\ depth'[c] = depth[c] - 1
  BY <1>1 DEF OtherFrames, EnvOf, Deepest, FrameTypes
<1>7. ASSUME depth[c] >= 2
      PROVE  /\ EnvOf'[c] = frame[c][depth[c] - 1].env
             /\ frame[c][depth[c] - 1].env \in Resources
  <2>1. depth[c] - 1 \in 1 .. depth'[c] /\ depth[c] - 1 \in 1 .. depth[c]
    BY <1>1, <1>6, <1>7, SMTT(30)
  <2> QED
    BY <1>2, <1>6, <2>1 DEF EnvOf, Deepest, FrameTypes, Frame
<1> QED
  BY <1>3, <1>5, <1>6, <1>7

\* All frames of a chain are destroyed.
LEMMA NoFrames ==
    ASSUME FrameTypes, Lineage, NEW c \in Chains,
           frame' = [frame EXCEPT ![c] = [d \in Depths |-> Nil]], depth' = [depth EXCEPT ![c] = 0]
    PROVE  FrameTypes' /\ Lineage' /\ OtherFrames(c)
<1>1. FrameTypes'
  BY FramesAssumption, SMTT(30) DEF FrameTypes
<1>2. Lineage'
  <2>1. /\ depth'[c] = 0 /\ 1 .. 0 = {}
        /\ \A x \in Chains \ {c} : frame'[x] = frame[x] /\ depth'[x] = depth[x]
    BY SMTT(30) DEF FrameTypes
  <2> QED
    BY <2>1, SMTT(30) DEF Lineage, OfChain, FromRun
<1> QED
  BY <1>1, <1>2 DEF FrameTypes, OtherFrames, EnvOf, Deepest

-----------------------------------------------------------------------------
(* The invariant.                                                          *)

\* IInv holds when no chain was launched yet.
LEMMA Initially == Init => IInv
  BY FramesAssumption, SMTT(30) DEF Init, IInv, LevelTypes, FrameTypes, States, StateTypes, HasFrames, LevelsOK,
     Lineage

\* The coroutine in control has a frame.
LEMMA InControl ==
    ASSUME IInv, NEW t \in Threads, NEW c \in Chains, On(t, c)
    PROVE  st[c] = "running" /\ depth[c] >= 1 /\ tls[t] = EnvOf[c] /\ Deepest(c) \in Frame
<1>1. top[t] \in 1 .. top[t] /\ top[t] # 0
  BY SMTT(30) DEF IInv, LevelTypes, On
<1>2. st[c] = "running" /\ tls[t] = EnvOf[c]
  BY <1>1 DEF IInv, LevelsOK, On
<1>3. depth[c] \in 1 .. depth[c]
  BY <1>2, SMTT(30) DEF IInv, HasFrames, FrameTypes
<1> QED
  BY <1>2, <1>3, SMTT(30) DEF IInv, FrameTypes, Deepest

\* IInv is inductive: it holds whatever the coroutines, executors and stops do.
LEMMA Inductive == IInv /\ [Next]_vars => IInv'
<1> SUFFICES ASSUME IInv, [Next]_vars PROVE IInv'
  OBVIOUS
<1> USE DEF IInv
<1>1. ASSUME UNCHANGED <<thread_vars, frame, depth, st>> PROVE IInv'
  <2>1. EnvOf' = EnvOf
    BY <1>1 DEF EnvOf, Deepest
  <2>2. LevelTypes' /\ FrameTypes' /\ StateTypes' /\ HasFrames'
    BY <1>1 DEF thread_vars, LevelTypes, FrameTypes, StateTypes, HasFrames
  <2>3. LevelsOK'
    BY <1>1, <2>1, SMTT(30) DEF thread_vars, LevelsOK
  <2>4. Lineage'
    BY <1>1, SMTT(30) DEF Lineage, OfChain, FromRun
  <2> QED
    BY <2>2, <2>3, <2>4
<1>2. ASSUME NEW c \in Chains, request_stop(c) PROVE IInv'
  BY <1>1, <1>2 DEF request_stop
<1>3. ASSUME NEW t \in Threads, NEW c \in Chains, run_throws(t, c) \/ throw(t, c) \/ catch(t, c)
      PROVE  IInv'
  BY <1>1, <1>3 DEF run_throws, throw, catch
<1>4. ASSUME NEW t \in Threads, NEW c \in Chains, run_async_throws(t, c) PROVE IInv'
  <2>1. /\ st[c] = "new" /\ st' = [st EXCEPT ![c] = "over"]
        /\ UNCHANGED thread_vars /\ UNCHANGED <<frame, depth>>
    BY <1>4 DEF run_async_throws, Goto
  <2>2. FrameTypes' /\ Lineage' /\ OtherFrames(c)
    BY <2>1, SameFrames
  <2>3. Others(c) /\ StateTypes' /\ HasFrames'
    BY <2>1, <2>2, Moves DEF States
  <2> QED
    BY <2>1, <2>2, <2>3, Elsewhere
<1>5. ASSUME NEW t \in Threads, NEW c \in Chains, NEW k \in Kinds, run_async_posted(t, c, k)
      PROVE  IInv'
  <2>1. FrameTypes' /\ Lineage' /\ OtherFrames(c)
    BY <1>5, FirstFrame DEF run_async_posted, Made
  <2>2. /\ st[c] = "new" /\ st' = [st EXCEPT ![c] = "start"] /\ depth'[c] >= 1
        /\ UNCHANGED thread_vars
    <3>1. depth' = [depth EXCEPT ![c] = 1]
      BY <1>5 DEF run_async_posted, Made
    <3>2. depth'[c] >= 1
      BY <3>1, SMTT(30) DEF FrameTypes
    <3> QED
      BY <1>5, <3>2 DEF run_async_posted, Made, Goto
  <2>3. Others(c) /\ StateTypes' /\ HasFrames'
    BY <2>1, <2>2, Moves DEF States
  <2> QED
    BY <2>1, <2>2, <2>3, Elsewhere
<1>6. ASSUME NEW t \in Threads, NEW c \in Chains, NEW k \in Kinds, run_async_inline(t, c, k)
      PROVE  IInv'
  <2>1. /\ FrameTypes' /\ Lineage' /\ OtherFrames(c)
        /\ EnvOf'[c] = get_resource(c) /\ get_resource(c) \in Resources
    BY <1>6, FirstFrame DEF run_async_inline, Made
  <2>2. /\ st[c] = "new" /\ st' = [st EXCEPT ![c] = "running"] /\ depth'[c] >= 1
        /\ Lend(t, c)
    <3>1. depth' = [depth EXCEPT ![c] = 1]
      BY <1>6 DEF run_async_inline, Made
    <3>2. depth'[c] >= 1
      BY <3>1, SMTT(30) DEF FrameTypes
    <3> QED
      BY <1>6, <3>2 DEF run_async_inline, Made, Goto
  <2>3. tls' = [tls EXCEPT ![t] = EnvOf'[c]]
    BY <1>6, <2>1 DEF run_async_inline, Resumed, Root
  <2>4. Others(c) /\ StateTypes' /\ HasFrames' /\ st'[c] = "running"
    BY <2>1, <2>2, Moves DEF States
  <2>5. st[c] # "running"
    BY <2>2
  <2> QED
    BY <2>1, <2>2, <2>3, <2>4, <2>5, Enters
<1>7. ASSUME NEW t \in Threads, NEW c \in Chains, NEW k \in Kinds, call(t, c, k) PROVE IInv'
  <2> DEFINE f == [kind |-> k, mr |-> tls[t], env |-> Deepest(c).env, via |-> "call"]
  <2>1. On(t, c) /\ Push(c, f) /\ UNCHANGED <<level, top, st>> /\ tls' = [tls EXCEPT ![t] = f.env]
    BY <1>7 DEF call, Body, Resumed
  <2>2. /\ st[c] = "running" /\ depth[c] >= 1 /\ tls[t] = EnvOf[c] /\ Deepest(c) \in Frame
        /\ EnvOf[c] = Deepest(c).env
    BY <2>1, InControl DEF EnvOf
  <2>3. f \in Frame /\ f.mr = Deepest(c).env /\ f.env = Deepest(c).env /\ f.via = "call"
    BY <2>2 DEF Frame
  <2> HIDE DEF f
  <2>4. /\ FrameTypes' /\ Lineage' /\ OtherFrames(c)
        /\ EnvOf'[c] = f.env /\ f.env \in Resources /\ depth'[c] = depth[c] + 1
    BY <2>1, <2>2, <2>3, NextFrame
  <2>5. depth'[c] >= 1
    BY <2>2, <2>4, SMTT(30) DEF FrameTypes
  <2>6. Others(c) /\ StateTypes' /\ HasFrames' /\ st'[c] = st[c]
    BY <2>1, <2>2, <2>4, <2>5, Stays
  <2> QED
    BY <2>1, <2>4, <2>6, Continues
<1>8. ASSUME NEW t \in Threads, NEW c \in Chains, NEW k \in Kinds, run(t, c, k) PROVE IInv'
  <2> DEFINE f == RunChild(c, k, "run")
  <2>1. On(t, c) /\ Push(c, f) /\ UNCHANGED <<level, top, st>> /\ tls' = [tls EXCEPT ![t] = f.env]
    BY <1>8 DEF run, Body, Resumed
  <2>2. st[c] = "running" /\ depth[c] >= 1
    BY <2>1, InControl
  <2>3. /\ f \in Frame /\ f.env = Awaitable(c, depth[c] + 1)
        /\ f.mr = Wrapper(c, depth[c] + 1) /\ f.via = "run"
    <3>1. depth[c] + 1 \in Depths
      BY <2>1, <2>2, FramesAssumption, SMTT(30) DEF Push, Depths, FrameTypes
    <3> QED
      BY <3>1, ResourceTypes DEF RunChild, Frame
  <2> HIDE DEF f
  <2>4. /\ FrameTypes' /\ Lineage' /\ OtherFrames(c)
        /\ EnvOf'[c] = f.env /\ f.env \in Resources /\ depth'[c] = depth[c] + 1
    BY <2>1, <2>2, <2>3, NextFrame
  <2>5. depth'[c] >= 1
    BY <2>2, <2>4, SMTT(30) DEF FrameTypes
  <2>6. Others(c) /\ StateTypes' /\ HasFrames' /\ st'[c] = st[c]
    BY <2>1, <2>2, <2>4, <2>5, Stays
  <2> QED
    BY <2>1, <2>4, <2>6, Continues
<1>9. ASSUME NEW t \in Threads, NEW c \in Chains, NEW k \in Kinds, run_ex(t, c, k) PROVE IInv'
  <2> DEFINE f == RunChild(c, k, "run_ex")
  <2>1. On(t, c) /\ Push(c, f) /\ Suspend(t) /\ st' = [st EXCEPT ![c] = "start"]
    BY <1>9 DEF run_ex, Body, Goto
  <2>2. st[c] = "running" /\ depth[c] >= 1
    BY <2>1, InControl
  <2>3. /\ f \in Frame /\ f.env = Awaitable(c, depth[c] + 1)
        /\ f.mr = Wrapper(c, depth[c] + 1) /\ f.via = "run_ex"
    <3>1. depth[c] + 1 \in Depths
      BY <2>1, <2>2, FramesAssumption, SMTT(30) DEF Push, Depths, FrameTypes
    <3> QED
      BY <3>1, ResourceTypes DEF RunChild, Frame
  <2> HIDE DEF f
  <2>4. FrameTypes' /\ Lineage' /\ OtherFrames(c) /\ depth'[c] = depth[c] + 1
    BY <2>1, <2>2, <2>3, NextFrame
  <2>5. depth'[c] >= 1
    BY <2>2, <2>4, SMTT(30) DEF FrameTypes
  <2>6. Others(c) /\ StateTypes' /\ HasFrames'
    BY <2>1, <2>4, <2>5, Moves DEF States
  <2> QED
    BY <2>1, <2>4, <2>6, Leaves
<1>10. ASSUME NEW t \in Threads, NEW c \in Chains, wait(t, c) PROVE IInv'
  <2>1. /\ On(t, c) /\ Suspend(t) /\ st' = [st EXCEPT ![c] = "waiting"]
        /\ UNCHANGED <<frame, depth>>
    BY <1>10 DEF wait, Body, Goto
  <2>2. FrameTypes' /\ Lineage' /\ OtherFrames(c) /\ depth'[c] = depth[c]
    BY <2>1, SameFrames
  <2>3. depth'[c] >= 1
    BY <2>1, <2>2, InControl
  <2>4. Others(c) /\ StateTypes' /\ HasFrames'
    BY <2>1, <2>2, <2>3, Moves DEF States
  <2> QED
    BY <2>1, <2>2, <2>4, Leaves
<1>11. ASSUME NEW t \in Threads, NEW c \in Chains, end_child(t, c) PROVE IInv'
  <2>1. /\ On(t, c) /\ depth[c] >= 2 /\ Pop(c) /\ UNCHANGED <<level, top, st>>
        /\ tls' = [tls EXCEPT ![t] = frame[c][depth[c] - 1].env]
    BY <1>11, SMTT(30) DEF end_child, Resumed, FrameTypes
  <2>2. /\ FrameTypes' /\ Lineage' /\ OtherFrames(c) /\ depth'[c] = depth[c] - 1
        /\ EnvOf'[c] = frame[c][depth[c] - 1].env /\ EnvOf'[c] \in Resources
    BY <2>1, LastFrame, SMTT(30) DEF FrameTypes
  <2>3. st[c] = "running" /\ depth'[c] >= 1
    BY <2>1, <2>2, InControl, SMTT(30) DEF FrameTypes
  <2>4. Others(c) /\ StateTypes' /\ HasFrames' /\ st'[c] = st[c]
    BY <2>1, <2>2, <2>3, Stays
  <2> QED
    BY <2>1, <2>2, <2>4, Continues
<1>12. ASSUME NEW t \in Threads, NEW c \in Chains, end_run_ex(t, c) PROVE IInv'
  <2>1. /\ On(t, c) /\ Suspend(t) /\ st' = [st EXCEPT ![c] = "back"]
        /\ UNCHANGED <<frame, depth>> /\ Deepest(c).via = "run_ex"
    BY <1>12 DEF end_run_ex, Goto
  <2>2. FrameTypes' /\ Lineage' /\ OtherFrames(c) /\ depth'[c] = depth[c]
    BY <2>1, SameFrames
  <2>3. depth[c] >= 2
    <3>1. depth[c] \in 1 .. depth[c]
      BY <2>1, InControl, SMTT(30) DEF FrameTypes
    <3>2. depth[c] # 1
      BY <2>1, <3>1 DEF Lineage, Deepest
    <3> QED
      BY <3>1, <3>2, SMTT(30)
  <2>4. Others(c) /\ StateTypes' /\ HasFrames'
    BY <2>1, <2>2, <2>3, Moves DEF States
  <2> QED
    BY <2>1, <2>2, <2>4, Leaves
<1>13. ASSUME NEW t \in Threads, NEW c \in Chains, end_chain(t, c) PROVE IInv'
  <2>1. On(t, c) /\ depth[c] = 1 /\ Pop(c) /\ Suspend(t) /\ st' = [st EXCEPT ![c] = "over"]
    BY <1>13 DEF end_chain, Goto
  <2>2. FrameTypes' /\ Lineage' /\ OtherFrames(c)
    BY <2>1, LastFrame, SMTT(30) DEF FrameTypes
  <2>3. Others(c) /\ StateTypes' /\ HasFrames'
    BY <2>1, <2>2, Moves DEF States
  <2> QED
    BY <2>1, <2>2, <2>3, Leaves
<1>14. ASSUME NEW t \in Threads, NEW c \in Chains, resume(t, c) PROVE IInv'
  <2>1. /\ st[c] \in {"start", "waiting"} /\ Lend(t, c) /\ st' = [st EXCEPT ![c] = "running"]
        /\ tls' = [tls EXCEPT ![t] = Deepest(c).env] /\ UNCHANGED <<frame, depth>>
    BY <1>14 DEF resume, Goto, Resumed
  <2>2. /\ FrameTypes' /\ Lineage' /\ EnvOf' = EnvOf /\ EnvOf[c] = Deepest(c).env
        /\ OtherFrames(c) /\ depth'[c] = depth[c]
    BY <2>1, SameFrames DEF EnvOf
  <2>3. EnvOf[c] \in Resources
    <3>1. depth[c] \in 1 .. depth[c]
      BY <2>1, SMTT(30) DEF HasFrames, FrameTypes
    <3> QED
      BY <2>2, <3>1 DEF FrameTypes, Deepest, Frame
  <2>4. st[c] # "running" /\ depth'[c] >= 1
    BY <2>1, <2>2 DEF HasFrames
  <2>5. Others(c) /\ StateTypes' /\ HasFrames' /\ st'[c] = "running"
    BY <2>1, <2>2, <2>4, Moves DEF States
  <2> QED
    BY <2>1, <2>2, <2>3, <2>4, <2>5, Enters
<1>15. ASSUME NEW t \in Threads, NEW c \in Chains, resume_back(t, c) PROVE IInv'
  <2>1. /\ st[c] = "back" /\ Lend(t, c) /\ st' = [st EXCEPT ![c] = "running"] /\ Pop(c)
        /\ tls' = [tls EXCEPT ![t] = frame[c][depth[c] - 1].env]
    BY <1>15 DEF resume_back, Goto, Resumed
  <2>2. depth[c] >= 2 /\ depth[c] >= 1
    BY <2>1, SMTT(30) DEF HasFrames, FrameTypes
  <2>3. /\ FrameTypes' /\ Lineage' /\ OtherFrames(c) /\ depth'[c] = depth[c] - 1
        /\ EnvOf'[c] = frame[c][depth[c] - 1].env /\ EnvOf'[c] \in Resources
    BY <2>1, <2>2, LastFrame
  <2>4. st[c] # "running" /\ depth'[c] >= 1
    BY <2>1, <2>2, <2>3, SMTT(30) DEF FrameTypes
  <2>5. Others(c) /\ StateTypes' /\ HasFrames' /\ st'[c] = "running"
    BY <2>1, <2>3, <2>4, Moves DEF States
  <2> QED
    BY <2>1, <2>3, <2>4, <2>5, Enters
<1>16. ASSUME NEW t \in Threads, NEW c \in Chains, abandon(t, c) PROVE IInv'
  <2>1. FrameTypes' /\ Lineage' /\ OtherFrames(c)
    BY <1>16, NoFrames DEF abandon
  <2>2. /\ st[c] # "running" /\ st' = [st EXCEPT ![c] = "over"]
        /\ UNCHANGED thread_vars
    BY <1>16 DEF abandon, Goto
  <2>3. Others(c) /\ StateTypes' /\ HasFrames'
    BY <2>1, <2>2, Moves DEF States
  <2> QED
    BY <2>1, <2>2, <2>3, Elsewhere
<1>17. CASE UNCHANGED vars
  BY <1>1, <1>17 DEF vars, thread_vars
<1> HIDE DEF IInv
<1> QED
  BY <1>2, <1>3, <1>4, <1>5, <1>6, <1>7, <1>8, <1>9, <1>10, <1>11, <1>12, <1>13, <1>14, <1>15,
     <1>16, <1>17 DEF Next, BodyStep

-----------------------------------------------------------------------------
\* While a coroutine's body runs, the thread's frame allocator is that of its
\* environment, and an idle thread has none.
THEOREM AllocatorFollowsTheChain == Spec => []AllocatorIsTheChains
<1>1. IInv => AllocatorIsTheChains
  <2> SUFFICES ASSUME IInv, NEW t \in Threads
               PROVE  tls[t] = IF top[t] = 0 THEN Nil ELSE Deepest(level[t][top[t]].ch).env
    BY DEF AllocatorIsTheChains
  <2>1. top[t] # 0 => top[t] \in 1 .. top[t]
    BY SMTT(30) DEF IInv, LevelTypes
  <2>2. top[t] # 0 => level[t][top[t]].ch \in Chains
    BY <2>1 DEF IInv, LevelsOK, Level
  <2> QED
    BY <2>2 DEF IInv, LevelsOK, EnvOf
<1> QED
  BY Initially, Inductive, <1>1, PTL DEF Spec

\* The resource that a frame came from, and the one that its environment names, outlive
\* it.
THEOREM EveryFrameCanBeFreed == Spec => []FramesCanBeFreed
<1>1. IInv => FramesCanBeFreed
  <2> SUFFICES ASSUME IInv, NEW c \in Chains, NEW d \in 1 .. depth[c]
               PROVE  Alive(frame[c][d].mr) /\ Alive(frame[c][d].env)
    BY DEF FramesCanBeFreed
  <2>1. depth[c] \in Nat /\ depth[c] > 0
    BY SMTT(30) DEF IInv, FrameTypes
  <2>2. ASSUME NEW r, OfChain(c, d, r) PROVE Alive(r)
    <3>1. CASE r = get_resource(c)
      BY <2>1, <3>1 DEF get_resource, Alive
    <3>2. CASE FromRun(c, d, r)
      <4>1. PICK e \in 2 .. d : r = Awaitable(c, e) /\ frame[c][e].via \in {"run", "run_ex"}
        BY <3>2 DEF FromRun
      <4>2. e \in 2 .. depth[c]
        BY <2>1, SMTT(30)
      <4> QED
        BY <4>1, <4>2 DEF Alive
    <3> QED
      BY <2>2, <3>1, <3>2 DEF OfChain
  <2>3. CASE frame[c][d].mr = Wrapper(c, d) /\ frame[c][d].via \in {"run", "run_ex"}
    <3>1. d \in 2 .. depth[c]
      BY <2>1, <2>3, SMTT(30) DEF IInv, Lineage
    <3>2. Alive(frame[c][d].mr)
      BY <2>3, <3>1 DEF Alive
    <3> QED
      BY <2>2, <3>2 DEF IInv, Lineage
  <2> QED
    BY <2>2, <2>3 DEF IInv, Lineage
<1> QED
  BY Initially, Inductive, <1>1, PTL DEF Spec
-----------------------------------------------------------------------------
(* Stops.                                                                  *)

StopTypes ==
    /\ exc \in [Chains -> {"none", "error", "sentinel"}]
    /\ handled \in [Chains -> {"no", "value", "error", "sentinel"}]
    /\ late \in [Chains -> Nat] /\ stop \subseteq Chains /\ doomed \subseteq Chains

\* A chain that has to end with the stop: its first coroutine is a quitter, and when
\* that one has the control the sentinel is on its way.
Doomed(c) ==
    /\ c \in stop /\ handled[c] \in {"no", "sentinel"}
    /\ depth[c] > 0 => frame[c][1].kind = "quitter"
    /\ st[c] = "running" /\ depth[c] = 1 => exc[c] = "sentinel"

\* A chain that began an operation after the stop: the sentinel is on its way whenever
\* it has the control, and nobody is there who would catch it.
Unwinds(c) ==
    /\ late[c] = 1 /\ st[c] # "new" /\ c \in stop /\ AllQuitters(c)
    /\ st[c] = "running" => exc[c] = "sentinel"

\* No handler was called before the first coroutine ended.
Heeds(c) ==
    /\ st[c] = "new" => depth[c] = 0 /\ c \notin doomed
    /\ st[c] = "new" \/ depth[c] > 0 => handled[c] = "no"
    /\ c \in doomed => Doomed(c)
    /\ late[c] # 0 => Unwinds(c)

SInv == IInv /\ StopTypes /\ \A c \in Chains : Heeds(c)

\* What the others do is nothing to a chain.
SameChain(c) ==
    /\ frame'[c] = frame[c] /\ depth'[c] = depth[c] /\ st'[c] = st[c] /\ exc'[c] = exc[c]
    /\ handled'[c] = handled[c] /\ late'[c] = late[c]
    /\ (c \in stop' <=> c \in stop) /\ (c \in doomed' <=> c \in doomed)

LEMMA LeftAlone ==
    ASSUME NEW c \in Chains, Heeds(c), SameChain(c)
    PROVE  Heeds(c)'
<1>1. AllQuitters(c) => AllQuitters(c)'
  BY DEF SameChain, AllQuitters
<1> QED
  BY <1>1 DEF SameChain, Heeds, Doomed, Unwinds

\* The body of a coroutine runs only in a chain that no stop has to end yet, or above
\* the quitter that will.
LEMMA BodyRuns ==
    ASSUME SInv, NEW t \in Threads, NEW c \in Chains, On(t, c),
           \/ exc[c] \in {"none", "error"}
           \/ exc[c] = "sentinel" /\ Deepest(c).kind = "task"
    PROVE  /\ st[c] = "running" /\ depth[c] \in 1 .. MaxDepth /\ handled[c] = "no"
           /\ late[c] = 0 /\ (c \in doomed => depth[c] >= 2 /\ frame[c][1].kind = "quitter" /\ c \in stop)
<1>1. st[c] = "running" /\ depth[c] \in 1 .. MaxDepth /\ depth[c] \in 1 .. depth[c]
  BY InControl, SMTT(30) DEF SInv, IInv, FrameTypes
<1>2. Heeds(c)
  BY DEF SInv
<1>3. late[c] = 0
  BY <1>1, <1>2 DEF Heeds, Unwinds, AllQuitters, Deepest
<1>4. c \in doomed => depth[c] >= 2 /\ frame[c][1].kind = "quitter" /\ c \in stop
  BY <1>1, <1>2, SMTT(30) DEF Heeds, Doomed, Deepest
<1> QED
  BY <1>1, <1>2, <1>3, <1>4, SMTT(30) DEF Heeds

\* A chain of such a coroutine goes on with a child more, or suspends.
LEMMA BodyGoesOn ==
    ASSUME NEW c \in Chains, NEW d \in Nat, d >= 1,
           handled'[c] = "no", late'[c] = 0, st'[c] # "new", depth'[c] \in Nat, depth'[c] >= d,
           c \in doomed' => d >= 2 /\ frame'[c][1].kind = "quitter" /\ c \in stop'
    PROVE  Heeds(c)'
  BY SMTT(30) DEF Heeds, Doomed

\* A quitter gets the control of a stopped chain: the sentinel is on its way.
LEMMA QuitterResumed ==
    ASSUME StopTypes, NEW t \in Threads, NEW c \in Chains, NEW f, NEW x, Resumed(t, c, f, x)
    PROVE  f.kind = "quitter" /\ c \in stop => exc'[c] = "sentinel"
  BY DEF StopTypes, Resumed, Quits

\* A chain comes back to one of its coroutines, at depth n, and the deeper ones are gone.
LEMMA ComesBack ==
    ASSUME SInv, NEW t \in Threads, NEW c \in Chains, st[c] # "new", NEW n \in 1 .. depth[c], NEW x,
           Resumed(t, c, frame[c][n], x), depth'[c] = n, \A d \in 1 .. n : frame'[c][d] = frame[c][d],
           st'[c] = "running", handled'[c] = handled[c], late'[c] = late[c],
           UNCHANGED <<stop, doomed>>
    PROVE  Heeds(c)'
<1>1. Heeds(c) /\ StopTypes /\ depth[c] \in Nat /\ n \in Nat /\ n >= 1 /\ n \in 1 .. n
  BY SMTT(30) DEF SInv, IInv, FrameTypes
<1>2. frame[c][n].kind = "quitter" /\ c \in stop => exc'[c] = "sentinel"
  BY <1>1, QuitterResumed
<1>3. c \in doomed => Doomed(c)'
  <2>1. 1 \in 1 .. n
    BY <1>1, SMTT(30)
  <2> QED
    BY <1>1, <1>2, <2>1, SMTT(30) DEF Heeds, Doomed
<1>4. late[c] # 0 => Unwinds(c)'
  BY <1>1, <1>2, SMTT(30) DEF Heeds, Unwinds, AllQuitters
<1>5. handled[c] = "no"
  BY <1>1, SMTT(30) DEF Heeds
<1> QED
  BY <1>1, <1>3, <1>4, <1>5 DEF Heeds

\* What a child more leaves of the frames, and what a child less.
LEMMA Pushed ==
    ASSUME FrameTypes, NEW c \in Chains, NEW f, Push(c, f), depth[c] >= 1
    PROVE  /\ depth'[c] = depth[c] + 1 /\ \A d \in 1 .. depth[c] : frame'[c][d] = frame[c][d]
           /\ \A x \in Chains \ {c} : frame'[x] = frame[x] /\ depth'[x] = depth[x]
  BY SMTT(30) DEF FrameTypes, Push, Depths

LEMMA PoppedFrame ==
    ASSUME FrameTypes, NEW c \in Chains, Pop(c), depth[c] >= 1
    PROVE  /\ depth'[c] = depth[c] - 1 /\ \A d \in 1 .. depth[c] - 1 : frame'[c][d] = frame[c][d]
           /\ \A x \in Chains \ {c} : frame'[x] = frame[x] /\ depth'[x] = depth[x]
  BY SMTT(30) DEF FrameTypes, Pop, Depths

-----------------------------------------------------------------------------
\* Every step of a chain keeps what the stops need.
StopsKept(c) == StopTypes' /\ Heeds(c)' /\ \A x \in Chains \ {c} : SameChain(x)

LEMMA LaunchStep ==
    ASSUME SInv, NEW t \in Threads, NEW c \in Chains, NEW k \in Kinds,
           run_async_inline(t, c, k) \/ run_async_posted(t, c, k)
    PROVE  StopsKept(c)
<1>1. StopTypes /\ Heeds(c) /\ FrameTypes /\ StateTypes
  BY DEF SInv, IInv
<1>2. Made(c, k) /\ UNCHANGED <<stop, late, handled>>
  BY DEF run_async_inline, run_async_posted
<1>3. /\ st[c] = "new" /\ st' = [st EXCEPT ![c] = st'[c]] /\ st'[c] \in {"running", "start"}
      /\ st'[c] = "start" => exc' = exc
      /\ st'[c] = "running" => Resumed(t, c, Root(c, k), "none")
  BY <1>1, <1>2 DEF run_async_inline, run_async_posted, Made, Goto, StateTypes
<1>4. /\ depth'[c] = 1 /\ frame'[c][1] = Root(c, k)
      /\ \A x \in Chains \ {c} : frame'[x] = frame[x] /\ depth'[x] = depth[x]
  BY <1>1, <1>2, FramesAssumption, SMTT(30) DEF Made, FrameTypes, Depths
<1>5. /\ doomed' \subseteq Chains /\ \A x \in Chains \ {c} : x \in doomed' <=> x \in doomed
      /\ c \in doomed' => k = "quitter" /\ c \in stop
  BY <1>1, <1>2, <1>3 DEF Made, Heeds, StopTypes
<1>6. /\ exc' \in [Chains -> {"none", "error", "sentinel"}]
      /\ \A x \in Chains \ {c} : exc'[x] = exc[x]
  BY <1>1, <1>3 DEF StopTypes, Resumed
<1>7. c \in doomed' /\ st'[c] = "running" => exc'[c] = "sentinel"
  BY <1>1, <1>3, <1>5, QuitterResumed DEF Root
<1>8. StopTypes'
  BY <1>1, <1>2, <1>5, <1>6 DEF StopTypes
<1>9. Heeds(c)'
  BY <1>1, <1>2, <1>3, <1>4, <1>5, <1>7, SMTT(30) DEF Heeds, Doomed, Unwinds, Root
<1>10. \A x \in Chains \ {c} : SameChain(x)
  BY <1>1, <1>2, <1>3, <1>4, <1>5, <1>6 DEF SameChain, StateTypes
<1> QED
  BY <1>8, <1>9, <1>10 DEF StopsKept

\* call(), run() and run(ex).
LEMMA ChildStep ==
    ASSUME SInv, NEW t \in Threads, NEW c \in Chains, NEW k \in Kinds,
           call(t, c, k) \/ run(t, c, k) \/ run_ex(t, c, k)
    PROVE  StopsKept(c)
<1>1. StopTypes /\ FrameTypes /\ StateTypes
  BY DEF SInv, IInv
<1>2. /\ On(t, c) /\ exc[c] = "none" /\ UNCHANGED <<stop, doomed, late, handled>>
      /\ \E f : Push(c, f)
      /\ st' = st \/ st' = [st EXCEPT ![c] = "start"]
  BY DEF call, run, run_ex, Body, stop_vars, Goto
<1>3. \/ exc' = exc
      \/ exc' = [exc EXCEPT ![c] = "none"] \/ exc' = [exc EXCEPT ![c] = "sentinel"]
  BY DEF call, run, run_ex, Resumed
<1>4. /\ st[c] = "running" /\ depth[c] \in 1 .. MaxDepth /\ handled[c] = "no" /\ late[c] = 0
      /\ c \in doomed => depth[c] >= 2 /\ frame[c][1].kind = "quitter" /\ c \in stop
  BY <1>2, BodyRuns
<1>5. /\ depth'[c] = depth[c] + 1 /\ \A d \in 1 .. depth[c] : frame'[c][d] = frame[c][d]
      /\ \A x \in Chains \ {c} : frame'[x] = frame[x] /\ depth'[x] = depth[x]
  BY <1>1, <1>2, <1>4, Pushed, SMTT(30)
<1>6. StopTypes'
  BY <1>1, <1>2, <1>3 DEF StopTypes
<1>7. Heeds(c)'
  <2>1. /\ st'[c] # "new" /\ frame'[c][1] = frame[c][1] /\ depth[c] \in Nat /\ depth[c] >= 1
        /\ depth'[c] \in Nat /\ depth'[c] >= depth[c]
    BY <1>1, <1>2, <1>4, <1>5, SMTT(30) DEF StateTypes
  <2> QED
    BY <1>2, <1>4, <2>1, BodyGoesOn
<1>8. \A x \in Chains \ {c} : SameChain(x)
  BY <1>1, <1>2, <1>3, <1>5 DEF SameChain, StateTypes, StopTypes
<1> QED
  BY <1>6, <1>7, <1>8 DEF StopsKept

\* A body throws, catches or waits.
LEMMA BodyStops ==
    ASSUME SInv, NEW t \in Threads, NEW c \in Chains,
           throw(t, c) \/ run_throws(t, c) \/ catch(t, c) \/ wait(t, c)
    PROVE  StopsKept(c)
<1>1. StopTypes /\ FrameTypes /\ StateTypes
  BY DEF SInv, IInv
<1>2. /\ On(t, c) /\ UNCHANGED <<frame, depth, stop, doomed, handled>>
      /\ \/ exc[c] \in {"none", "error"}
         \/ exc[c] = "sentinel" /\ Deepest(c).kind = "task"
      /\ exc' = exc \/ exc' = [exc EXCEPT ![c] = "error"] \/ exc' = [exc EXCEPT ![c] = "none"]
  BY DEF throw, run_throws, catch, wait, Body, stop_vars
<1>3. \/ st' = st /\ late' = late
      \/ /\ st' = [st EXCEPT ![c] = "waiting"]
         /\ late' = IF c \in stop /\ AllQuitters(c) THEN [late EXCEPT ![c] = @ + 1] ELSE late
  BY DEF throw, run_throws, catch, wait, Goto, stop_vars
<1>4. /\ st[c] = "running" /\ depth[c] \in 1 .. MaxDepth /\ handled[c] = "no" /\ late[c] = 0
      /\ c \in doomed => depth[c] >= 2 /\ frame[c][1].kind = "quitter" /\ c \in stop
  BY <1>2, BodyRuns
<1>5. StopTypes'
  BY <1>1, <1>2, <1>3, SMTT(30) DEF StopTypes
<1>6. Heeds(c)'
  <2>1. CASE late'[c] = 0
    <3>1. /\ st'[c] # "new" /\ depth[c] \in Nat /\ depth[c] >= 1
          /\ depth'[c] \in Nat /\ depth'[c] >= depth[c]
      BY <1>1, <1>2, <1>3, <1>4, SMTT(30) DEF StateTypes
    <3> QED
      BY <1>2, <1>4, <2>1, <3>1, BodyGoesOn
  <2>2. CASE late'[c] # 0
    <3>1. st'[c] = "waiting" /\ late'[c] = 1 /\ c \in stop /\ AllQuitters(c)
      BY <1>1, <1>3, <1>4, <2>2, SMTT(30) DEF StateTypes, StopTypes
    <3>2. AllQuitters(c)'
      BY <1>2, <3>1 DEF AllQuitters
    <3> QED
      BY <1>2, <1>4, <3>1, <3>2 DEF Heeds, Doomed, Unwinds
  <2> QED
    BY <2>1, <2>2
<1>7. \A x \in Chains \ {c} : SameChain(x)
  BY <1>1, <1>2, <1>3 DEF SameChain, StateTypes, StopTypes
<1> QED
  BY <1>5, <1>6, <1>7 DEF StopsKept

\* A child ends, or an executor resumes the chain: a coroutine of it goes on.
LEMMA GoesOnStep ==
    ASSUME SInv, NEW t \in Threads, NEW c \in Chains,
           end_child(t, c) \/ resume(t, c) \/ resume_back(t, c)
    PROVE  StopsKept(c)
<1>1. StopTypes /\ FrameTypes /\ StateTypes /\ HasFrames
  BY DEF SInv, IInv
<1>2. UNCHANGED <<stop, doomed, late, handled>>
  BY DEF end_child, resume, resume_back, stop_vars
<1>3. PICK n \in 1 .. depth[c], x \in {"none", "error", "sentinel"} :
          /\ Resumed(t, c, frame[c][n], x)
          /\ \/ n = depth[c] /\ UNCHANGED <<frame, depth>>
             \/ n = depth[c] - 1 /\ Pop(c)
          /\ st[c] # "new" /\ st' = [st EXCEPT ![c] = "running"]
  <2>1. CASE end_child(t, c)
    <3>1. depth[c] - 1 \in 1 .. depth[c] /\ st[c] = "running" /\ exc[c] \in {"none", "error", "sentinel"}
      BY <1>1, <2>1, InControl, SMTT(30) DEF end_child, FrameTypes, SInv, StopTypes
    <3>2. st' = [st EXCEPT ![c] = "running"]
      BY <1>1, <2>1, <3>1 DEF end_child, StateTypes
    <3> QED
      BY <2>1, <3>1, <3>2 DEF end_child
  <2>2. CASE resume(t, c)
    <3>1. depth[c] \in 1 .. depth[c]
      BY <1>1, <2>2, SMTT(30) DEF resume, FrameTypes, HasFrames
    <3> QED
      BY <2>2, <3>1 DEF resume, Goto, Deepest
  <2>3. CASE resume_back(t, c)
    <3>1. depth[c] - 1 \in 1 .. depth[c] /\ exc[c] \in {"none", "error", "sentinel"}
      BY <1>1, <2>3, SMTT(30) DEF resume_back, FrameTypes, HasFrames, StopTypes
    <3> QED
      BY <2>3, <3>1 DEF resume_back, Goto
  <2> QED
    BY <2>1, <2>2, <2>3
<1>4. /\ depth'[c] = n /\ \A d \in 1 .. n : frame'[c][d] = frame[c][d]
      /\ \A y \in Chains \ {c} : frame'[y] = frame[y] /\ depth'[y] = depth[y]
  <2>1. depth[c] \in Nat /\ depth[c] >= 1
    BY <1>1, SMTT(30) DEF FrameTypes
  <2>2. CASE n = depth[c] /\ UNCHANGED <<frame, depth>>
    BY <2>2
  <2>3. CASE n = depth[c] - 1 /\ Pop(c)
    BY <1>1, <2>1, <2>3, PoppedFrame
  <2> QED
    BY <1>3, <2>2, <2>3
<1>5. /\ exc' \in [Chains -> {"none", "error", "sentinel"}]
      /\ \A y \in Chains \ {c} : exc'[y] = exc[y]
  BY <1>1, <1>3 DEF StopTypes, Resumed
<1>6. StopTypes'
  BY <1>1, <1>2, <1>5 DEF StopTypes
<1>7. Heeds(c)'
  <2>1. st'[c] = "running" /\ handled'[c] = handled[c] /\ late'[c] = late[c]
    BY <1>1, <1>2, <1>3 DEF StateTypes
  <2> QED
    BY <1>2, <1>3, <1>4, <2>1, ComesBack
<1>8. \A y \in Chains \ {c} : SameChain(y)
  BY <1>1, <1>2, <1>3, <1>4, <1>5 DEF SameChain, StateTypes
<1> QED
  BY <1>6, <1>7, <1>8 DEF StopsKept

\* The chain ends, is given up, was never launched, or waits for its parent's executor.
LEMMA EndStep ==
    ASSUME SInv, NEW t \in Threads, NEW c \in Chains,
           end_chain(t, c) \/ abandon(t, c) \/ run_async_throws(t, c) \/ end_run_ex(t, c)
    PROVE  StopsKept(c)
<1>1. StopTypes /\ FrameTypes /\ StateTypes /\ Heeds(c)
  BY DEF SInv, IInv
<1>2. UNCHANGED <<stop, doomed, late>> /\ st[c] \in {"new", "running", "start", "waiting", "back"}
  BY InControl DEF SInv, end_chain, abandon, run_async_throws, end_run_ex, stop_vars
<1>3. st' = [st EXCEPT ![c] = "over"] \/ st' = [st EXCEPT ![c] = "back"]
  BY DEF end_chain, abandon, run_async_throws, end_run_ex, Goto
<1>4. exc' = exc \/ exc' = [exc EXCEPT ![c] = "none"]
  BY DEF end_chain, abandon, run_async_throws, end_run_ex
<1>5. /\ \/ depth'[c] = 0
         \/ depth'[c] = depth[c] /\ frame'[c] = frame[c] /\ handled'[c] = handled[c]
      /\ \A x \in Chains \ {c} : frame'[x] = frame[x] /\ depth'[x] = depth[x]
  BY <1>1, SMTT(30) DEF end_chain, abandon, run_async_throws, end_run_ex, Pop, FrameTypes
<1>6. \/ handled' = handled
      \/ /\ st[c] = "running" /\ depth[c] = 1 /\ depth'[c] = 0
         /\ handled' = [handled EXCEPT ![c] = IF exc[c] = "none" THEN "value" ELSE exc[c]]
  BY <1>1, InControl, SMTT(30) DEF SInv, end_chain, abandon, run_async_throws, end_run_ex, Pop, FrameTypes
<1>7. StopTypes'
  BY <1>1, <1>2, <1>4, <1>6 DEF StopTypes
<1>8. Heeds(c)'
  <2>1. st'[c] \in {"over", "back"}
    BY <1>1, <1>3 DEF StateTypes
  <2>2. c \in doomed => Doomed(c)'
    BY <1>1, <1>2, <1>5, <1>6, <2>1, SMTT(30) DEF Heeds, Doomed, StopTypes
  <2>3. AllQuitters(c) => AllQuitters(c)'
    BY <1>5, SMTT(30) DEF AllQuitters
  <2>4. late[c] # 0 => Unwinds(c)'
    BY <1>1, <1>2, <2>1, <2>3 DEF Heeds, Unwinds
  <2>5. depth'[c] > 0 => handled'[c] = "no"
    BY <1>1, <1>5, SMTT(30) DEF Heeds
  <2> QED
    BY <1>2, <2>1, <2>2, <2>4, <2>5 DEF Heeds
<1>9. \A x \in Chains \ {c} : SameChain(x)
  BY <1>1, <1>2, <1>3, <1>4, <1>5, <1>6 DEF SameChain, StateTypes, StopTypes
<1> QED
  BY <1>7, <1>8, <1>9 DEF StopsKept

LEMMA RequestStep ==
    ASSUME SInv, NEW c \in Chains, request_stop(c)
    PROVE  StopsKept(c)
<1>1. StopTypes /\ FrameTypes /\ Heeds(c)
  BY DEF SInv, IInv
<1>2. /\ c \notin stop /\ stop' = stop \cup {c}
      /\ UNCHANGED <<frame, depth, st, exc, late, handled>>
  BY DEF request_stop
<1>3. late[c] = 0 /\ c \notin doomed
  BY <1>1, <1>2 DEF Heeds, Unwinds, Doomed
<1>4. /\ doomed' = doomed \cup {c} \/ doomed' = doomed
      /\ c \in doomed' => /\ depth[c] > 0 /\ frame[c][1].kind = "quitter"
                          /\ st[c] # "running" \/ depth[c] > 1
  BY <1>3 DEF request_stop
<1>5. StopTypes'
  BY <1>1, <1>2, <1>4 DEF StopTypes
<1>6. Heeds(c)'
  BY <1>1, <1>2, <1>3, <1>4, SMTT(30) DEF Heeds, Doomed, FrameTypes
<1>7. \A x \in Chains \ {c} : SameChain(x)
  BY <1>2, <1>4 DEF SameChain
<1> QED
  BY <1>5, <1>6, <1>7 DEF StopsKept

LEMMA SInitially == Init => SInv
<1> SUFFICES ASSUME Init PROVE SInv
  OBVIOUS
<1>1. IInv
  BY Initially
<1>2. StopTypes
  BY DEF Init, StopTypes
<1>3. \A c \in Chains : Heeds(c)
  BY DEF Init, Heeds
<1> QED
  BY <1>1, <1>2, <1>3 DEF SInv

\* SInv is inductive.
LEMMA SInductive == SInv /\ [Next]_vars => SInv'
<1> SUFFICES ASSUME SInv, [Next]_vars PROVE SInv'
  OBVIOUS
<1>1. IInv'
  BY Inductive DEF SInv
<1>2. ASSUME NEW c \in Chains, StopsKept(c) PROVE SInv'
  <2>1. \A x \in Chains \ {c} : Heeds(x)'
    BY <1>2, LeftAlone DEF StopsKept, SInv
  <2> QED
    BY <1>1, <1>2, <2>1 DEF StopsKept, SInv
<1>3. CASE UNCHANGED vars
  <2>1. StopTypes' /\ \A c \in Chains : SameChain(c)
    BY <1>3 DEF vars, stop_vars, SInv, StopTypes, SameChain
  <2> QED
    BY <1>1, <2>1, LeftAlone DEF SInv
<1>4. CASE Next
  <2>1. PICK c \in Chains :
            \/ request_stop(c)
            \/ \E t \in Threads :
                   \/ BodyStep(t, c) \/ resume(t, c) \/ resume_back(t, c) \/ abandon(t, c)
                   \/ run_async_throws(t, c)
                   \/ \E k \in Kinds : run_async_inline(t, c, k) \/ run_async_posted(t, c, k)
    BY <1>4 DEF Next
  <2>2. StopsKept(c)
    BY <2>1, RequestStep, LaunchStep, ChildStep, BodyStops, GoesOnStep, EndStep DEF BodyStep
  <2> QED
    BY <1>2, <2>2
<1> QED
  BY <1>3, <1>4

\* A stop requested while a quitter is suspended is what its chain ends with, and a
\* stopped chain of quitters begins at most one operation more: quitter's
\* await_resume() looks at the token before it hands over a result, every time that a
\* coroutine gets the control, however deep the chain and whoever else runs.
THEOREM StopsAreHeeded == Spec => []StopIsHeeded
<1>1. SInv => StopIsHeeded
  BY SMTT(30) DEF SInv, StopIsHeeded, StopTypes, Heeds, Doomed, Unwinds
<1> QED
  BY SInitially, SInductive, <1>1, PTL DEF Spec

=============================================================================
