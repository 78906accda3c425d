--------------------------- MODULE ScullAppsProofs ---------------------------
(***************************************************************************)
(* Theorems about ScullApps: producer.c and consumer.c against the FIFO    *)
(* device while its module comes and goes, for any number of children, any *)
(* ring and whatever forks, calls and insmods fail.                        *)
(***************************************************************************)
EXTENDS ScullApps, ScullFifoProofs

-----------------------------------------------------------------------------
(* The inductive invariant *)

Lives         == {"unborn", "born", "called", "exited", "reaped"}
ParentStages  == {"new", "opening", "forking", "waiting", "closing", "done", "failed"}

AppTypes ==
    /\ driver \in Stages
    /\ concurrency \in [Programs -> Nat]
    /\ parent \in [Programs -> ParentStages]
    /\ i \in [Programs -> Nat]
    /\ ret \in [Programs -> Int]
    /\ child \in [Procs -> Lives]

(* What the module holds in each stage.                                    *)
HeldByStage ==
    /\ driver \in {"out", "hollow"} => held = {}
    /\ driver = "registered" => held = {"region"}
    /\ driver = "live" => held = {"region", "cdev"}
    /\ driver = "ready" => held = Resources

(* Whoever has the device open keeps the module loaded, and a call runs    *)
(* only on a FIFO that is set up.                                          *)
UsersKeepModule ==
    /\ Users # {} => driver \notin {"out", "registered"}
    /\ \A c \in Procs : child[c] = "called" => driver = "ready"

(* The children of a program that are not reaped: the loop counter of its  *)
(* parent says how many they are, in both loops.                           *)
Kids(q, lives) == {c \in Children(q) : child[c] \in lives}
Unreaped(q) == Kids(q, {"born", "called", "exited"})
LoopsCount == \A q \in Programs :
    /\ i[q] = Cardinality(Unreaped(q))
    /\ parent[q] \notin {"forking", "waiting"} => i[q] = 0

(* A parent that will return success has forked what was asked for.        *)
SuccessMeansAll == \A q \in Programs :
    /\ parent[q] \in {"new", "opening", "forking"} => ret[q] = 0 /\ Cardinality(Forked(q)) = i[q]
    /\ parent[q] \in {"waiting", "closing", "done"} /\ ret[q] = 0
          => Cardinality(Forked(q)) = concurrency[q]
    /\ parent[q] = "done" => ret[q] = 0

(* A child stands in the driver only during its call.                      *)
CallsInDriver == \A c \in Procs : child[c] # "called" => pc[c] = "idle"

AInv == AppTypes /\ HeldByStage /\ UsersKeepModule /\ LoopsCount /\ SuccessMeansAll
ARing == RingInv /\ CallsInDriver
-----------------------------------------------------------------------------
(* Counting children *)

LEMMA ChildrenOfPrograms ==
    /\ Procs = Children("producer") \cup Children("consumer")
    /\ Children("producer") \cap Children("consumer") = {}
    /\ \A q \in Programs : Children(q) \subseteq Procs /\ IsFiniteSet(Children(q))
  <1>1. Children("producer") = Writers /\ Children("consumer") = Readers
    BY DEF Children
  <1>2. \A q \in Programs : Children(q) \subseteq Procs
    BY DEF Children, Procs, Programs
  <1>3. \A q \in Programs : IsFiniteSet(Children(q))
    BY <1>2, ProcsAssumption, FS_Subset
  <1> QED BY <1>1, <1>2, <1>3, ProcsAssumption DEF Procs

LEMMA KidsCounted ==
    ASSUME NEW q \in Programs, NEW CONSTANT lives
    PROVE  /\ IsFiniteSet(Kids(q, lives))
           /\ Cardinality(Kids(q, lives)) \in Nat
           /\ Cardinality(Kids(q, lives)) = 0 <=> Kids(q, lives) = {}
  <1>1. Kids(q, lives) \in SUBSET Children(q)
    BY DEF Kids
  <1>2. IsFiniteSet(Kids(q, lives))
    BY <1>1, ChildrenOfPrograms, FS_Subset
  <1> QED BY <1>2, FS_CardinalityType, FS_EmptySet

(* A child that passes from one stage of its life to another leaves the    *)
(* set of its parent's children it was in and joins the one it comes to.   *)
LEMMA KidsMove ==
    ASSUME AppTypes, NEW q \in Programs, NEW CONSTANT lives,
           NEW c \in Children(q), NEW CONSTANT life,
           child' = [child EXCEPT ![c] = life]
    PROVE  Cardinality(Kids(q, lives))' =
              Cardinality(Kids(q, lives)) + One(life, lives) - One(child[c], lives)
  <1> DEFINE Others == Kids(q, lives) \ {c}
  <1>1. c \in Procs
    BY ChildrenOfPrograms
  <1>2. child'[c] = life /\ \A d \in Procs : d # c => child'[d] = child[d]
    BY <1>1 DEF AppTypes
  <1>3. IsFiniteSet(Kids(q, lives))
    BY KidsCounted
  <1>4. IsFiniteSet(Others)
    BY <1>3, FS_RemoveElement
  <1>5. Cardinality(Others) \in Nat
    BY <1>4, FS_CardinalityType
  <1>6. Cardinality(Kids(q, lives)) = Cardinality(Others) + One(child[c], lives)
    <2>1. CASE child[c] \in lives
      <3>1. Kids(q, lives) = Others \cup {c} /\ c \notin Others
        BY <2>1 DEF Kids
      <3> QED BY <1>4, <1>5, <2>1, <3>1, FS_AddElement DEF One
    <2>2. CASE child[c] \notin lives
      <3>1. Kids(q, lives) = Others
        BY <2>2 DEF Kids
      <3> QED BY <1>5, <2>2, <3>1 DEF One
    <2> QED BY <2>1, <2>2
  <1>7. Cardinality(Kids(q, lives)') = Cardinality(Others) + One(life, lives)
    <2>1. CASE life \in lives
      <3>1. Kids(q, lives)' = Others \cup {c} /\ c \notin Others
        BY <1>2, <2>1, ChildrenOfPrograms DEF Kids
      <3> QED BY <1>4, <1>5, <2>1, <3>1, FS_AddElement DEF One
    <2>2. CASE life \notin lives
      <3>1. Kids(q, lives)' = Others
        BY <1>2, <2>2, ChildrenOfPrograms DEF Kids
      <3> QED BY <1>5, <2>2, <3>1 DEF One
    <2> QED BY <2>1, <2>2
  <1>8. One(life, lives) \in Int /\ One(child[c], lives) \in Int
    BY DEF One
  <1>9. Cardinality(Kids(q, lives))' = Cardinality(Kids(q, lives)')
    OBVIOUS
  <1> HIDE DEF Others
  <1> QED BY <1>5, <1>6, <1>7, <1>8, <1>9

(* A step of another program's child leaves the counts alone.              *)
LEMMA KidsStay ==
    ASSUME AppTypes, NEW q \in Programs, NEW CONSTANT lives,
           NEW c \in Procs \ Children(q), NEW CONSTANT life,
           child' = [child EXCEPT ![c] = life]
    PROVE  Kids(q, lives)' = Kids(q, lives)
  BY ChildrenOfPrograms DEF Kids, AppTypes

(* The children a parent has forked are those that are not unborn.         *)
Born == Lives \ {"unborn"}
LEMMA ForkedAreBorn ==
    ASSUME AppTypes, NEW q \in Programs
    PROVE  Forked(q) = Kids(q, Born)
  BY ChildrenOfPrograms DEF Forked, Kids, Born, AppTypes

(* The steps of a child that leave the two counts alone, in its call or    *)
(* ended by the kernel.                                                    *)
Lasts == {<<"born", "called">>, <<"called", "exited">>, <<"born", "exited">>}

(* The children with whom the two counts are concerned.                    *)
LEMMA ForkAndReap ==
    ASSUME AppTypes, AppTypes', NEW q \in Programs,
           NEW c \in Children(q), NEW CONSTANT life \in Lives,
           child' = [child EXCEPT ![c] = life]
    PROVE  /\ child[c] = "unborn" /\ life = "born" =>
                /\ Cardinality(Unreaped(q))' = Cardinality(Unreaped(q)) + 1
                /\ Cardinality(Forked(q))' = Cardinality(Forked(q)) + 1
           /\ child[c] = "exited" /\ life = "reaped" =>
                /\ Cardinality(Unreaped(q))' = Cardinality(Unreaped(q)) - 1
                /\ Cardinality(Forked(q))' = Cardinality(Forked(q))
           /\ <<child[c], life>> \in Lasts =>
                /\ Cardinality(Unreaped(q))' = Cardinality(Unreaped(q))
                /\ Cardinality(Forked(q))' = Cardinality(Forked(q))
  <1> DEFINE mid == {"born", "called", "exited"}
  <1>1. Cardinality(Kids(q, mid))' =
          Cardinality(Kids(q, mid)) + One(life, mid) - One(child[c], mid)
    BY KidsMove
  <1>2. Cardinality(Kids(q, Born))' =
          Cardinality(Kids(q, Born)) + One(life, Born) - One(child[c], Born)
    BY KidsMove
  <1>3. Cardinality(Kids(q, mid)) \in Nat /\ Cardinality(Kids(q, Born)) \in Nat
    BY KidsCounted
  <1>4. Forked(q) = Kids(q, Born) /\ Forked(q)' = Kids(q, Born)'
    <2>1. Forked(q)' = Kids(q, Born)'
      BY ChildrenOfPrograms DEF Forked, Kids, Born, AppTypes
    <2> QED BY <2>1, ForkedAreBorn
  <1>5. Cardinality(Forked(q))' = Cardinality(Kids(q, Born))'
    BY <1>4
  <1>6. Unreaped(q) = Kids(q, mid) /\ Cardinality(Unreaped(q))' = Cardinality(Kids(q, mid))'
    BY DEF Unreaped
  <1> DEFINE u == Cardinality(Kids(q, mid))
             f == Cardinality(Kids(q, Born))
  <1>7. /\ child[c] = "unborn" /\ life = "born" => u' = u + 1 /\ f' = f + 1
        /\ child[c] = "exited" /\ life = "reaped" => u' = u - 1 /\ f' = f
        /\ <<child[c], life>> \in Lasts => u' = u /\ f' = f
    <2> HIDE DEF u, f
    <2>1. /\ One("born", mid) = 1 /\ One("unborn", mid) = 0 /\ One("exited", mid) = 1
          /\ One("reaped", mid) = 0 /\ One("called", mid) = 1
      BY DEF One
    <2>2. /\ One("born", Born) = 1 /\ One("unborn", Born) = 0 /\ One("exited", Born) = 1
          /\ One("reaped", Born) = 1 /\ One("called", Born) = 1
      BY DEF One, Born, Lives
    <2>3. u' = u + One(life, mid) - One(child[c], mid)
      BY <1>1 DEF u
    <2>4. f' = f + One(life, Born) - One(child[c], Born)
      BY <1>2 DEF f
    <2>5. u \in Nat /\ f \in Nat
      BY <1>3 DEF u, f
    <2> HIDE DEF mid
    <2> QED BY <2>1, <2>2, <2>3, <2>4, <2>5 DEF Lasts
  <1> QED BY <1>4, <1>5, <1>6, <1>7
-----------------------------------------------------------------------------
(* The programs and the module *)

LEMMA AInvInit == AppsInit => AInv
  <1> SUFFICES ASSUME AppsInit PROVE AInv
    OBVIOUS
  <1>1. AppTypes
    BY DEF AppsInit, ModuleInit, AppTypes, Stages, ParentStages, Lives
  <1>2. Users = {}
    BY DEF AppsInit, Users
  <1>3. HeldByStage /\ UsersKeepModule
    BY <1>2 DEF AppsInit, ModuleInit, HeldByStage, UsersKeepModule
  <1>4. \A q \in Programs : Unreaped(q) = {} /\ Forked(q) = {}
    BY ChildrenOfPrograms DEF AppsInit, Unreaped, Forked, Kids
  <1>5. LoopsCount /\ SuccessMeansAll
    BY <1>4, FS_EmptySet DEF AppsInit, LoopsCount, SuccessMeansAll
  <1> QED BY <1>1, <1>3, <1>5 DEF AInv

(* The child that is forked, calls, exits or is reaped.                    *)
Lived(c, from, to) == child[c] = from /\ child' = [child EXCEPT ![c] = to]

(* insmod, rmmod and the steps between them.                               *)
LEMMA ModuleSteps ==
    ASSUME AInv, LoadStep \/ LoadDone \/ Rmmod
    PROVE  AInv'
  <1> USE DEF AInv, AppTypes, Stages
  <1>1. UNCHANGED <<concurrency, parent, i, ret, child>>
    BY DEF LoadStep, LoadDone, Rmmod, appVars
  <1>2. /\ \A q \in Programs : Unreaped(q)' = Unreaped(q) /\ Forked(q)' = Forked(q)
        /\ Users' = Users
    BY <1>1 DEF Unreaped, Forked, Kids, Users
  <1>3. LoopsCount' /\ SuccessMeansAll'
    BY <1>1, <1>2 DEF LoopsCount, SuccessMeansAll
  <1>4. CASE LoadStep
    <2>1. HeldByStage' /\ driver' \in Stages /\ driver # "ready"
      BY <1>4 DEF LoadStep, Register, CdevAdd, CdevAddFails, KmallocFails, Stage, CleanUp,
                  HeldByStage, Resources
    <2>2. driver \in {"out", "registered"} \/ driver' = "hollow"
      BY <1>4 DEF LoadStep, Register, CdevAdd, CdevAddFails, KmallocFails, Stage
    <2>3. UsersKeepModule'
      BY <1>1, <1>2, <2>1, <2>2 DEF UsersKeepModule
    <2> QED BY <1>1, <1>3, <2>1, <2>3
  <1>5. CASE LoadDone
    BY <1>1, <1>2, <1>3, <1>5 DEF LoadDone, SetUp, Stage, HeldByStage, Resources, UsersKeepModule
  <1>6. CASE Rmmod
    <2>1. driver' = "out" /\ held' = {} /\ Users = {}
      BY <1>6 DEF Rmmod, Unload, CleanUp
    <2>2. UsersKeepModule'
      BY <1>1, <1>2, <2>1 DEF UsersKeepModule, Users
    <2> QED BY <1>1, <1>3, <2>1, <2>2 DEF HeldByStage
  <1> QED BY <1>4, <1>5, <1>6

(* The steps of a parent that concern no child.                            *)
LEMMA ParentSteps ==
    ASSUME AInv, NEW q \in Programs,
           Parse(q) \/ Open(q) \/ ForkFails(q) \/ ForksDone(q) \/ Finish(q) \/ Close(q)
    PROVE  AInv'
  <1> USE DEF AInv, AppTypes, ParentStages, Moves
  <1>1. UNCHANGED <<driver, held, child, i>>
    BY DEF Parse, Open, ForkFails, ForksDone, Finish, Close, moduleVars
  <1>2. \A x \in Programs : Unreaped(x)' = Unreaped(x) /\ Forked(x)' = Forked(x)
    BY <1>1 DEF Unreaped, Forked, Kids
  <1>3. \A x \in Programs : x # q => /\ parent'[x] = parent[x]
                                     /\ ret'[x] = ret[x]
                                     /\ concurrency'[x] = concurrency[x]
    BY DEF Parse, Open, ForkFails, ForksDone, Finish, Close
  <1>4. AppTypes'
    BY <1>1 DEF Parse, Open, ForkFails, ForksDone, Finish, Close
  <1>5. HeldByStage'
    BY <1>1 DEF HeldByStage
  <1>6. UsersKeepModule'
    <2>1. parent'[q] \in {"forking", "waiting", "closing"} => driver \notin {"out", "registered"}
      <3>1. CASE Open(q)
        BY <3>1 DEF Open, HeldByStage
      <3>2. CASE ~Open(q)
        BY <3>2 DEF Parse, ForkFails, ForksDone, Finish, Close, UsersKeepModule, Users
      <3> QED BY <3>1, <3>2
    <2> QED BY <1>1, <1>3, <2>1 DEF UsersKeepModule, Users
  <1>7. LoopsCount'
    <2>1. parent'[q] \notin {"forking", "waiting"} => i[q] = 0
      BY DEF Parse, Open, ForkFails, ForksDone, Finish, Close, LoopsCount
    <2> QED BY <1>1, <1>2, <1>3, <2>1 DEF LoopsCount
  <1>8. SuccessMeansAll'
    <2>1. /\ parent'[q] \in {"new", "opening", "forking"} =>
                ret'[q] = 0 /\ Cardinality(Forked(q)) = i[q]
          /\ parent'[q] \in {"waiting", "closing", "done"} /\ ret'[q] = 0
                => Cardinality(Forked(q)) = concurrency'[q]
          /\ parent'[q] = "done" => ret'[q] = 0
      BY DEF Parse, Open, ForkFails, ForksDone, Finish, Close, SuccessMeansAll
    <2> QED BY <1>1, <1>2, <1>3, <2>1 DEF SuccessMeansAll
  <1> QED BY <1>4, <1>5, <1>6, <1>7, <1>8

(* Forking and reaping.                                                    *)
LEMMA ForkSteps ==
    ASSUME AInv, NEW q \in Programs, Fork(q) \/ Wait(q)
    PROVE  AInv'
  <1> USE DEF AInv
  <1>1. UNCHANGED <<driver, held, parent, ret, concurrency>>
    BY DEF Fork, Wait, moduleVars
  <1>2. PICK c \in Children(q), life \in Lives :
           /\ child' = [child EXCEPT ![c] = life]
           /\ \/ Fork(q) /\ child[c] = "unborn" /\ life = "born"
              \/ Wait(q) /\ child[c] = "exited" /\ life = "reaped"
    BY DEF Fork, Wait, Lives
  <1>3. c \in Procs
    BY ChildrenOfPrograms
  <1>4. AppTypes'
    BY <1>1, <1>2, <1>3 DEF AppTypes, Fork, Wait
  <1>5. \A x \in Programs : x # q =>
           Unreaped(x)' = Unreaped(x) /\ Forked(x)' = Forked(x) /\ i'[x] = i[x]
    <2>1. \A x \in Programs : x # q => c \notin Children(x)
      BY ChildrenOfPrograms DEF Programs
    <2> QED BY <1>2, <1>3, <2>1, ChildrenOfPrograms
         DEF AppTypes, Unreaped, Forked, Kids, Fork, Wait
  <1>6. HeldByStage' /\ UsersKeepModule'
    <2>1. parent[q] \in {"forking", "waiting"}
      BY DEF Fork, Wait
    <2> QED BY <1>1, <1>2, <1>3, <2>1 DEF HeldByStage, UsersKeepModule, Users, AppTypes
  <1>7. Cardinality(Unreaped(q)) \in Nat /\ i[q] \in Nat
    BY KidsCounted DEF Unreaped, AppTypes
  <1>8. CASE Fork(q) /\ child[c] = "unborn" /\ life = "born"
    <2>1. /\ Cardinality(Unreaped(q))' = Cardinality(Unreaped(q)) + 1
          /\ Cardinality(Forked(q))' = Cardinality(Forked(q)) + 1
      BY <1>2, <1>4, <1>8, ForkAndReap
    <2>2. i'[q] = i[q] + 1 /\ parent[q] = "forking"
      BY <1>8 DEF Fork, AppTypes
    <2> QED BY <1>1, <1>4, <1>5, <1>6, <2>1, <2>2 DEF LoopsCount, SuccessMeansAll
  <1>9. CASE Wait(q) /\ child[c] = "exited" /\ life = "reaped"
    <2>1. /\ Cardinality(Unreaped(q))' = Cardinality(Unreaped(q)) - 1
          /\ Cardinality(Forked(q))' = Cardinality(Forked(q))
      BY <1>2, <1>4, <1>9, ForkAndReap
    <2>2. i'[q] = i[q] - 1 /\ parent[q] = "waiting"
      BY <1>9 DEF Wait, AppTypes
    <2> QED BY <1>1, <1>4, <1>5, <1>6, <2>1, <2>2 DEF LoopsCount, SuccessMeansAll
  <1> QED BY <1>2, <1>8, <1>9

(* A child calls, its call runs on, it exits.                              *)
LEMMA ChildSteps ==
    ASSUME AInv, NEW c \in Procs, ChildStep(c) \/ DriverFault(c)
    PROVE  AInv'
  <1> USE DEF AInv
  <1>1. /\ UNCHANGED <<held, parent, ret, concurrency, i>>
        /\ \/ UNCHANGED driver
           \/ CallFaults(c) /\ driver \in {"live", "hollow", "oops"} /\ driver' = "oops"
    BY DEF ChildStep, DriverStep, DriverFault, Call, CallFaults, NullDeref, Exit, moduleVars, appVars
  <1>2. CASE UNCHANGED <<child, driver>>
    <2>1. /\ Users' = Users
          /\ \A x \in Programs : Unreaped(x)' = Unreaped(x) /\ Forked(x)' = Forked(x)
      BY <1>1, <1>2 DEF Users, Unreaped, Forked, Kids
    <2> QED BY <1>1, <1>2, <2>1
         DEF AppTypes, HeldByStage, UsersKeepModule, LoopsCount, SuccessMeansAll
  <1>3. CASE Call(c) \/ CallFaults(c) \/ Exit(c)
    <2>1. PICK life \in Lives :
             /\ child' = [child EXCEPT ![c] = life]
             /\ <<child[c], life>> \in Lasts
      BY <1>3 DEF Call, CallFaults, Exit, Lives, Lasts
    <2>2. AppTypes'
      BY <1>1, <2>1 DEF AppTypes, Stages
    <2>3. \A x \in Programs : /\ Cardinality(Unreaped(x))' = Cardinality(Unreaped(x))
                              /\ Cardinality(Forked(x))' = Cardinality(Forked(x))
      <3> SUFFICES ASSUME NEW x \in Programs
                   PROVE  /\ Cardinality(Unreaped(x))' = Cardinality(Unreaped(x))
                          /\ Cardinality(Forked(x))' = Cardinality(Forked(x))
        OBVIOUS
      <3>1. CASE c \in Children(x)
        BY <2>1, <2>2, <3>1, ForkAndReap
      <3>2. CASE c \notin Children(x)
        <4>1. \A d \in Children(x) : child'[d] = child[d]
          BY <2>1, <3>2, ChildrenOfPrograms DEF AppTypes
        <4> QED BY <4>1 DEF Unreaped, Forked, Kids
      <3> QED BY <3>1, <3>2
    <2>4. HeldByStage'
      BY <1>1 DEF HeldByStage
    <2>5. UsersKeepModule'
      <3>1. driver' \notin {"out", "registered"}
        <4>1. Users # {}
          BY <2>1 DEF Users, Lasts
        <4> QED BY <1>1, <4>1 DEF UsersKeepModule
      <3>2. ASSUME NEW d \in Procs, child'[d] = "called" PROVE driver' = "ready"
        <4>1. CASE d = c
          <5>1. child'[c] = life
            BY <2>1 DEF AppTypes
          <5>2. Call(c) /\ driver = "ready" /\ driver' = driver
            BY <1>3, <2>1, <3>2, <4>1, <5>1 DEF Call, CallFaults, Exit, AppTypes, moduleVars
          <5> QED BY <5>2
        <4>2. CASE d # c
          <5>1. child[d] = "called"
            BY <2>1, <3>2, <4>2 DEF AppTypes
          <5> QED BY <1>1, <5>1 DEF UsersKeepModule
        <4> QED BY <4>1, <4>2
      <3> QED BY <3>1, <3>2 DEF UsersKeepModule
    <2> QED BY <1>1, <2>2, <2>3, <2>4, <2>5 DEF LoopsCount, SuccessMeansAll
  <1> QED BY <1>2, <1>3 DEF ChildStep, DriverStep, DriverFault, moduleVars, appVars

LEMMA AInvStep == AInv /\ [AppsNext]_allVars => AInv'
  <1> SUFFICES ASSUME AInv, [AppsNext]_allVars PROVE AInv'
    OBVIOUS
  <1>1. CASE AppsNext
    BY <1>1, ModuleSteps, ParentSteps, ForkSteps, ChildSteps DEF AppsNext, ParentStep
  <1>2. CASE UNCHANGED allVars
    BY <1>2 DEF allVars, moduleVars, appVars, AInv, AppTypes, HeldByStage, UsersKeepModule, Users,
                LoopsCount, SuccessMeansAll, Unreaped, Forked, Kids
  <1> QED BY <1>1, <1>2
LEMMA AppsInvariance == AppsSpec => []AInv
  BY AInvInit, AInvStep, PTL DEF AppsSpec

-----------------------------------------------------------------------------
(* The ring under the programs *)

(* A step of the whole is a step of the driver, or sets the ring up, or    *)
(* leaves the driver alone.                                                *)
LEMMA AppsDrive ==
    ASSUME AppsNext
    PROVE  [Next]_vars \/ (SetUp /\ UNCHANGED child)
  <1>1. CASE LoadStep \/ Rmmod
    BY <1>1 DEF LoadStep, Rmmod
  <1>2. CASE LoadDone
    BY <1>2 DEF LoadDone, appVars
  <1>3. ASSUME NEW q \in Programs, Parse(q) \/ ParentStep(q) \/ ForkFails(q)
        PROVE  UNCHANGED vars
    BY <1>3 DEF Parse, ParentStep, ForkFails, Open, Fork, ForksDone, Wait, Finish, Close
  <1>4. ASSUME NEW c \in Procs, ChildStep(c) \/ DriverFault(c)
        PROVE  [Next]_vars
    BY <1>4, ProcsAssumption DEF ChildStep, DriverFault, Call, CallFaults, DriverStep, Exit, Next, Procs
  <1> QED BY <1>1, <1>2, <1>3, <1>4 DEF AppsNext

LEMMA CallsStep ==
    ASSUME AInv, Typed, CallsInDriver, AppsNext
    PROVE  CallsInDriver'
  <1> USE DEF CallsInDriver, AInv, AppTypes, Typed, TypeOK
  <1>1. CASE LoadStep \/ Rmmod \/ LoadDone
    BY <1>1 DEF LoadStep, Rmmod, LoadDone, SetUp, appVars, vars
  <1>2. ASSUME NEW q \in Programs, Parse(q) \/ Open(q) \/ ForkFails(q) \/ ForksDone(q)
                                   \/ Finish(q) \/ Close(q)
        PROVE  CallsInDriver'
    BY <1>2 DEF Parse, Open, ForkFails, ForksDone, Finish, Close, vars
  <1>3. ASSUME NEW q \in Programs, Fork(q) \/ Wait(q)
        PROVE  CallsInDriver'
    <2>1. PICK c \in Procs, life \in {"born", "reaped"} :
             child[c] # "called" /\ child' = [child EXCEPT ![c] = life]
      BY <1>3, ChildrenOfPrograms DEF Fork, Wait
    <2>2. pc' = pc
      BY <1>3 DEF Fork, Wait, vars
    <2> QED BY <2>1, <2>2
  <1>4. ASSUME NEW c \in Procs, Exit(c) \/ CallFaults(c) PROVE CallsInDriver'
    BY <1>4 DEF Exit, CallFaults, vars
  <1>5. ASSUME NEW c \in Procs, Call(c) \/ DriverStep(c) \/ DriverFault(c)
        PROVE  CallsInDriver'
    <2>1. child'[c] = "called" /\ \A d \in Procs : d # c => child'[d] = child[d]
      BY <1>5 DEF Call, DriverStep, DriverFault, appVars
    <2>2. \A d \in Procs : d # c => pc'[d] = pc[d]
      <3>1. CASE Call(c)
        BY <3>1 DEF Call, RBegin, WBegin, Goto
      <3>2. CASE DriverStep(c) \/ DriverFault(c)
        BY <3>2 DEF DriverStep, DriverFault, Goto,
             ReadStep, RDown, RLock, RCopy, RMove, RWrap, RUp, RGiveBack,
             ReadFault, RDownSignal, RLockSignal, RCopyFails,
             WriteStep, WDown, WLock, WHeader, WStore, WCopy, WMove, WWrap, WUp, WGiveBack,
             WriteFault, WDownSignal, WLockSignal, WCopyFails
      <3> QED BY <1>5, <3>1, <3>2
    <2> QED BY <2>1, <2>2
  <1> QED BY <1>1, <1>2, <1>3, <1>4, <1>5 DEF AppsNext, ParentStep, ChildStep

(* scull_init_module finds nobody in the driver and makes the ring anew.   *)
LEMMA SetUpRing ==
    ASSUME AInv, ARing, SetUp
    PROVE  RingInv'
  <1>1. \A p \in Procs : pc'[p] = "idle"
    <2>1. \A p \in Procs : child[p] # "called"
      BY DEF AInv, UsersKeepModule, SetUp, Stage
    <2> QED BY <2>1 DEF ARing, CallsInDriver, SetUp
  <1>2. Typed'
    <2>1. /\ circleBuffer' \in [0..Cap-1 -> Int]
          /\ start' \in Nat /\ end' \in Nat /\ FULL' \in Nat /\ EMPTY' \in Nat
          /\ mLock' \in Procs \cup {Nobody}
      BY DataAssumption, SizesAssumption DEF SetUp
    <2>2. UNCHANGED <<pc, count, len, store_len, buf, returned>>
      BY DEF SetUp, locals
    <2> QED BY <2>1, <2>2 DEF ARing, RingInv, Typed, TypeOK, MessageKept
  <1>3. MutualExclusion'
    BY <1>1, ProcsAssumption DEF SetUp, MutualExclusion, CriticalPlaces
  <1>4. Holding(OccupyingPlaces)' = {} /\ Holding(ReservingPlaces)' = {}
    BY <1>1 DEF Holding, OccupyingPlaces, ReservingPlaces
  <1>5. Filled' = 0 /\ Free' = FifoSize
    BY <1>4, SizesAssumption, FS_EmptySet DEF SetUp, Filled, Free
  <1>6. TicketConservation'
    BY <1>5, SizesAssumption DEF TicketConservation
  <1>7. RingAt(0, 0)'
    <2>1. 0 \in 0..FifoSize-1
      BY SizesAssumption
    <2>2. StartAdvance' = 0 /\ EndAdvance' = 0
      BY DEF SetUp, StartAdvance, EndAdvance, HolderAt
    <2> QED BY <1>5, <2>1, <2>2, SlotArithmetic DEF SetUp, RingAt
  <1>8. RingPosition'
    BY <1>7, SizesAssumption DEF RingPosition
  <1> QED BY <1>2, <1>3, <1>6, <1>8 DEF RingInv

LEMMA ARingStep ==
    ASSUME ~WriteMayFail
    PROVE  AInv /\ ARing /\ [AppsNext]_allVars => ARing'
  <1> SUFFICES ASSUME AInv, ARing, [AppsNext]_allVars PROVE ARing'
    OBVIOUS
  <1>1. CASE AppsNext
    <2>1. CallsInDriver'
      BY <1>1, CallsStep DEF ARing, RingInv
    <2>2. RingInv'
      BY <1>1, AppsDrive, SetUpRing, RingStep DEF ARing
    <2> QED BY <2>1, <2>2 DEF ARing
  <1>2. CASE UNCHANGED allVars
    <2>1. RingInv'
      BY <1>2, RingStep DEF allVars, ARing
    <2>2. CallsInDriver'
      BY <1>2 DEF allVars, vars, appVars, ARing, CallsInDriver
    <2> QED BY <2>1, <2>2 DEF ARing
  <1> QED BY <1>1, <1>2

-----------------------------------------------------------------------------
(* Theorems *)

(* A call that has begun on a FIFO keeps it until it returns, and whoever  *)
(* has the device open keeps the module loaded: the device may be opened   *)
(* in any stage of scull_init_module from cdev_add on, and whichever of    *)
(* its steps fails, nothing takes a FIFO away from under a call.           *)
THEOREM FifoStaysUnderCalls == AppsSpec => []CallsKeepFifo
  <1>1. AInv => CallsKeepFifo
    BY DEF AInv, UsersKeepModule, HeldByStage, CallsKeepFifo
  <1> QED BY <1>1, AppsInvariance, PTL

(* do_procs waits for exactly the children it forked, also when a fork     *)
(* fails, and the program returns success only if it forked them all.      *)
THEOREM DoProcsWaitsForAll == AppsSpec => []ParentsOutliveChildren
  <1>1. AInv => ParentsOutliveChildren
    <2> SUFFICES ASSUME AInv, NEW q \in Programs
                 PROVE  /\ parent[q] \in {"closing", "done", "failed"} =>
                              \A c \in Forked(q) : child[c] = "reaped"
                        /\ parent[q] = "done" => Cardinality(Forked(q)) = concurrency[q]
      BY DEF ParentsOutliveChildren
    <2>1. ASSUME parent[q] \in {"closing", "done", "failed"}, NEW c \in Forked(q)
          PROVE  child[c] = "reaped"
      <3>1. Cardinality(Unreaped(q)) = 0
        BY <2>1 DEF AInv, LoopsCount
      <3>2. Unreaped(q) = {}
        BY <3>1, KidsCounted DEF Unreaped
      <3>3. c \in Children(q) /\ child[c] \in Lives /\ child[c] # "unborn"
        BY <2>1, ChildrenOfPrograms DEF Forked, AInv, AppTypes
      <3> QED BY <3>2, <3>3 DEF Unreaped, Kids, Lives
    <2>2. parent[q] = "done" => Cardinality(Forked(q)) = concurrency[q]
      BY DEF AInv, SuccessMeansAll
    <2> QED BY <2>1, <2>2
  <1> QED BY <1>1, AppsInvariance, PTL

(* What is proved of the driver alone holds under the programs and through *)
(* the module's loading and unloading: a writer never copies over a        *)
(* message that waits, as long as the messages' addresses are good.        *)
THEOREM CopyTargetsUnderApps ==
    ASSUME ~WriteMayFail
    PROVE  AppsSpec => []CopyTargetsFree
  <1>1. AppsInit => ARing
    BY RingInit DEF AppsInit, ARing, CallsInDriver, Init
  <1> QED BY <1>1, ARingStep, AppsInvariance, RingCopyTargets, PTL DEF ARing, AppsSpec

=============================================================================
