--------------------------- MODULE LifecycleProofs ---------------------------
(***************************************************************************)
(* Theorems about Lifecycle, for any number of processes, starts and       *)
(* changes.                                                                *)
(***************************************************************************)
EXTENDS Lifecycle, TLAPS

Address == IF configured THEN 0 ELSE identity

\* Where the lock works, it is held by exactly the process that serves; where
\* it does not, nobody holds it.
LockInv ==
    /\ ~flock => holder = Nil
    /\ flock => \A p \in Procs : phase[p] \in Guarded => holder = p

\* A process that is about to create an identity has found none, or could not
\* look; one that is past that step has the address of the group, which then
\* exists, and still has it when it has left unless somebody could not look.
IdInv ==
    flock =>
        /\ blind # {} => statFails > 0
        /\ \A p \in Procs :
              /\ phase[p] = "creating" => ~configured /\ (identity = Nil \/ p \in blind)
              /\ phase[p] \in {"identified", "running", "stopping"} =>
                    id[p] = Address /\ Address # Nil
              /\ phase[p] = "left" /\ statFails = 0 => id[p] = Address /\ Address # Nil

Inv == TypeOK /\ LockInv /\ IdInv

\* The phases in which a process has a copy of file s in memory.
Users(s) == IF s = "roster" THEN Alive ELSE Writers

\* Two processes that use a file have met over it, and the copy of one that
\* has not met any other is not behind the file.
CopyInv ==
    \A s \in Stores, p \in Procs : phase[p] \in Users(s) =>
        /\ \A q \in Procs \ {p} : phase[q] \in Users(s) => p \in met[s]
        /\ p \notin met[s] => file[s] \subseteq mem[p][s]

-----------------------------------------------------------------------------

\* The steps of service.New keep the types.
LEMMA StartTypes ==
    ASSUME TypeOK, NEW p \in Procs,
           \/ Load(p) \/ Acquire(p) \/ Enrol(p) \/ Identify(p) \/ MissFile(p)
           \/ Create(p) \/ Run(p)
    PROVE  TypeOK'
<1> USE LifecycleAssumption DEF TypeOK, At, Known, Alive, Starting, Guarded, Stores, stat
<1>1. CASE Load(p)
  BY <1>1 DEF Load, Meet, Others
<1>2. CASE Acquire(p)
  BY <1>2 DEF Acquire, Granted
<1>3. CASE Enrol(p)
  <2>1. mem[p]["roster"] \cup {0} \in SUBSET (0..MaxChanges)
    OBVIOUS
  <2>2. CASE 0 \in mem[p]["roster"]
    BY <1>3, <2>2 DEF Enrol
  <2>3. CASE 0 \notin mem[p]["roster"]
    BY <1>3, <2>1, <2>3 DEF Enrol
  <2>4. QED
    BY <2>2, <2>3
<1>4. CASE Identify(p)
  BY <1>4 DEF Identify, Stored
<1>5. CASE MissFile(p)
  BY <1>5 DEF MissFile
<1>6. CASE Create(p)
  BY <1>6 DEF Create
<1>7. CASE Run(p)
  BY <1>7 DEF Run, Meet, Others, Saved, Writers
<1>8. QED
  BY <1>1, <1>2, <1>3, <1>4, <1>5, <1>6, <1>7

\* The steps of Service.Run and the end of the process keep the types.
LEMMA RunTypes ==
    ASSUME TypeOK, NEW p \in Procs,
           \/ \E s \in Stores, deferred \in BOOLEAN : Change(p, s, deferred)
           \/ \E s \in Stores : Flush(p, s)
           \/ Stop(p) \/ Return(p) \/ Exit(p)
    PROVE  TypeOK'
<1> USE LifecycleAssumption DEF TypeOK, At, Known, Alive, Starting, Guarded, Stores, stat
<1>1. CASE \E s \in Stores, deferred \in BOOLEAN : Change(p, s, deferred)
  BY <1>1 DEF Change, Writers
<1>2. CASE \E s \in Stores : Flush(p, s)
  BY <1>2 DEF Flush, Writers
<1>3. CASE Stop(p)
  BY <1>3 DEF Stop
<1>4. CASE Return(p)
  BY <1>4 DEF Return, Released
<1>5. CASE Exit(p)
  BY <1>5 DEF Exit
<1>6. QED
  BY <1>1, <1>2, <1>3, <1>4, <1>5

LEMMA TypesStep == TypeOK /\ [Next]_vars => TypeOK'
<1> SUFFICES ASSUME TypeOK, [Next]_vars PROVE TypeOK'
  OBVIOUS
<1>1. CASE UNCHANGED vars
  BY <1>1 DEF TypeOK, vars, stat, Alive, Starting, Guarded, Stores
<1>2. CASE Next
  BY <1>2, StartTypes, RunTypes DEF Next
<1>3. QED
  BY <1>1, <1>2
-----------------------------------------------------------------------------

\* Only Acquire makes a process one of the guarded ones, and only when nobody
\* holds the lock; the lock is released only by a process that stops being one.
LEMMA LockStep == TypeOK /\ LockInv /\ [Next]_vars => LockInv'
<1> SUFFICES ASSUME TypeOK, LockInv, [Next]_vars PROVE LockInv'
  OBVIOUS
<1> USE LifecycleAssumption DEF TypeOK, LockInv, At, Guarded, Alive, Starting
<1>1. CASE UNCHANGED vars
  BY <1>1 DEF vars
<1>2. ASSUME NEW p \in Procs, Load(p) PROVE LockInv'
  BY <1>2 DEF Load
<1>3. ASSUME NEW p \in Procs, Acquire(p) PROVE LockInv'
  BY <1>3 DEF Acquire, Granted
<1>4. ASSUME NEW p \in Procs, Enrol(p) \/ Create(p) \/ Run(p) PROVE LockInv'
  BY <1>4 DEF Enrol, Create, Run
<1>5. ASSUME NEW p \in Procs, Identify(p) \/ MissFile(p) PROVE LockInv'
  BY <1>5 DEF Identify, MissFile
<1>6. ASSUME NEW p \in Procs, NEW s \in Stores, NEW deferred \in BOOLEAN,
             Change(p, s, deferred)
      PROVE  LockInv'
  BY <1>6 DEF Change
<1>7. ASSUME NEW p \in Procs, NEW s \in Stores, Flush(p, s) PROVE LockInv'
  BY <1>7 DEF Flush
<1>8. ASSUME NEW p \in Procs, Stop(p) PROVE LockInv'
  BY <1>8 DEF Stop
<1>9. ASSUME NEW p \in Procs, Return(p) \/ Exit(p) PROVE LockInv'
  <2>1. /\ flock' = flock /\ phase'[p] \notin Guarded
        /\ holder' = IF holder = p THEN Nil ELSE holder
        /\ \A q \in Procs \ {p} : phase'[q] = phase[q]
    BY <1>9 DEF Return, Released, Exit
  <2>2. QED
    BY <2>1
<1> HIDE DEF TypeOK, LockInv, At, Guarded, Alive, Starting
<1>10. QED
  BY <1>1, <1>2, <1>3, <1>4, <1>5, <1>6, <1>7, <1>8, <1>9 DEF Next

\* Create is the only step that changes the address, and while a process is
\* about to take it the lock keeps every other one from the same place.
LEMMA IdStep == Inv /\ [Next]_vars => IdInv'
<1> SUFFICES ASSUME TypeOK, LockInv, IdInv, [Next]_vars PROVE IdInv'
  BY DEF Inv
<1> USE LifecycleAssumption DEF TypeOK, IdInv, Address, At, stat
<1>1. CASE UNCHANGED vars
  BY <1>1 DEF vars
<1>2. ASSUME NEW p \in Procs, Load(p) \/ Acquire(p) \/ Enrol(p) PROVE IdInv'
  <2>1. UNCHANGED <<flock, configured, identity, id, statFails, blind>>
    BY <1>2 DEF Load, Acquire, Enrol
  <2>2. /\ phase'[p] \in {"loaded", "locked", "enrolled"}
        /\ \A q \in Procs \ {p} : phase'[q] = phase[q]
    BY <1>2 DEF Load, Acquire, Enrol
  <2>3. QED
    BY <2>1, <2>2
<1>3. ASSUME NEW p \in Procs, Identify(p) PROVE IdInv'
  <2>1. UNCHANGED <<flock, configured, identity, statFails, blind>>
    BY <1>3 DEF Identify
  <2>2. /\ \A q \in Procs \ {p} : phase'[q] = phase[q] /\ id'[q] = id[q]
        /\ id'[p] = Address
        /\ phase'[p] = IF Address = Nil THEN "creating" ELSE "identified"
    BY <1>3 DEF Identify, Stored
  <2>3. QED
    BY <2>1, <2>2
<1>4. ASSUME NEW p \in Procs, Create(p) PROVE IdInv'
  <2> SUFFICES ASSUME flock
               PROVE  /\ blind' # {} => statFails' > 0
                      /\ \A q \in Procs :
                            /\ phase'[q] = "creating" =>
                                  ~configured' /\ (identity' = Nil \/ q \in blind')
                            /\ phase'[q] \in {"identified", "running", "stopping"} =>
                                  id'[q] = Address' /\ Address' # Nil
                            /\ phase'[q] = "left" /\ statFails' = 0 =>
                                  id'[q] = Address' /\ Address' # Nil
    BY <1>4 DEF Create
  <2>1. /\ ~configured /\ (identity = Nil \/ p \in blind) /\ identity' \in Nat
        /\ UNCHANGED <<configured, statFails, blind>> /\ id'[p] = identity'
        /\ phase'[p] = "identified"
        /\ \A q \in Procs \ {p} : phase'[q] = phase[q] /\ id'[q] = id[q]
    BY <1>4 DEF Create
  <2>2. \A q \in Procs \ {p} :
           phase[q] \notin {"creating", "identified", "running", "stopping"}
    BY <1>4 DEF Create, LockInv, Guarded, Alive, Starting
  <2>3. ASSUME NEW q \in Procs \ {p}, phase[q] = "left", statFails = 0
        PROVE  FALSE
    BY <2>1, <2>3
  <2>4. QED
    BY <2>1, <2>2, <2>3
<1>5. ASSUME NEW p \in Procs, Run(p) PROVE IdInv'
  BY <1>5 DEF Run
<1>6. ASSUME NEW p \in Procs, NEW s \in Stores, NEW deferred \in BOOLEAN,
             Change(p, s, deferred)
      PROVE  IdInv'
  BY <1>6 DEF Change
<1>7. ASSUME NEW p \in Procs, NEW s \in Stores, Flush(p, s) PROVE IdInv'
  BY <1>7 DEF Flush
<1>8. ASSUME NEW p \in Procs, Stop(p) \/ Return(p) PROVE IdInv'
  <2>1. UNCHANGED <<flock, configured, identity, id, statFails, blind>>
    BY <1>8 DEF Stop, Return
  <2>2. /\ phase[p] \in {"running", "stopping"} /\ phase'[p] \in {"stopping", "left"}
        /\ \A q \in Procs \ {p} : phase'[q] = phase[q]
    BY <1>8 DEF Stop, Return
  <2>3. QED
    BY <2>1, <2>2
<1>9. ASSUME NEW p \in Procs, Exit(p) PROVE IdInv'
  <2>1. UNCHANGED <<flock, configured, identity, statFails>> /\ blind' = blind \ {p}
    BY <1>9 DEF Exit
  <2>2. /\ phase'[p] = "off"
        /\ \A q \in Procs \ {p} : phase'[q] = phase[q] /\ id'[q] = id[q]
    BY <1>9 DEF Exit
  <2>3. QED
    BY <2>1, <2>2
<1>10. ASSUME NEW p \in Procs, MissFile(p) PROVE IdInv'
  <2>1. /\ UNCHANGED <<flock, configured, identity, id>> /\ ~configured
        /\ statFails' > 0 /\ blind' = blind \cup {p}
    BY <1>10 DEF MissFile
  <2>2. /\ phase'[p] = "creating"
        /\ \A q \in Procs \ {p} : phase'[q] = phase[q]
    BY <1>10 DEF MissFile
  <2>3. QED
    BY <2>1, <2>2
<1> HIDE DEF TypeOK, IdInv, Address, At, stat
<1>11. QED
  BY <1>1, <1>2, <1>3, <1>4, <1>5, <1>6, <1>7, <1>8, <1>9, <1>10 DEF Next

-----------------------------------------------------------------------------

\* The inductive invariant: types, the lock belongs to the process that
\* serves, and everyone who has an identity has the one of the group
\* (service.go:134, 634-672).
THEOREM LifecycleInvariant == Spec => []Inv
<1>1. Init => Inv
  BY LifecycleAssumption
  DEF Init, Inv, TypeOK, LockInv, IdInv, Address, Alive, Starting, Guarded, Writers, Stores
<1>2. Inv /\ [Next]_vars => Inv'
  BY TypesStep, LockStep, IdStep DEF Inv
<1>3. QED
  BY <1>1, <1>2, PTL DEF Spec

\* Where the lock works, at most one process is between acquireInstanceLock
\* and the return of Run, however often processes start, stop and die
\* (service.go:122-147).
THEOREM AloneWithLock == Spec => []OneServing
<1>1. Inv => OneServing
  BY DEF Inv, LockInv, OneServing
<1>2. QED
  BY <1>1, LifecycleInvariant, PTL

\* Where the lock works, all processes that serve answer to one address, and so
\* do those that have just stopped serving unless os.Stat failed on the identity
\* file (service.go:634-672).
THEOREM SameAddress == Spec => []OneIdentity
<1>1. Inv => OneIdentity
  BY DEF Inv, TypeOK, IdInv, OneIdentity, Address, Writers
<1>2. QED
  BY <1>1, LifecycleInvariant, PTL

\* Where the lock works, the identity file is replaced only by a process for
\* which os.Stat failed on it, and by no interleaving of starts, stops and
\* crashes (service.go:634-655).
THEOREM AddressForGood == Spec => AddressKept
<1>1. Inv /\ [Next]_vars =>
        [flock /\ identity # Nil /\ identity' # identity =>
           \E p \in blind : phase[p] = "creating" /\ phase'[p] = "identified"]_vars
  <2> SUFFICES ASSUME Inv, Next, flock, identity # Nil, identity' # identity
               PROVE  \E p \in blind : phase[p] = "creating" /\ phase'[p] = "identified"
    BY DEF vars
  <2>1. PICK p \in Procs : Create(p)
    BY DEF Next, Load, Acquire, Enrol, Identify, MissFile, Run, Change, Flush, Stop,
           Return, Exit
  <2>2. phase[p] = "creating" /\ phase'[p] = "identified"
    BY <2>1 DEF Create, At, Inv, TypeOK
  <2>3. p \in blind
    BY <2>2 DEF Inv, IdInv
  <2>4. QED
    BY <2>2, <2>3
<1>2. QED
  BY <1>1, LifecycleInvariant, PTL DEF Spec, AddressKept

-----------------------------------------------------------------------------

\* A process that begins to use a file reads it, and meets everyone who uses
\* it already.
LEMMA CopyBegins ==
    ASSUME TypeOK, CopyInv, NEW p \in Procs, Load(p) \/ Run(p)
    PROVE  CopyInv'
<1> USE DEF TypeOK, At, Stores, Users, Alive, Starting, Writers
<1>1. CASE Load(p)
  <2> SUFFICES ASSUME NEW s \in Stores, NEW r \in Procs, phase'[r] \in Users(s)
               PROVE  /\ \A q \in Procs \ {r} : phase'[q] \in Users(s) => r \in met'[s]
                      /\ r \notin met'[s] => file'[s] \subseteq mem'[r][s]
    BY DEF CopyInv
  <2>1. /\ phase[p] = "off" /\ phase'[p] = "loaded" /\ file' = file
        /\ \A q \in Procs \ {p} : phase'[q] = phase[q] /\ mem'[q] = mem[q]
        /\ mem'[p]["roster"] = file["roster"] /\ mem'[p]["queue"] = mem[p]["queue"]
        /\ met'["queue"] = met["queue"]
    BY <1>1 DEF Load, Known, Meet
  <2>2. /\ Others(p, Alive) = {} => met'["roster"] = met["roster"] \ {p}
        /\ Others(p, Alive) # {} =>
              met'["roster"] = met["roster"] \cup Others(p, Alive) \cup {p}
    BY <1>1 DEF Load, Meet
  <2>3. CASE s = "queue"
    <3>1. r # p /\ phase[r] \in Users(s)
      BY <2>1, <2>3
    <3>2. QED
      BY <2>1, <2>3, <3>1 DEF CopyInv
  <2>4. CASE s = "roster"
    <3>1. CASE r = p
      <4>1. ASSUME NEW q \in Procs \ {p}, phase'[q] \in Users(s)
            PROVE  q \in Others(p, Alive)
        BY <2>1, <2>4, <4>1 DEF Others
      <4>2. QED
        BY <2>1, <2>2, <2>4, <3>1, <4>1
    <3>2. CASE r # p
      <4>1. r \in Others(p, Alive)
        BY <2>1, <2>4, <3>2 DEF Others
      <4>2. QED
        BY <2>2, <2>4, <4>1
    <3>3. QED
      BY <3>1, <3>2
  <2>5. QED
    BY <2>3, <2>4
<1>2. CASE Run(p)
  <2> SUFFICES ASSUME NEW s \in Stores, NEW r \in Procs, phase'[r] \in Users(s)
               PROVE  /\ \A q \in Procs \ {r} : phase'[q] \in Users(s) => r \in met'[s]
                      /\ r \notin met'[s] => file'[s] \subseteq mem'[r][s]
    BY DEF CopyInv
  <2>1. /\ phase[p] = "identified" /\ phase'[p] = "running" /\ file' = file
        /\ \A q \in Procs \ {p} : phase'[q] = phase[q] /\ mem'[q] = mem[q]
        /\ mem'[p]["queue"] = file["queue"] /\ mem'[p]["roster"] = mem[p]["roster"]
        /\ met'["roster"] = met["roster"]
    BY <1>2 DEF Run, Known, Meet, Saved
  <2>2. /\ Others(p, Writers) = {} => met'["queue"] = met["queue"] \ {p}
        /\ Others(p, Writers) # {} =>
              met'["queue"] = met["queue"] \cup Others(p, Writers) \cup {p}
    BY <1>2 DEF Run, Meet
  <2>3. CASE s = "roster"
    <3>1. \A q \in Procs : phase'[q] \in Users(s) => phase[q] \in Users(s)
      BY <2>1, <2>3
    <3>2. mem'[r][s] = mem[r][s] /\ met'[s] = met[s]
      BY <2>1, <2>3
    <3>3. QED
      BY <2>1, <3>1, <3>2 DEF CopyInv
  <2>4. CASE s = "queue"
    <3>1. CASE r = p
      <4>1. ASSUME NEW q \in Procs \ {p}, phase'[q] \in Users(s)
            PROVE  q \in Others(p, Writers)
        BY <2>1, <2>4, <4>1 DEF Others
      <4>2. QED
        BY <2>1, <2>2, <2>4, <3>1, <4>1
    <3>2. CASE r # p
      <4>1. r \in Others(p, Writers)
        BY <2>1, <2>4, <3>2 DEF Others
      <4>2. QED
        BY <2>2, <2>4, <4>1
    <3>3. QED
      BY <3>1, <3>2
  <2>5. QED
    BY <2>3, <2>4
<1>3. QED
  BY <1>1, <1>2

\* The steps that write, or change the copy in memory, leave the phases alone
\* as far as the use of files goes; the copy that is written is the writer's.
LEMMA CopyWritten ==
    ASSUME TypeOK, CopyInv, NEW p \in Procs,
           \/ Enrol(p)
           \/ \E s \in Stores, deferred \in BOOLEAN : Change(p, s, deferred)
           \/ \E s \in Stores : Flush(p, s)
    PROVE  /\ CopyInv'
           /\ met' = met
           /\ \A s \in Stores : \/ file'[s] = file[s]
                                \/ /\ file'[s] = mem'[p][s]
                                   /\ mem[p][s] \subseteq mem'[p][s]
                                   /\ phase[p] \in Users(s)
<1> USE DEF TypeOK, At, Stores, Users, Alive, Starting, Writers
<1>1. /\ met' = met
      /\ \A q \in Procs, s \in Stores : phase'[q] \in Users(s) => phase[q] \in Users(s)
      /\ \A q \in Procs \ {p} : mem'[q] = mem[q]
  BY DEF Enrol, Change, Flush, Known
<1>2. \A s \in Stores : mem[p][s] \subseteq mem'[p][s]
  BY DEF Enrol, Change, Flush, Known
<1>3. \A s \in Stores : \/ file'[s] = file[s]
                        \/ file'[s] = mem'[p][s] /\ phase[p] \in Users(s)
  <2>1. CASE Enrol(p)
    <3>1. CASE 0 \in mem[p]["roster"]
      BY <2>1, <3>1 DEF Enrol
    <3>2. CASE 0 \notin mem[p]["roster"]
      <4>1. /\ mem'[p]["roster"] = mem[p]["roster"] \cup {0}
            /\ file' = [file EXCEPT !["roster"] = mem[p]["roster"] \cup {0}]
        BY <2>1, <3>2 DEF Enrol, Known
      <4>2. phase[p] = "locked"
        BY <2>1 DEF Enrol
      <4>3. QED
        BY <4>1, <4>2
    <3>3. QED
      BY <3>1, <3>2
  <2>2. CASE \E s \in Stores, deferred \in BOOLEAN : Change(p, s, deferred)
    BY <2>2 DEF Change, Known
  <2>3. CASE \E s \in Stores : Flush(p, s)
    BY <2>3 DEF Flush
  <2>4. QED
    BY <2>1, <2>2, <2>3
<1>4. CopyInv'
  <2> SUFFICES ASSUME NEW s \in Stores, NEW r \in Procs, phase'[r] \in Users(s)
               PROVE  /\ \A q \in Procs \ {r} : phase'[q] \in Users(s) => r \in met'[s]
                      /\ r \notin met'[s] => file'[s] \subseteq mem'[r][s]
    BY DEF CopyInv
  <2>1. \A q \in Procs \ {r} : phase'[q] \in Users(s) => r \in met'[s]
    BY <1>1 DEF CopyInv
  <2>2. ASSUME r \notin met'[s] PROVE file'[s] \subseteq mem'[r][s]
    <3>1. file[s] \subseteq mem[r][s] /\ phase[r] \in Users(s)
      BY <1>1, <2>2 DEF CopyInv
    <3>2. CASE r = p
      BY <1>2, <1>3, <3>1, <3>2
    <3>3. CASE r # p
      <4>1. phase[p] \notin Users(s)
        BY <1>1, <2>2, <3>1, <3>3 DEF CopyInv
      <4>2. file'[s] = file[s]
        BY <1>3, <4>1
      <4>3. QED
        BY <1>1, <3>1, <3>3, <4>2
    <3>4. QED
      BY <3>2, <3>3
  <2>3. QED
    BY <2>1, <2>2
<1>5. QED
  BY <1>1, <1>2, <1>3, <1>4

\* The other steps write nothing, and at most end the use of files.
LEMMA CopyKept ==
    ASSUME TypeOK, CopyInv, NEW p \in Procs,
           \/ Acquire(p) \/ Identify(p) \/ MissFile(p) \/ Create(p)
           \/ Stop(p) \/ Return(p) \/ Exit(p)
    PROVE  CopyInv'
<1> USE DEF TypeOK, At, Stores, Users, Alive, Starting, Writers
<1>1. CASE \/ Acquire(p) \/ Identify(p) \/ MissFile(p) \/ Create(p)
           \/ Stop(p) \/ Return(p)
  <2>1. UNCHANGED <<mem, file, met>>
    BY <1>1 DEF Acquire, Identify, MissFile, Create, Stop, Return
  <2>2. \A q \in Procs, s \in Stores : phase'[q] \in Users(s) => phase[q] \in Users(s)
    BY <1>1 DEF Acquire, Identify, MissFile, Create, Stop, Return
  <2>3. QED
    BY <2>1, <2>2 DEF CopyInv
<1>2. CASE Exit(p)
  <2>1. /\ file' = file /\ phase'[p] = "off"
        /\ \A q \in Procs \ {p} : phase'[q] = phase[q] /\ mem'[q] = mem[q]
        /\ \A s \in Stores : met'[s] = met[s] \ {p}
    BY <1>2 DEF Exit
  <2>2. QED
    BY <2>1 DEF CopyInv
<1>3. QED
  BY <1>1, <1>2

\* A file forgets a change only by the write of a process that used it at the
\* same time as another: a lone process loads what is there before it writes,
\* however often it is killed and started (service.go:98-115, 281, 354-356).
THEOREM FilesRemember == Spec => NothingForgotten
<1>1. Init => CopyInv
  BY DEF Init, CopyInv, Users, Alive, Starting, Writers
<1>2. TypeOK /\ CopyInv /\ [Next]_vars => CopyInv'
  <2> SUFFICES ASSUME TypeOK, CopyInv, [Next]_vars PROVE CopyInv'
    OBVIOUS
  <2>1. CASE UNCHANGED vars
    BY <2>1 DEF CopyInv, vars
  <2>2. CASE Next
    BY <2>2, CopyBegins, CopyWritten, CopyKept DEF Next
  <2>3. QED
    BY <2>1, <2>2
<1>3. TypeOK /\ CopyInv /\ [Next]_vars =>
        [\A s \in Stores :
           file[s] \subseteq file'[s] \/ \E p \in met[s] : file'[s] = mem'[p][s]]_vars
  <2> SUFFICES ASSUME TypeOK, CopyInv, Next, NEW s \in Stores
               PROVE  \/ file[s] \subseteq file'[s]
                      \/ \E p \in met[s] : file'[s] = mem'[p][s]
    BY DEF vars
  <2>1. PICK p \in Procs :
           \/ Load(p) \/ Acquire(p) \/ Enrol(p) \/ Identify(p) \/ MissFile(p)
           \/ Create(p) \/ Run(p)
           \/ \E t \in Stores, deferred \in BOOLEAN : Change(p, t, deferred)
           \/ \E t \in Stores : Flush(p, t)
           \/ Stop(p) \/ Return(p) \/ Exit(p)
    BY DEF Next
  <2>2. CASE \/ Load(p) \/ Acquire(p) \/ Identify(p) \/ MissFile(p)
             \/ Create(p) \/ Run(p)
             \/ Stop(p) \/ Return(p) \/ Exit(p)
    BY <2>2 DEF Load, Acquire, Identify, MissFile, Create, Run, Stop, Return, Exit
  <2>3. CASE \/ Enrol(p)
             \/ \E t \in Stores, deferred \in BOOLEAN : Change(p, t, deferred)
             \/ \E t \in Stores : Flush(p, t)
    <3>1. \/ file'[s] = file[s]
          \/ /\ file'[s] = mem'[p][s] /\ mem[p][s] \subseteq mem'[p][s]
             /\ phase[p] \in Users(s)
      BY <2>3, CopyWritten
    <3>2. phase[p] \in Users(s) /\ p \notin met[s] => file[s] \subseteq mem[p][s]
      BY DEF CopyInv
    <3>3. QED
      BY <3>1, <3>2
  <2>4. QED
    BY <2>1, <2>2, <2>3
<1>4. Inv => TypeOK
  BY DEF Inv
<1>5. QED
  BY <1>1, <1>2, <1>3, <1>4, LifecycleInvariant, PTL DEF Spec, NothingForgotten

\* The state has its type: in particular the lock is held only by a process that
\* is past acquiring it and has not exited (service.go:98-115, lock.go).
THEOREM TypeCorrect == Spec => []TypeOK
<1>1. Inv => TypeOK
  BY DEF Inv
<1>2. QED
  BY <1>1, LifecycleInvariant, PTL
=============================================================================
