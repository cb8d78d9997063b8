-------------------------- MODULE AetCollect_proofs --------------------------
(* The stages of a link find what earlier calls of make have left.         *)
EXTENDS AetCollect, TLAPS

(* No file is from the future.                                             *)
TimesPast == /\ middleTime <= now
             /\ \A f \in Sources : collectTime[f] <= now
             /\ \A h \in Headers : headerTime[h] <= now /\ ifaceTime[h] <= now

(* make links when each source has been compiled.                          *)
NotesThere == \A f \in Sources : f \notin dirty \/ stage # "make" => collectTime[f] # Absent

(* A note older than the object of the middle file has been read for it.   *)
NotesRead == middleTime # Absent =>
                \A f \in Sources :
                    collectTime[f] # Absent /\ collectTime[f] < middleTime =>
                        middleFrom[f] = content[f]

BlocksListed == middleTime # Absent => blockList = ListFor(middleFrom)

StaleLater == \A h \in stale : headerTime[h] >= ifaceTime[h]

(* What becomes of an interface that is used: its user is compiled again,  *)
(* its header is listed, or there is nothing to do - as far as the notes   *)
(* have been collected.                                                    *)
IfacesListed ==
    middleTime # Absent /\ ~listLost =>
        \A f \in Sources \ edited, h \in Headers :
            h \in content[f].ifaces =>
                \/ h \in ifaceList \/ UpToDate(h)
                \/ stage \in {"make", "middle"} /\ collectTime[f] >= middleTime

Inv == /\ BuildTypeOK /\ TimesPast /\ NotesThere /\ NotesRead /\ MiddleCurrent
       /\ BlocksListed /\ Specialised /\ StaleLater /\ IfacesListed /\ InterfacesPresent
-----------------------------------------------------------------------------
LEMMA InitInv == BuildInit => Inv
<1> SUFFICES ASSUME BuildInit PROVE Inv
    OBVIOUS
<1> USE DEF BuildInit, Absent
<1>1. BuildTypeOK
  <2>1. objBlocks = [f \in Sources |-> objBlocks[f]] /\ content = [f \in Sources |-> content[f]]
        BY DEF NoBlocks, NoNote
  <2>2. /\ blockList = [files |-> blockList.files, blocks |-> blockList.blocks]
        /\ blockList.files \subseteq Sources
        BY DEF NoList
  <2>3. collectTime \in [Sources -> Nat] /\ headerTime \in [Headers -> Nat] /\ ifaceTime \in [Headers -> Nat]
        OBVIOUS
  <2>4. middleFrom = [f \in Sources |-> middleFrom[f]]
        BY <2>1
  <2>5. now \in Nat \ {0} /\ edits \in Nat /\ middleTime \in Nat
        OBVIOUS
  <2>6. linked \in BOOLEAN /\ middleObj \in BOOLEAN /\ listLost \in BOOLEAN
        OBVIOUS
  <2> HIDE DEF BuildInit
  <2>7. /\ dirty \subseteq Sources /\ edited \subseteq Sources /\ stale \subseteq Headers
        /\ ifaceList \subseteq Headers /\ ifaceC \subseteq Headers /\ stage \in Stages
        BY DEF BuildInit, Stages
  <2> QED BY <2>1, <2>2, <2>3, <2>4, <2>5, <2>6, <2>7 DEF BuildTypeOK
<1>2. NotesThere
      BY DEF NotesThere
<1>3. TimesPast
      BY DEF TimesPast
<1>4. NotesRead /\ MiddleCurrent /\ BlocksListed /\ Specialised /\ StaleLater /\ IfacesListed /\ InterfacesPresent
      BY DEF NotesRead, MiddleCurrent, BlocksListed, Specialised, StaleLater, IfacesListed, InterfacesPresent, AfterMiddle
<1> QED BY <1>1, <1>2, <1>3, <1>4 DEF Inv

(* Which steps change what.                                                *)
LEMMA TypeStep == BuildTypeOK /\ [BuildNext]_buildVars => BuildTypeOK'
<1> SUFFICES ASSUME BuildTypeOK, [BuildNext]_buildVars PROVE BuildTypeOK'
    OBVIOUS
<1> USE DEF BuildTypeOK, Stages, Absent
<1>1. CASE Tick BY <1>1 DEF Tick, sourceVars, headerVars, middleVars, ifaceVars
<1>2. CASE StartLink BY <1>2 DEF StartLink, sourceVars, headerVars, middleVars, ifaceVars
<1>3. CASE Interrupt BY <1>3 DEF Interrupt, sourceVars, headerVars, middleVars, ifaceVars
<1>4. ASSUME NEW f \in Sources, Edit(f) PROVE BuildTypeOK'
      BY <1>4 DEF Edit, headerVars, middleVars, ifaceVars
<1>5. ASSUME NEW f \in Sources, FirstCompile(f) PROVE BuildTypeOK'
  <2>1. content' = [g \in Sources |-> content'[g]]
        BY <1>5 DEF FirstCompile
  <2>2. objBlocks' = [g \in Sources |-> objBlocks'[g]] /\ collectTime' \in [Sources -> Nat]
        BY <1>5 DEF FirstCompile
  <2> QED BY <1>5, <2>1, <2>2 DEF FirstCompile, headerVars, middleVars, ifaceVars
<1>6. ASSUME NEW f \in Sources, FirstFails(f) PROVE BuildTypeOK'
      BY <1>6 DEF FirstFails, headerVars, middleVars, ifaceVars
<1>7. ASSUME NEW h \in Headers, EditHeader(h) PROVE BuildTypeOK'
      BY <1>7 DEF EditHeader, middleVars, ifaceVars
<1>8. ASSUME ReadyIfaces PROVE /\ ifaceList' \subseteq Headers /\ ifaceC' \subseteq Headers
                              /\ ifaceTime' \in [Headers -> Nat] /\ listLost' = FALSE
  <2>1. Outdated({h \in ifaceC : ifaceTime[h] # Absent}) \subseteq Headers
        BY DEF Outdated, UsedIfaces
  <2>2. listLost' = FALSE /\ ifaceList' \subseteq Headers
        BY <1>8, <2>1 DEF ReadyIfaces
  <2>3. CASE UsedIfaces(content) = {}
        BY <1>8, <2>2, <2>3 DEF ReadyIfaces
  <2>4. CASE UsedIfaces(content) # {}
    <3>1. ifaceC' \subseteq Headers
          BY <1>8, <2>1, <2>4 DEF ReadyIfaces
    <3>2. \E s : ifaceTime' = [h \in Headers |-> IF h \in s THEN ifaceTime[h] ELSE Absent]
          BY <1>8, <2>4, Zenon DEF ReadyIfaces
    <3>3. ifaceTime' \in [Headers -> Nat]
          BY <3>2
    <3> QED BY <2>2, <3>1, <3>3
  <2> QED BY <2>3, <2>4
<1>9. /\ ListFor(content).files \subseteq Sources
      /\ ListFor(content) = [files |-> ListFor(content).files, blocks |-> ListFor(content).blocks]
      BY DEF ListFor, Roots, NoList
<1>10. CASE CompileMiddle BY <1>8, <1>9, <1>10 DEF CompileMiddle, sourceVars, headerVars
<1>11. CASE MiddleFails
       BY <1>8, <1>9, <1>11 DEF MiddleFails, sourceVars, headerVars, ifaceVars
<1>12. CASE SkipMiddle
       BY <1>12 DEF SkipMiddle, sourceVars, headerVars, middleVars, ifaceVars
<1>13. ASSUME NEW done, NEW failed, Compiled(done, failed)
       PROVE  ifaceTime' \in [Headers -> Nat] /\ stale' \subseteq Headers
       BY <1>13 DEF Compiled
<1>14. CASE CompileIfaces BY <1>13, <1>14 DEF CompileIfaces, sourceVars, middleVars
<1>15. CASE IfacesFail BY <1>13, <1>15 DEF IfacesFail, sourceVars, middleVars
<1>16. CASE SpawnFails BY <1>13, <1>16 DEF SpawnFails, sourceVars, middleVars
<1>23. CASE InterruptIfaces BY <1>13, <1>23 DEF InterruptIfaces, sourceVars, middleVars
<1>24. CASE InterruptSecond
       BY <1>24 DEF InterruptSecond, headerVars, middleVars, ifaceVars
<1>17. ASSUME NEW done, done \subseteq blockList.files, Specialise(done)
       PROVE  objBlocks' = [f \in Sources |-> objBlocks'[f]] /\ dirty' \subseteq Sources
       BY <1>17 DEF Specialise
<1>18. CASE SecondCompile
       BY <1>17, <1>18 DEF SecondCompile, headerVars, middleVars, ifaceVars
<1>19. CASE SecondFails
       BY <1>17, <1>19 DEF SecondFails, headerVars, middleVars, ifaceVars
<1>20. CASE Argv BY <1>20 DEF Argv, sourceVars, headerVars, ifaceVars
<1>21. CASE Ld BY <1>21 DEF Ld, sourceVars, headerVars, middleVars, ifaceVars
<1>22. CASE UNCHANGED buildVars
       BY <1>22 DEF buildVars, sourceVars, headerVars, middleVars, ifaceVars
<1> QED BY <1>1, <1>2, <1>3, <1>4, <1>5, <1>6, <1>7, <1>10, <1>11, <1>12, <1>14, <1>15, <1>16, <1>18, <1>19, <1>20, <1>21, <1>22, <1>23, <1>24 DEF BuildNext

LEMMA ReadyTimes == BuildTypeOK /\ ReadyIfaces => \A h \in Headers : ifaceTime'[h] = ifaceTime[h] \/ ifaceTime'[h] = Absent
<1> SUFFICES ASSUME BuildTypeOK, ReadyIfaces, NEW h \in Headers
             PROVE  ifaceTime'[h] = ifaceTime[h] \/ ifaceTime'[h] = Absent
    OBVIOUS
<1>1. CASE UsedIfaces(content) = {} BY <1>1 DEF ReadyIfaces
<1>2. CASE UsedIfaces(content) # {} BY <1>2 DEF ReadyIfaces
<1> QED BY <1>1, <1>2

(* The steps of a link that compile interfaces.                            *)
CompilesIfaces == \E done, failed : /\ Compiled(done, failed) /\ UNCHANGED headerTime
                                    /\ done \subseteq ifaceList /\ failed \subseteq ifaceList \ done

LEMMA CompilingIfaces == CompileIfaces \/ IfacesFail \/ SpawnFails \/ InterruptIfaces => CompilesIfaces
<1>1. CompileIfaces => CompilesIfaces BY DEF CompileIfaces, CompilesIfaces
<1>2. IfacesFail => CompilesIfaces BY DEF IfacesFail, CompilesIfaces
<1>3. SpawnFails => CompilesIfaces BY DEF SpawnFails, CompilesIfaces
<1>4. InterruptIfaces => CompilesIfaces BY DEF InterruptIfaces, CompilesIfaces
<1> QED BY <1>1, <1>2, <1>3, <1>4

LEMMA TimesStep == BuildTypeOK /\ TimesPast /\ [BuildNext]_buildVars => TimesPast'
<1> SUFFICES ASSUME BuildTypeOK, TimesPast, [BuildNext]_buildVars PROVE TimesPast'
    OBVIOUS
<1>t. /\ now \in Nat \ {0} /\ middleTime \in Nat /\ collectTime \in [Sources -> Nat]
      /\ headerTime \in [Headers -> Nat] /\ ifaceTime \in [Headers -> Nat]
      BY DEF BuildTypeOK
<1>1. CASE UNCHANGED <<now, middleTime, collectTime, headerTime, ifaceTime>>
      BY <1>1 DEF TimesPast
<1>2. CASE Tick
      BY <1>t, <1>2 DEF Tick, TimesPast, sourceVars, headerVars, middleVars, ifaceVars
<1>3. ASSUME NEW f \in Sources, FirstCompile(f) \/ FirstFails(f) PROVE TimesPast'
      BY <1>t, <1>3 DEF FirstCompile, FirstFails, TimesPast, Absent, headerVars, middleVars, ifaceVars
<1>4. ASSUME NEW h \in Headers, EditHeader(h) PROVE TimesPast'
      BY <1>t, <1>4 DEF EditHeader, TimesPast, middleVars, ifaceVars
<1>5. CASE CompileMiddle \/ MiddleFails
  <2>1. UNCHANGED <<now, collectTime, headerTime>> /\ (middleTime' = now \/ middleTime' = Absent)
        BY <1>5 DEF CompileMiddle, MiddleFails, sourceVars, headerVars
  <2>2. UNCHANGED ifaceTime \/ ReadyIfaces
        BY <1>5 DEF CompileMiddle, MiddleFails, ifaceVars
  <2>3. \A h \in Headers : ifaceTime'[h] = ifaceTime[h] \/ ifaceTime'[h] = Absent
        BY <2>2, ReadyTimes
  <2> QED BY <1>t, <2>1, <2>3 DEF TimesPast, Absent
<1>6. CASE CompileIfaces \/ IfacesFail \/ SpawnFails \/ InterruptIfaces
  <2>1. UNCHANGED <<now, middleTime, collectTime, headerTime>>
        BY <1>6 DEF CompileIfaces, IfacesFail, SpawnFails, InterruptIfaces, sourceVars, middleVars
  <2>2. \A h \in Headers : ifaceTime'[h] = now \/ ifaceTime'[h] = Absent \/ ifaceTime'[h] = ifaceTime[h]
        BY <1>6, CompilingIfaces DEF CompilesIfaces, Compiled
  <2> QED BY <1>t, <2>1, <2>2 DEF TimesPast, Absent
<1>7. CASE Argv
      BY <1>t, <1>7 DEF Argv, TimesPast, sourceVars, headerVars, ifaceVars
<1>8. CASE StartLink \/ Interrupt \/ SkipMiddle \/ SecondCompile \/ SecondFails \/ InterruptSecond \/ Ld \/ UNCHANGED buildVars
      BY <1>1, <1>8 DEF StartLink, Interrupt, SkipMiddle, SecondCompile, SecondFails, InterruptSecond, Ld, buildVars, sourceVars, headerVars, middleVars, ifaceVars
<1>9. ASSUME NEW f \in Sources, Edit(f) PROVE TimesPast'
      BY <1>1, <1>9 DEF Edit, headerVars, middleVars, ifaceVars
<1> QED BY <1>2, <1>3, <1>4, <1>5, <1>6, <1>7, <1>8, <1>9 DEF BuildNext

LEMMA NotesThereStep == BuildTypeOK /\ NotesThere /\ [BuildNext]_buildVars => NotesThere'
<1> SUFFICES ASSUME BuildTypeOK, NotesThere, [BuildNext]_buildVars PROVE NotesThere'
    OBVIOUS
<1>t. /\ now \in Nat \ {0} /\ collectTime \in [Sources -> Nat]
      BY DEF BuildTypeOK
<1>1. CASE UNCHANGED <<collectTime, stage>> /\ dirty \subseteq dirty'
      BY <1>1 DEF NotesThere
<1>2. ASSUME NEW f \in Sources, FirstCompile(f) \/ FirstFails(f) PROVE NotesThere'
      BY <1>t, <1>2 DEF FirstCompile, FirstFails, NotesThere, Absent, headerVars, middleVars, ifaceVars
<1>3. CASE StartLink
      BY <1>3 DEF StartLink, NotesThere, sourceVars
<1>4. CASE stage # "make" /\ UNCHANGED collectTime
      BY <1>4 DEF NotesThere
<1>5. CASE Interrupt \/ CompileMiddle \/ MiddleFails \/ SkipMiddle \/ CompileIfaces \/ IfacesFail \/ SpawnFails \/ InterruptIfaces
      BY <1>4, <1>5 DEF Interrupt, CompileMiddle, MiddleFails, SkipMiddle, CompileIfaces, IfacesFail, SpawnFails, InterruptIfaces, sourceVars
<1>6. CASE SecondCompile \/ SecondFails \/ InterruptSecond \/ Argv \/ Ld
      BY <1>4, <1>6 DEF SecondCompile, SecondFails, InterruptSecond, Argv, Ld, sourceVars
<1>7. ASSUME NEW f \in Sources, Edit(f) PROVE NotesThere'
      BY <1>1, <1>7 DEF Edit
<1>8. ASSUME NEW h \in Headers, EditHeader(h) PROVE NotesThere'
      BY <1>1, <1>8 DEF EditHeader
<1>9. CASE Tick \/ UNCHANGED buildVars
      BY <1>1, <1>9 DEF Tick, buildVars, sourceVars
<1> QED BY <1>2, <1>3, <1>5, <1>6, <1>7, <1>8, <1>9 DEF BuildNext

LEMMA MiddleStep == BuildTypeOK /\ TimesPast /\ NotesThere /\ NotesRead /\ MiddleCurrent /\ [BuildNext]_buildVars => NotesRead' /\ MiddleCurrent'
<1> SUFFICES ASSUME BuildTypeOK, TimesPast, NotesThere, NotesRead, MiddleCurrent, [BuildNext]_buildVars
             PROVE  NotesRead' /\ MiddleCurrent'
    OBVIOUS
<1>t. /\ now \in Nat \ {0} /\ middleTime \in Nat /\ collectTime \in [Sources -> Nat]
      /\ content = [f \in Sources |-> content[f]] /\ middleFrom = [f \in Sources |-> middleFrom[f]]
      BY DEF BuildTypeOK
<1>1. ASSUME UNCHANGED <<content, collectTime, middleTime, middleFrom>>, stage' \in AfterMiddle => stage \in AfterMiddle
      PROVE  NotesRead' /\ MiddleCurrent'
      BY <1>1 DEF NotesRead, MiddleCurrent
<1>2. ASSUME NEW f \in Sources, FirstCompile(f) PROVE NotesRead' /\ MiddleCurrent'
  <2>1. /\ stage' = "make" /\ UNCHANGED <<middleTime, middleFrom>> /\ middleTime <= now
        /\ collectTime' = [collectTime EXCEPT ![f] = now]
        /\ \A g \in Sources : g # f => content'[g] = content[g]
        BY <1>t, <1>2 DEF FirstCompile, TimesPast, middleVars
  <2> QED BY <1>t, <2>1 DEF NotesRead, MiddleCurrent, AfterMiddle
<1>3. ASSUME NEW f \in Sources, FirstFails(f) PROVE NotesRead' /\ MiddleCurrent'
  <2>1. /\ stage' = "make" /\ UNCHANGED <<middleTime, middleFrom>>
        /\ collectTime' = [collectTime EXCEPT ![f] = Absent]
        /\ \A g \in Sources : g # f => content'[g] = content[g]
        BY <1>t, <1>3 DEF FirstFails, middleVars
  <2> QED BY <1>t, <2>1 DEF NotesRead, MiddleCurrent, AfterMiddle
<1>4. CASE CompileMiddle
      BY <1>t, <1>4 DEF CompileMiddle, NotesRead, MiddleCurrent, AfterMiddle, Absent, sourceVars
<1>5. CASE MiddleFails
      BY <1>5 DEF MiddleFails, NotesRead, MiddleCurrent, AfterMiddle
<1>6. CASE SkipMiddle
  <2>1. middleTime # Absent /\ UNCHANGED <<content, collectTime, middleTime, middleFrom>>
        BY <1>6 DEF SkipMiddle, NeedsMiddle, sourceVars, middleVars
  <2>2. \A f \in Sources : collectTime[f] # Absent /\ collectTime[f] < middleTime
        BY <1>t, <1>6 DEF SkipMiddle, NeedsMiddle, NotesThere
  <2>3. middleFrom = content
        BY <1>t, <2>1, <2>2 DEF NotesRead
  <2> QED BY <2>1, <2>3 DEF NotesRead, MiddleCurrent
<1>7. CASE Argv
  <2>1. /\ middleFrom = content /\ middleTime # Absent
        BY <1>7 DEF Argv, MiddleCurrent, AfterMiddle
  <2>2. /\ UNCHANGED <<content, middleFrom>> /\ middleTime' # Absent
        BY <1>t, <1>7, <2>1 DEF Argv, sourceVars, Absent
  <2> QED BY <2>1, <2>2 DEF NotesRead, MiddleCurrent
<1>8. CASE CompileIfaces \/ IfacesFail \/ SpawnFails \/ InterruptIfaces \/ SecondCompile \/ SecondFails \/ InterruptSecond
      BY <1>1, <1>8 DEF CompileIfaces, IfacesFail, SpawnFails, InterruptIfaces, SecondCompile, SecondFails, InterruptSecond, AfterMiddle, sourceVars, middleVars
<1>9. CASE Tick \/ StartLink \/ Interrupt \/ Ld \/ UNCHANGED buildVars
      BY <1>1, <1>9 DEF Tick, StartLink, Interrupt, Ld, AfterMiddle, buildVars, sourceVars, middleVars
<1>10. ASSUME NEW f \in Sources, Edit(f) PROVE NotesRead' /\ MiddleCurrent'
       BY <1>1, <1>10 DEF Edit, middleVars
<1>11. ASSUME NEW h \in Headers, EditHeader(h) PROVE NotesRead' /\ MiddleCurrent'
       BY <1>1, <1>11 DEF EditHeader, middleVars
<1> QED BY <1>2, <1>3, <1>4, <1>5, <1>6, <1>7, <1>8, <1>9, <1>10, <1>11 DEF BuildNext

LEMMA BlocksStep == BuildTypeOK /\ MiddleCurrent /\ BlocksListed /\ Specialised /\ [BuildNext]_buildVars => BlocksListed' /\ Specialised'
<1> SUFFICES ASSUME BuildTypeOK, MiddleCurrent, BlocksListed, Specialised, [BuildNext]_buildVars
             PROVE  BlocksListed' /\ Specialised'
    OBVIOUS
<1>1. ASSUME UNCHANGED <<middleTime, middleFrom, blockList>>,
             stage' \in {"argv", "ld"} => stage \in {"argv", "ld"} /\ UNCHANGED <<content, objBlocks>>
      PROVE  BlocksListed' /\ Specialised'
  <2>1. BlocksListed'
        BY <1>1 DEF BlocksListed, ListFor, Roots, Blocks, NoBlocks, NoList
  <2>2. Specialised'
        BY <1>1 DEF Specialised, Roots, Blocks, NoBlocks
  <2> QED BY <2>1, <2>2
<1>2. CASE CompileMiddle
  <2>1. blockList' = ListFor(content) /\ middleFrom' = content /\ stage' = "ifaces"
        BY <1>2 DEF CompileMiddle
  <2> QED BY <2>1 DEF BlocksListed, Specialised, ListFor, Roots, Blocks, NoBlocks, NoList
<1>3. CASE MiddleFails
      BY <1>3 DEF MiddleFails, BlocksListed, Specialised
<1>4. CASE SecondCompile
  <2>1. blockList = ListFor(content) /\ UNCHANGED <<middleTime, middleFrom, blockList, content>>
        BY <1>4 DEF SecondCompile, MiddleCurrent, AfterMiddle, BlocksListed, middleVars
  <2>2. BlocksListed'
        BY <2>1 DEF BlocksListed, ListFor, Roots, Blocks, NoBlocks, NoList
  <2>3. ASSUME Blocks(content) # NoBlocks, NEW f \in Roots(content)
        PROVE  objBlocks'[f] = Blocks(content)
    <3>1. blockList = [files |-> Roots(content), blocks |-> Blocks(content)]
          BY <2>1, <2>3 DEF ListFor
    <3>2. f \in Sources /\ f \in blockList.files
          BY <2>3, <3>1 DEF Roots
    <3> QED BY <1>4, <3>1, <3>2 DEF SecondCompile, Specialise
  <2> QED BY <2>1, <2>2, <2>3 DEF Specialised, Roots, Blocks, NoBlocks
<1>5. CASE Argv
  <2>1. middleTime # Absent /\ UNCHANGED <<middleFrom, blockList, content, objBlocks>> /\ stage = "argv"
        BY <1>5 DEF Argv, MiddleCurrent, AfterMiddle, sourceVars
  <2> QED BY <2>1 DEF BlocksListed, Specialised, ListFor, Roots, Blocks, NoBlocks, NoList
<1>6. CASE Tick \/ StartLink \/ Interrupt \/ SkipMiddle \/ Ld \/ UNCHANGED buildVars
      BY <1>1, <1>6 DEF Tick, StartLink, Interrupt, SkipMiddle, Ld, buildVars, sourceVars, middleVars
<1>7. CASE CompileIfaces \/ IfacesFail \/ SpawnFails \/ InterruptIfaces \/ SecondFails \/ InterruptSecond
      BY <1>1, <1>7 DEF CompileIfaces, IfacesFail, SpawnFails, InterruptIfaces, SecondFails, InterruptSecond, sourceVars, middleVars
<1>8. ASSUME NEW f \in Sources, Edit(f) \/ FirstCompile(f) \/ FirstFails(f) PROVE BlocksListed' /\ Specialised'
      BY <1>1, <1>8 DEF Edit, FirstCompile, FirstFails, middleVars
<1>9. ASSUME NEW h \in Headers, EditHeader(h) PROVE BlocksListed' /\ Specialised'
      BY <1>1, <1>9 DEF EditHeader, middleVars
<1> QED BY <1>2, <1>3, <1>4, <1>5, <1>6, <1>7, <1>8, <1>9 DEF BuildNext

LEMMA StaleStep == BuildTypeOK /\ TimesPast /\ StaleLater /\ [BuildNext]_buildVars => StaleLater'
<1> SUFFICES ASSUME BuildTypeOK, TimesPast, StaleLater, [BuildNext]_buildVars PROVE StaleLater'
    OBVIOUS
<1>t. /\ now \in Nat \ {0} /\ headerTime \in [Headers -> Nat] /\ ifaceTime \in [Headers -> Nat]
      /\ stale \subseteq Headers
      BY DEF BuildTypeOK
<1>1. CASE UNCHANGED <<headerTime, ifaceTime, stale>>
      BY <1>1 DEF StaleLater
<1>2. ASSUME NEW h \in Headers, EditHeader(h) PROVE StaleLater'
      BY <1>t, <1>2 DEF EditHeader, StaleLater, TimesPast, ifaceVars
<1>3. CASE CompileMiddle \/ MiddleFails
  <2>1. UNCHANGED <<headerTime, stale>> /\ (UNCHANGED ifaceTime \/ ReadyIfaces)
        BY <1>3 DEF CompileMiddle, MiddleFails, headerVars, ifaceVars
  <2>2. \A h \in Headers : ifaceTime'[h] = ifaceTime[h] \/ ifaceTime'[h] = Absent
        BY <2>1, ReadyTimes
  <2> QED BY <1>t, <2>1, <2>2 DEF StaleLater, Absent
<1>4. CASE CompileIfaces \/ IfacesFail \/ SpawnFails \/ InterruptIfaces
  <2>1. PICK done, failed : Compiled(done, failed) /\ UNCHANGED headerTime
        BY <1>4, CompilingIfaces DEF CompilesIfaces
  <2>2. ASSUME NEW h \in stale' PROVE headerTime'[h] >= ifaceTime'[h]
    <3>1. h \in stale /\ h \in Headers /\ h \notin done
          BY <1>t, <2>1, <2>2 DEF Compiled
    <3>2. ifaceTime'[h] = Absent \/ ifaceTime'[h] = ifaceTime[h]
          BY <2>1, <3>1 DEF Compiled
    <3> QED BY <1>t, <2>1, <3>1, <3>2 DEF StaleLater, Absent
  <2> QED BY <2>2 DEF StaleLater
<1>5. CASE Tick \/ StartLink \/ Interrupt \/ SkipMiddle \/ SecondCompile \/ SecondFails \/ InterruptSecond \/ Argv \/ Ld \/ UNCHANGED buildVars
      BY <1>1, <1>5 DEF Tick, StartLink, Interrupt, SkipMiddle, SecondCompile, SecondFails, InterruptSecond, Argv, Ld, buildVars, headerVars, ifaceVars
<1>6. ASSUME NEW f \in Sources, Edit(f) \/ FirstCompile(f) \/ FirstFails(f) PROVE StaleLater'
      BY <1>1, <1>6 DEF Edit, FirstCompile, FirstFails, headerVars, ifaceVars
<1> QED BY <1>2, <1>3, <1>4, <1>5, <1>6 DEF BuildNext

(* An interface that is not listed afterwards has its object.              *)
LEMMA ReadyLists == BuildTypeOK /\ StaleLater /\ ReadyIfaces /\ UNCHANGED <<headerTime, stale>> =>
                        \A h \in UsedIfaces(content) : h \in ifaceList' \/ UpToDate(h)'
<1> SUFFICES ASSUME BuildTypeOK, StaleLater, ReadyIfaces, UNCHANGED <<headerTime, stale>>,
                    NEW h \in UsedIfaces(content), h \notin ifaceList'
             PROVE  UpToDate(h)'
    OBVIOUS
<1> DEFINE kept == {g \in ifaceC : ifaceTime[g] # Absent}
<1>1. ifaceList' = Outdated(kept) /\ h \in Headers
      BY DEF ReadyIfaces, UsedIfaces
<1>2. h \in kept /\ ~(headerTime[h] > ifaceTime[h]) /\ ifaceTime[h] # Absent
      BY <1>1 DEF Outdated
<1>3. ifaceTime' = [g \in Headers |-> IF g \in kept \ Outdated(kept) THEN ifaceTime[g] ELSE Absent]
      BY DEF ReadyIfaces
<1>4. ifaceTime'[h] = ifaceTime[h]
      BY <1>1, <1>2, <1>3
<1>5. h \in stale => headerTime[h] = ifaceTime[h]
  <2>1. headerTime[h] \in Nat /\ ifaceTime[h] \in Nat
        BY <1>1 DEF BuildTypeOK
  <2> QED BY <1>2, <2>1 DEF StaleLater
<1> QED BY <1>2, <1>4, <1>5 DEF UpToDate

(* Compiling leaves what is up to date as it is, unless it is listed.      *)
LEMMA CompilingKeeps == BuildTypeOK /\ CompilesIfaces => \A h \in Headers : UpToDate(h) => h \in ifaceList \/ UpToDate(h)'
<1> SUFFICES ASSUME BuildTypeOK, CompilesIfaces, NEW h \in Headers, UpToDate(h), h \notin ifaceList
             PROVE  UpToDate(h)'
    OBVIOUS
<1>1. PICK done, failed : /\ Compiled(done, failed) /\ UNCHANGED headerTime
                          /\ done \subseteq ifaceList /\ failed \subseteq ifaceList \ done
      BY DEF CompilesIfaces
<1>2. h \notin done /\ h \notin failed
      BY <1>1
<1> QED BY <1>1, <1>2 DEF Compiled, UpToDate

LEMMA IfacesStep == BuildTypeOK /\ TimesPast /\ MiddleCurrent /\ StaleLater /\ IfacesListed /\ InterfacesPresent /\ [BuildNext]_buildVars => IfacesListed' /\ InterfacesPresent'
<1> SUFFICES ASSUME BuildTypeOK, TimesPast, MiddleCurrent, StaleLater, IfacesListed, InterfacesPresent, [BuildNext]_buildVars
             PROVE  IfacesListed' /\ InterfacesPresent'
    OBVIOUS
<1>t. /\ now \in Nat \ {0} /\ middleTime \in Nat /\ collectTime \in [Sources -> Nat]
      /\ content = [f \in Sources |-> content[f]] /\ headerTime \in [Headers -> Nat]
      BY DEF BuildTypeOK
<1>1. ASSUME UNCHANGED <<headerTime, ifaceTime, stale, ifaceList, listLost, middleTime, content, collectTime>>,
             edited \subseteq edited',
             stage \in {"make", "middle"} => stage' \in {"make", "middle"},
             stage' \in {"second", "argv", "ld"} => stage \in {"second", "argv", "ld"}
      PROVE  IfacesListed' /\ InterfacesPresent'
      BY <1>1 DEF IfacesListed, InterfacesPresent, UpToDate
<1>2. ASSUME NEW f \in Sources, FirstCompile(f) \/ FirstFails(f) PROVE IfacesListed' /\ InterfacesPresent'
  <2>1. /\ stage = "make" /\ stage' = "make" /\ UNCHANGED <<headerTime, ifaceTime, stale, ifaceList, listLost, middleTime>>
        BY <1>2 DEF FirstCompile, FirstFails, headerVars, middleVars, ifaceVars
  <2>2. \A g \in Sources : g # f => /\ content'[g] = content[g] /\ collectTime'[g] = collectTime[g]
                                    /\ g \in edited <=> g \in edited'
        BY <1>t, <1>2 DEF FirstCompile, FirstFails
  <2>3. FirstCompile(f) => collectTime'[f] = now /\ middleTime <= now
        BY <1>t DEF FirstCompile, TimesPast
  <2>4. FirstFails(f) => content'[f] = NoNote
        BY <1>t DEF FirstFails
  <2>5. IfacesListed'
        BY <1>t, <1>2, <2>1, <2>2, <2>3, <2>4 DEF IfacesListed, UpToDate, NoNote
  <2> QED BY <2>1, <2>5 DEF InterfacesPresent
<1>3. ASSUME NEW h \in Headers, EditHeader(h) PROVE IfacesListed' /\ InterfacesPresent'
  <2>1. /\ UNCHANGED <<stage, ifaceTime, ifaceList, listLost, middleTime, content, collectTime>>
        /\ \A g \in Headers : g # h => headerTime'[g] = headerTime[g] /\ (g \in stale' => g \in stale)
        /\ \A f \in Sources : h \in content[f].ifaces => f \in edited'
        /\ edited \subseteq edited'
        BY <1>t, <1>3 DEF EditHeader, middleVars, ifaceVars
  <2>2. \A f \in Sources \ edited', g \in Headers : g \in content'[f].ifaces =>
            /\ f \in Sources \ edited /\ g \in content[f].ifaces
            /\ UpToDate(g) => UpToDate(g)'
        BY <2>1 DEF UpToDate
  <2>3. IfacesListed'
        BY <2>1, <2>2 DEF IfacesListed
  <2>4. InterfacesPresent'
        BY <2>1, <2>2 DEF InterfacesPresent
  <2> QED BY <2>3, <2>4
<1>4. CASE CompileMiddle
  <2>1. /\ ReadyIfaces /\ UNCHANGED <<headerTime, stale, content, edited>> /\ stage' = "ifaces"
        BY <1>4 DEF CompileMiddle, sourceVars, headerVars
  <2>2. \A h \in UsedIfaces(content) : h \in ifaceList' \/ UpToDate(h)'
        BY <2>1, ReadyLists
  <2>3. \A f \in Sources, h \in Headers : h \in content'[f].ifaces => h \in UsedIfaces(content)
        BY <2>1 DEF UsedIfaces
  <2> QED BY <2>1, <2>2, <2>3 DEF IfacesListed, InterfacesPresent
<1>5. CASE MiddleFails
      BY <1>5 DEF MiddleFails, IfacesListed, InterfacesPresent
<1>6. CASE SkipMiddle
  <2>1. /\ stage' = "ifaces" /\ \A f \in Sources : ~(collectTime[f] >= middleTime)
        /\ UNCHANGED <<headerTime, ifaceTime, stale, ifaceList, listLost, middleTime, content, collectTime, edited>>
        BY <1>6 DEF SkipMiddle, NeedsMiddle, sourceVars, headerVars, middleVars, ifaceVars
  <2> QED BY <2>1 DEF IfacesListed, InterfacesPresent, UpToDate
<1>7. ASSUME CompilesIfaces, UNCHANGED <<ifaceList, listLost, middleTime, content, edited>>,
             stage = "ifaces", stage' # "middle"
      PROVE  IfacesListed'
  <2>1. SUFFICES ASSUME middleTime # Absent, ~listLost, NEW f \in Sources \ edited, NEW h \in Headers,
                        h \in content[f].ifaces
                 PROVE  h \in ifaceList' \/ UpToDate(h)'
        BY <1>7 DEF IfacesListed
  <2>2. h \in ifaceList \/ UpToDate(h)
        BY <1>7, <2>1 DEF IfacesListed
  <2> QED BY <1>7, <2>2, CompilingKeeps
<1>8. CASE CompileIfaces
  <2>1. /\ UNCHANGED <<ifaceList, listLost, middleTime, content, edited, headerTime>> /\ stage = "ifaces" /\ stage' = "second"
        /\ middleTime # Absent
        BY <1>8 DEF CompileIfaces, sourceVars, middleVars, MiddleCurrent, AfterMiddle
  <2>2. IfacesListed'
        BY <1>7, <1>8, <2>1, CompilingIfaces
  <2>3. ASSUME NEW h \in ifaceList PROVE UpToDate(h)'
    <3>1. h \in Headers BY <2>3 DEF BuildTypeOK
    <3>2. ifaceTime'[h] = now /\ h \notin stale'
          BY <1>8, <2>3, <3>1 DEF CompileIfaces, Compiled
    <3> QED BY <1>t, <3>2 DEF UpToDate, Absent
  <2>4. InterfacesPresent'
        BY <2>1, <2>2, <2>3 DEF InterfacesPresent, IfacesListed
  <2> QED BY <2>2, <2>4
<1>9. CASE IfacesFail \/ InterruptIfaces
  <2>1. /\ UNCHANGED <<ifaceList, listLost, middleTime, content, edited>> /\ stage = "ifaces" /\ stage' = "make"
        BY <1>9 DEF IfacesFail, InterruptIfaces, sourceVars, middleVars
  <2>2. IfacesListed'
        BY <1>7, <1>9, <2>1, CompilingIfaces
  <2> QED BY <2>1, <2>2 DEF InterfacesPresent
<1>10. CASE SpawnFails
       BY <1>10 DEF SpawnFails, IfacesListed, InterfacesPresent
<1>11. CASE Argv
  <2>1. /\ UNCHANGED <<headerTime, ifaceTime, stale, ifaceList, listLost, content, edited>>
        /\ stage = "argv" /\ stage' = "ld" /\ middleTime # Absent
        BY <1>11 DEF Argv, sourceVars, headerVars, ifaceVars, MiddleCurrent, AfterMiddle
  <2>2. InterfacesPresent'
        BY <2>1 DEF InterfacesPresent, UpToDate
  <2>3. IfacesListed'
        BY <2>1, <2>2 DEF InterfacesPresent, IfacesListed
  <2> QED BY <2>2, <2>3
<1>12. CASE SecondCompile \/ SecondFails \/ InterruptSecond
       BY <1>1, <1>12 DEF SecondCompile, SecondFails, InterruptSecond, headerVars, middleVars, ifaceVars
<1>13. CASE Tick \/ StartLink \/ Interrupt \/ Ld \/ UNCHANGED buildVars
       BY <1>1, <1>13 DEF Tick, StartLink, Interrupt, Ld, buildVars, sourceVars, headerVars, middleVars, ifaceVars
<1>14. ASSUME NEW f \in Sources, Edit(f) PROVE IfacesListed' /\ InterfacesPresent'
       BY <1>1, <1>14 DEF Edit, headerVars, middleVars, ifaceVars
<1> QED BY <1>2, <1>3, <1>4, <1>5, <1>6, <1>8, <1>9, <1>10, <1>11, <1>12, <1>13, <1>14 DEF BuildNext

LEMMA Invariance == BuildSpec => []Inv
<1>1. BuildInit => Inv BY InitInv
<1>2. Inv /\ [BuildNext]_buildVars => Inv'
      BY TypeStep, TimesStep, NotesThereStep, MiddleStep, BlocksStep, StaleStep, IfacesStep DEF Inv
<1> QED BY <1>1, <1>2, PTL DEF BuildSpec

(* After any failures and interruptions the stages of a link use lists     *)
(* that were made from the present notes.                                  *)
THEOREM BuildCollectsNotes == BuildSpec => []MiddleCurrent
<1>1. Inv => MiddleCurrent BY DEF Inv
<1> QED BY <1>1, Invariance, PTL

(* Whatever ld is given has been specialised with the present blocks.      *)
THEOREM BuildSpecialises == BuildSpec => []Specialised
<1>1. Inv => Specialised BY DEF Inv
<1> QED BY <1>1, Invariance, PTL

(* ld is given an object of each interface, made from the present header.  *)
THEOREM BuildHasInterfaces == BuildSpec => []InterfacesPresent
<1>1. Inv => InterfacesPresent BY DEF Inv
<1> QED BY <1>1, Invariance, PTL
=============================================================================
