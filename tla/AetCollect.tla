----------------------------- MODULE AetCollect -----------------------------
(***************************************************************************)
(* How a program is built (aetcollect.c, middlefile.c, ifaceimpl.c,        *)
(* genericcode.c).  The compiler leaves a note of each source beside its   *)
(* object: whether it creates generic objects, the generic block that it   *)
(* defines, the headers whose interfaces it uses.  When make links, the    *)
(* notes are collected by the compilation of temp_func_track_45.c, the     *)
(* middle file, which leaves two lists: the interfaces to compile, and the *)
(* sources to compile a second time with the blocks of all of them.  Then  *)
(* the lists are worked off and ld is called.  Any stage may fail or be    *)
(* interrupted and make called again; the stages find out from the times   *)
(* of the files, in seconds, what there is to do.                          *)
(* A source stays a source of the program, a header is not removed, there  *)
(* is one program in a directory, and what is for kernels is left out.     *)
(* The names are this module's own, so that MCUnusedThread can run it      *)
(* beside another one.                                                     *)
(***************************************************************************)
EXTENDS Integers

CONSTANTS Sources,
          Headers,              \* each declares interfaces
          MayContain,           \* what each source may be edited to contain:
                                \* records of new, block, ifaces
          NoBlock,
          MaxTime, MaxEdits     \* bounds on the clock and on the edits

VARIABLES now, edits,
          dirty,                \* sources that make would compile
          edited,               \* sources edited since they were compiled first
          objBlocks,            \* the blocks in each object
          content, collectTime, \* the note of each source, xxx.collect.o
          headerTime,
          stale,                \* headers edited since their object was compiled
          middleTime, middleFrom, \* temp_func_track_45.o, and the notes it is from
          blockList, ifaceList, \* the lists that it has left
          ifaceC, ifaceTime,    \* sources and objects of the interfaces
          stage,                \* the stage of aet_collect()
          middleObj,            \* whether compileMiddleFile() gave a name to link
          linked,               \* whether make takes the program to be up to date
          listLost              \* history: ifaceList was removed before it was done

sourceVars == <<dirty, edited, objBlocks, content, collectTime>>
headerVars == <<headerTime, stale>>
middleVars == <<middleTime, middleFrom, blockList>>
ifaceVars  == <<ifaceList, ifaceC, ifaceTime, listLost>>
buildVars == <<now, edits, sourceVars, headerVars, middleVars, ifaceVars, stage,
               middleObj, linked>>

Absent == 0                     \* the time of a file that does not exist
NoBlocks == [f \in Sources |-> NoBlock]
NoNote == [new |-> FALSE, block |-> NoBlock, ifaces |-> {}]
NoList == [files |-> {}, blocks |-> NoBlocks]

(* What the notes say together.                                            *)
Blocks(notes) == [f \in Sources |-> notes[f].block]
Roots(notes) == {f \in Sources : notes[f].new}
UsedIfaces(notes) == {h \in Headers : \E f \in Sources : h \in notes[f].ifaces}

BuildInit == /\ now = 1 /\ edits = 0
             /\ dirty = Sources /\ edited = Sources
             /\ objBlocks = [f \in Sources |-> NoBlocks]
             /\ content = [f \in Sources |-> NoNote]
             /\ collectTime = [f \in Sources |-> Absent]
             /\ headerTime = [h \in Headers |-> 1] /\ stale = {}
             /\ middleTime = Absent /\ middleFrom = content /\ blockList = NoList
             /\ ifaceList = {} /\ ifaceC = {} /\ ifaceTime = [h \in Headers |-> Absent]
             /\ stage = "make" /\ middleObj = FALSE /\ linked = FALSE /\ listLost = FALSE
-----------------------------------------------------------------------------
Tick == /\ now < MaxTime /\ now' = now + 1
        /\ UNCHANGED <<edits, sourceVars, headerVars, middleVars, ifaceVars, stage,
                       middleObj, linked>>

Edit(f) == /\ edits < MaxEdits /\ edits' = edits + 1
           /\ dirty' = dirty \cup {f} /\ edited' = edited \cup {f}
           /\ UNCHANGED <<now, objBlocks, content, collectTime, headerVars,
                          middleVars, ifaceVars, stage, middleObj, linked>>

(* The rules of make name the headers of a source.                         *)
EditHeader(h) ==
    /\ edits < MaxEdits /\ edits' = edits + 1
    /\ headerTime' = [headerTime EXCEPT ![h] = now]
    /\ stale' = stale \cup {h}
    /\ LET users == {f \in Sources : h \in content[f].ifaces}
       IN dirty' = dirty \cup users /\ edited' = edited \cup users
    /\ UNCHANGED <<now, objBlocks, content, collectTime,
                   middleVars, ifaceVars, stage, middleObj, linked>>

(* The note is removed when the parser starts and written at the end.      *)
FirstCompile(f) ==
    /\ stage = "make" /\ f \in dirty
    /\ \E c \in MayContain[f] : content' = [content EXCEPT ![f] = c]
    /\ collectTime' = [collectTime EXCEPT ![f] = now]
    /\ dirty' = dirty \ {f} /\ edited' = edited \ {f}
    /\ objBlocks' = [objBlocks EXCEPT ![f] = NoBlocks]
    /\ linked' = FALSE
    /\ UNCHANGED <<now, edits, headerVars, middleVars, ifaceVars, stage, middleObj>>

FirstFails(f) ==
    /\ stage = "make" /\ f \in dirty
    /\ content' = [content EXCEPT ![f] = NoNote]
    /\ collectTime' = [collectTime EXCEPT ![f] = Absent]
    /\ linked' = FALSE
    /\ UNCHANGED <<now, edits, dirty, edited, objBlocks, headerVars,
                   middleVars, ifaceVars, stage, middleObj>>

StartLink == /\ stage = "make" /\ dirty = {} /\ ~linked
             /\ stage' = "middle"
             /\ UNCHANGED <<now, edits, sourceVars, headerVars, middleVars, ifaceVars,
                            middleObj, linked>>
-----------------------------------------------------------------------------
(* Faulty variant: a note written in the second of the object is not seen. *)
NeedsMiddleStrictly == \/ middleTime = Absent
                       \/ \E f \in Sources : collectTime[f] > middleTime

(* compileMiddleFile(): the object goes unless it is newer than the notes. *)
NeedsMiddle == \/ middleTime = Absent
               \/ \E f \in Sources : collectTime[f] >= middleTime

(* iface_impl_compile_ready(): an object without its source or a source    *)
(* without its object is removed; then the used interfaces without an      *)
(* object, or with one older than the header, are listed.                  *)
Outdated(kept) == {h \in UsedIfaces(content) :
                      h \notin kept \/ headerTime[h] > ifaceTime[h]}

ReadyIfaces ==
    LET kept == {h \in ifaceC : ifaceTime[h] # Absent}
        listed == Outdated(kept)
    IN /\ ifaceList' = listed /\ listLost' = FALSE
       /\ IF UsedIfaces(content) = {}
          THEN UNCHANGED <<ifaceC, ifaceTime>>
          ELSE /\ ifaceC' = kept \cup listed
               /\ ifaceTime' = [h \in Headers |-> IF h \in kept \ listed
                                                  THEN ifaceTime[h] ELSE Absent]

(* generic_code_create_block_codes()                                       *)
ListFor(notes) ==
    IF Roots(notes) # {} /\ Blocks(notes) # NoBlocks
    THEN [files |-> Roots(notes), blocks |-> Blocks(notes)]
    ELSE NoList

CompileMiddle ==
    /\ stage = "middle" /\ NeedsMiddle
    /\ middleTime' = now /\ middleFrom' = content
    /\ ReadyIfaces
    /\ blockList' = ListFor(content)
    /\ middleObj' = TRUE /\ stage' = "ifaces"
    /\ UNCHANGED <<now, edits, sourceVars, headerVars, linked>>

(* It ends before, between or after the two lists.                         *)
MiddleFails ==
    /\ stage = "middle" /\ NeedsMiddle
    /\ middleTime' = Absent /\ stage' = "make"
    /\ \/ UNCHANGED <<ifaceVars, blockList>>
       \/ ReadyIfaces /\ blockList' \in {blockList, ListFor(content)}
    /\ UNCHANGED <<now, edits, sourceVars, headerVars, middleFrom, middleObj, linked>>

SkipMiddle == /\ stage = "middle" /\ ~NeedsMiddle
              /\ middleObj' = FALSE /\ stage' = "ifaces"
              /\ UNCHANGED <<now, edits, sourceVars, headerVars, middleVars, ifaceVars, linked>>

(* compileIface(): all that are listed, at the same time; done are those   *)
(* whose compilation succeeds.                                             *)
Compiled(done, failed) ==
    /\ ifaceTime' = [h \in Headers |-> IF h \in done THEN now
                                       ELSE IF h \in failed THEN Absent ELSE ifaceTime[h]]
    /\ stale' = stale \ done

CompileIfaces == /\ stage = "ifaces" /\ Compiled(ifaceList, {}) /\ stage' = "second"
                 /\ UNCHANGED <<now, edits, sourceVars, headerTime, middleVars, ifaceList,
                                ifaceC, listLost, middleObj, linked>>

(* Faulty variant: the list goes whatever it is that fails.                *)
IfacesFailAndForget ==
    /\ stage = "ifaces"
    /\ \E done \in SUBSET ifaceList :
          done # ifaceList /\ Compiled(done, ifaceList \ done)
    /\ ifaceList' = {} /\ stage' = "make"
    /\ UNCHANGED <<now, edits, sourceVars, headerTime, middleVars, ifaceC, listLost,
                   middleObj, linked>>

IfacesFail == /\ stage = "ifaces"
              /\ \E done \in SUBSET ifaceList :
                    done # ifaceList /\ Compiled(done, ifaceList \ done)
              /\ stage' = "make"
              /\ UNCHANGED <<now, edits, sourceVars, headerTime, middleVars, ifaceList,
                             ifaceC, listLost, middleObj, linked>>

(* A compiler cannot be started: the list is removed, and those that were  *)
(* started go on.                                                          *)
SpawnFails == /\ stage = "ifaces" /\ ifaceList # {}
              /\ \E done \in SUBSET ifaceList : \E failed \in SUBSET (ifaceList \ done) :
                    Compiled(done, failed)
              /\ ifaceList' = {} /\ listLost' = TRUE /\ stage' = "make"
              /\ UNCHANGED <<now, edits, sourceVars, headerTime, middleVars, ifaceC,
                             middleObj, linked>>

(* compileGeneric(): the objects of the listed sources are removed, and    *)
(* the sources compiled with the blocks; done are those that succeed.      *)
Specialise(done) ==
    /\ objBlocks' = [f \in Sources |-> IF f \in done THEN blockList.blocks ELSE objBlocks[f]]
    /\ dirty' = (dirty \ done) \cup (blockList.files \ done)

(* Faulty variant: only when the lists are new.                            *)
SecondCompileOfNewLists ==
    /\ stage = "second" /\ Specialise(IF middleObj THEN blockList.files ELSE {})
    /\ stage' = "argv"
    /\ UNCHANGED <<now, edits, edited, content, collectTime, headerVars, middleVars,
                   ifaceVars, middleObj, linked>>

SecondCompile == /\ stage = "second" /\ Specialise(blockList.files) /\ stage' = "argv"
                 /\ UNCHANGED <<now, edits, edited, content, collectTime, headerVars,
                                middleVars, ifaceVars, middleObj, linked>>

SecondFails == /\ stage = "second"
               /\ \E done \in SUBSET blockList.files :
                     done # blockList.files /\ Specialise(done)
               /\ stage' = "make"
               /\ UNCHANGED <<now, edits, edited, content, collectTime, headerVars,
                              middleVars, ifaceVars, middleObj, linked>>

(* createNewArgv(), and utime() of what was compiled.                      *)
Argv == /\ stage = "argv" /\ stage' = "ld"
        /\ middleTime' = IF middleObj THEN now ELSE middleTime
        /\ UNCHANGED <<now, edits, sourceVars, headerVars, middleFrom, blockList, ifaceVars,
                       middleObj, linked>>

(* ld succeeds or fails.                                                   *)
Ld == /\ stage = "ld" /\ stage' = "make" /\ linked' \in BOOLEAN
      /\ UNCHANGED <<now, edits, sourceVars, headerVars, middleVars, ifaceVars, middleObj>>

(* A signal to make and all that it runs: between the compilations, or     *)
(* when some of them are done, some have left no object, and some not yet  *)
(* begun.                                                                  *)
Interrupt == /\ stage # "make" /\ stage' = "make"
             /\ UNCHANGED <<now, edits, sourceVars, headerVars, middleVars, ifaceVars,
                            middleObj, linked>>

InterruptIfaces ==
    /\ stage = "ifaces" /\ stage' = "make"
    /\ \E done \in SUBSET ifaceList : \E failed \in SUBSET (ifaceList \ done) :
          Compiled(done, failed)
    /\ UNCHANGED <<now, edits, sourceVars, headerTime, middleVars, ifaceList, ifaceC,
                   listLost, middleObj, linked>>

InterruptSecond ==
    /\ stage = "second" /\ stage' = "make"
    /\ \E removed \in SUBSET blockList.files : \E done \in SUBSET removed :
          /\ objBlocks' = [f \in Sources |-> IF f \in done THEN blockList.blocks
                                            ELSE objBlocks[f]]
          /\ dirty' = (dirty \ done) \cup (removed \ done)
    /\ UNCHANGED <<now, edits, edited, content, collectTime, headerVars, middleVars,
                   ifaceVars, middleObj, linked>>

BuildNext == \/ Tick \/ StartLink \/ Interrupt \/ InterruptIfaces \/ InterruptSecond
             \/ \E f \in Sources : Edit(f) \/ FirstCompile(f) \/ FirstFails(f)
             \/ \E h \in Headers : EditHeader(h)
             \/ CompileMiddle \/ MiddleFails \/ SkipMiddle
             \/ CompileIfaces \/ IfacesFail \/ SpawnFails
             \/ SecondCompile \/ SecondFails
             \/ Argv \/ Ld

BuildSpec == BuildInit /\ [][BuildNext]_buildVars
-----------------------------------------------------------------------------
Stages == {"make", "middle", "ifaces", "second", "argv", "ld"}

BuildTypeOK == /\ now \in Nat \ {0} /\ edits \in Nat
               /\ dirty \subseteq Sources /\ edited \subseteq Sources
               /\ objBlocks = [f \in Sources |-> objBlocks[f]]
               /\ content = [f \in Sources |-> content[f]]
               /\ collectTime \in [Sources -> Nat]
               /\ headerTime \in [Headers -> Nat] /\ stale \subseteq Headers
               /\ middleTime \in Nat /\ middleFrom = [f \in Sources |-> middleFrom[f]]
               /\ blockList = [files |-> blockList.files, blocks |-> blockList.blocks]
               /\ blockList.files \subseteq Sources
               /\ ifaceList \subseteq Headers /\ ifaceC \subseteq Headers
               /\ ifaceTime \in [Headers -> Nat]
               /\ stage \in Stages /\ linked \in BOOLEAN
               /\ middleObj \in BOOLEAN /\ listLost \in BOOLEAN

AfterMiddle == {"ifaces", "second", "argv", "ld"}

(* compileMiddleFile(): whatever failed or was interrupted before, the     *)
(* stages that follow work with lists made from the notes as they are now. *)
MiddleCurrent == stage \in AfterMiddle => middleTime # Absent /\ middleFrom = content

(* compileGeneric(): what is linked has been specialised with the blocks   *)
(* of all sources, also if the lists are those of an earlier link.         *)
Specialised ==
    stage \in {"argv", "ld"} /\ Blocks(content) # NoBlocks =>
        \A f \in Roots(content) : objBlocks[f] = Blocks(content)

(* compileIface(): each interface that is used has an object that is       *)
(* linked, and compiled from the header as it is now - unless the header   *)
(* was edited in the second of the object, or the list was removed because *)
(* a compiler could not be started.                                        *)
UpToDate(h) == /\ ifaceTime[h] # Absent
               /\ h \in stale => headerTime[h] = ifaceTime[h]
InterfacesPresent ==
    stage \in {"second", "argv", "ld"} /\ ~listLost =>
        \A f \in Sources \ edited, h \in Headers :
            h \in content[f].ifaces => UpToDate(h)

(* The comment of createNewArgv(): the object of temp_func_track_45.c is   *)
(* one of the two kinds that ld is given.                                  *)
MiddleLinked == stage = "ld" => middleObj
=============================================================================
