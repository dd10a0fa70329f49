------------------------- MODULE SessionStore_proofs -------------------------
(***************************************************************************)
(* Proofs about module SessionStore, for any files and any number of       *)
(* edits, rewinds, saves, failures and restarts.                           *)
(***************************************************************************)
EXTENDS SessionStore, SequenceTheorems, TLAPS

\* The checkpoint the agent has made last.
Last == mem[Len(mem)].id

\* What a session file has to have: also the checkpoint of the edit that is
\* about to be done.
Owed == applied \cup (IF agent.at = "saved" THEN {Last} ELSE {})

InProgress(t) == save[t].at # "none"

\* The main loop rewinds while the agent is idle, a thread that has a save in
\* progress is in its save, and nothing goes on without a process.
Turns ==
    /\ ~busy => agent.at = "idle"
    /\ agent.at # "idle" => agent.file \in Files
    /\ agent.at \in {"saving", "saved"} => mem # <<>>
    /\ main.at \in {"restoring", "rewound"} => ~busy
    /\ \A t \in Threads : InProgress(t) => Saves(t)
    /\ ~up => ~busy /\ agent.at = "idle" /\ main.at = "loop"

\* A rewind restores the end of the list.
RestoresTail ==
    main.at = "restoring" =>
        /\ main.left <= Len(main.selected)
        /\ Len(main.selected) <= Len(mem)
        /\ \A i \in DOMAIN main.selected :
              main.selected[i] = mem[Len(mem) - Len(main.selected) + i]

\* A save that is alone has no other beside it; where two have met, the file
\* may be behind.
AloneOrBehind ==
    \A t \in Threads : InProgress(t) =>
        IF save[t].alone THEN ~InProgress(Other(t)) ELSE behind

\* What is owed is in memory, in every save that is alone, and in the file.
OwedIsKept ==
    /\ up => Owed \subseteq Ids(mem)
    /\ \A t \in Threads : InProgress(t) /\ save[t].alone => Owed \subseteq Ids(save[t].list)
    /\ InProgress("agent") => Last \in Ids(save["agent"].list)
    /\ disk.readable /\ ~behind => Owed \subseteq Ids(disk.list)

StoreInv ==
    /\ TypeOK
    /\ Turns
    /\ RestoresTail
    /\ AloneOrBehind
    /\ OwedIsKept

-----------------------------------------------------------------------------
\* Append adds one checkpoint at the end.
LEMMA AppendCheckpoint ==
    ASSUME NEW s \in Seq(Checkpoints), NEW c \in Checkpoints
    PROVE  /\ Append(s, c) \in Seq(Checkpoints)
           /\ Append(s, c) # <<>>
           /\ Append(s, c)[Len(Append(s, c))] = c
           /\ Ids(s) \subseteq Ids(Append(s, c))
<1>1. /\ Append(s, c) \in Seq(Checkpoints) /\ Len(Append(s, c)) = Len(s) + 1
      /\ \A i \in 1..Len(s) : Append(s, c)[i] = s[i]
      /\ Append(s, c)[Len(s) + 1] = c
  BY AppendProperties
<1>2. /\ Len(s) \in Nat /\ DOMAIN s = 1..Len(s)
      /\ DOMAIN Append(s, c) = 1..(Len(s) + 1)
  BY <1>1, LenProperties
<1>3. Append(s, c) # <<>>
  BY <1>1, <1>2, EmptySeq
<1>4. Ids(s) \subseteq Ids(Append(s, c))
  BY <1>1, <1>2 DEF Ids
<1> QED BY <1>1, <1>3, <1>4

\* What the elements of a list of checkpoints are.
LEMMA ElementTypes ==
    \A s \in Seq(Checkpoints) : \A i \in DOMAIN s :
        /\ i \in 1..Len(s)
        /\ s[i].id \in 1..MaxEvents /\ s[i].file \in Files
        /\ s[i].text \in Texts /\ s[i].existed \in BOOLEAN
<1> SUFFICES ASSUME NEW s \in Seq(Checkpoints), NEW i \in DOMAIN s
             PROVE  /\ i \in 1..Len(s)
                    /\ s[i].id \in 1..MaxEvents /\ s[i].file \in Files
                    /\ s[i].text \in Texts /\ s[i].existed \in BOOLEAN
  OBVIOUS
<1>1. i \in 1..Len(s)
  BY LenProperties
<1>2. s[i] \in Checkpoints
  BY <1>1, ElementOfSeq
<1> QED BY <1>1, <1>2 DEF Checkpoints

\* The last of some checkpoints is one of them.
LEMMA LastIsThere ==
    ASSUME NEW s \in Seq(Checkpoints), s # <<>>
    PROVE  /\ s[Len(s)] \in Checkpoints
           /\ s[Len(s)].id \in Ids(s) /\ s[Len(s)].id \in 1..MaxEvents
<1>1. Len(s) \in Nat /\ DOMAIN s = 1..Len(s) /\ Len(s) # 0
  BY LenProperties, EmptySeq
<1>2. Len(s) \in DOMAIN s
  BY <1>1
<1>3. s[Len(s)] \in Checkpoints
  BY <1>1, <1>2, ElementOfSeq
<1>4. s[Len(s)].id \in 1..MaxEvents
  BY <1>3 DEF Checkpoints
<1> QED BY <1>2, <1>3, <1>4 DEF Ids

\* The checkpoints from a place on are the end of the list.
LEMMA SelectedIsTail ==
    ASSUME NEW s \in Seq(Checkpoints), NEW start \in DOMAIN s
    PROVE  LET r == SubSeq(s, start, Len(s)) IN
           /\ r \in Seq(Checkpoints)
           /\ Len(r) \in Nat /\ Len(r) <= Len(s)
           /\ DOMAIN r = 1..Len(r)
           /\ \A i \in DOMAIN r : r[i] = s[Len(s) - Len(r) + i]
<1> DEFINE r == SubSeq(s, start, Len(s))
<1>1. Len(s) \in Nat /\ DOMAIN s = 1..Len(s)
  BY LenProperties
<1>2. start \in Nat /\ start >= 1 /\ start <= Len(s)
  BY <1>1
<1>3. /\ r \in Seq(Checkpoints) /\ Len(r) = Len(s) - start + 1
      /\ \A i \in 1..(Len(s) - start + 1) : r[i] = s[start + i - 1]
  <2>1. \A i \in start..Len(s) : s[i] \in Checkpoints
    <3> SUFFICES ASSUME NEW i \in start..Len(s) PROVE s[i] \in Checkpoints
      OBVIOUS
    <3>1. i \in 1..Len(s)
      BY <1>1, <1>2
    <3> QED BY <3>1, ElementOfSeq
  <2>2. start \in Int /\ Len(s) \in Int
    BY <1>1, <1>2
  <2>3. /\ r \in Seq(Checkpoints)
        /\ Len(r) = IF start <= Len(s) THEN Len(s) - start + 1 ELSE 0
        /\ \A i \in 1..(Len(s) - start + 1) : r[i] = s[start + i - 1]
    BY <2>1, <2>2, SubSeqProperties
  <2> QED BY <1>2, <2>3
<1> HIDE DEF r
<1>4. DOMAIN r = 1..Len(r)
  BY <1>3, LenProperties
<1>5. ASSUME NEW i \in DOMAIN r PROVE r[i] = s[Len(s) - Len(r) + i]
  <2>1. i \in 1..(Len(s) - start + 1) /\ i \in Int
    BY <1>1, <1>2, <1>3, <1>4
  <2>2. Len(s) - Len(r) + i = start + i - 1
    BY <1>1, <1>2, <1>3, <2>1
  <2> QED BY <1>3, <2>1, <2>2
<1>6. Len(r) \in Nat /\ Len(r) <= Len(s)
  BY <1>1, <1>2, <1>3
<1> QED BY <1>3, <1>4, <1>5, <1>6 DEF r

\* A list with its end replaced.
LEMMA ReplacedElements ==
    ASSUME NEW s \in Seq(Checkpoints), NEW r \in Seq(Checkpoints), NEW n \in 0..Len(s)
    PROVE  LET q == SubSeq(s, 1, n) \o r IN
           /\ q \in Seq(Checkpoints) /\ Len(q) = n + Len(r)
           /\ \A i \in 1..n + Len(r) : q[i] = IF i <= n THEN s[i] ELSE r[i - n]
<1> DEFINE p == SubSeq(s, 1, n)
           q == p \o r
<1>1. Len(s) \in Nat /\ Len(r) \in Nat /\ n \in Nat /\ n <= Len(s)
  BY LenProperties
<1>2. p \in Seq(Checkpoints) /\ Len(p) = n /\ \A i \in 1..n : p[i] = s[i]
  <2>1. \A i \in 1..n : s[i] \in Checkpoints
    <3> SUFFICES ASSUME NEW i \in 1..n PROVE s[i] \in Checkpoints
      OBVIOUS
    <3>1. i \in 1..Len(s)
      BY <1>1
    <3> QED BY <3>1, ElementOfSeq
  <2>2. 1 \in Int /\ n \in Int /\ n - 1 + 1 = n /\ (IF 1 <= n THEN n - 1 + 1 ELSE 0) = n
    BY <1>1
  <2>3. \A i \in 1..n : 1 + i - 1 = i
    BY <1>1
  <2> QED BY <2>1, <2>2, <2>3, SubSeqProperties
<1> HIDE DEF p
<1>3. /\ q \in Seq(Checkpoints) /\ Len(q) = n + Len(r)
      /\ \A i \in 1..n + Len(r) : q[i] = IF i <= n THEN p[i] ELSE r[i - n]
  BY <1>2, ConcatProperties
<1> HIDE DEF q
<1>4. ASSUME NEW i \in 1..n + Len(r) PROVE q[i] = IF i <= n THEN s[i] ELSE r[i - n]
  <2>1. i <= n => i \in 1..n
    BY <1>1
  <2> QED BY <1>2, <1>3, <2>1
<1> QED BY <1>3, <1>4 DEF p, q

\* With the end of a list replaced, what was not in that end is still there.
LEMMA ReplacedTail ==
    ASSUME NEW s \in Seq(Checkpoints), NEW r \in Seq(Checkpoints),
           NEW e \in Seq(Checkpoints), Len(e) <= Len(s),
           \A i \in DOMAIN e : e[i] = s[Len(s) - Len(e) + i]
    PROVE  /\ SubSeq(s, 1, Len(s) - Len(e)) \o r \in Seq(Checkpoints)
           /\ Ids(s) \ Ids(e) \subseteq Ids(SubSeq(s, 1, Len(s) - Len(e)) \o r)
<1> DEFINE n == Len(s) - Len(e)
           q == SubSeq(s, 1, n) \o r
<1>1. /\ Len(s) \in Nat /\ DOMAIN s = 1..Len(s) /\ Len(e) \in Nat /\ DOMAIN e = 1..Len(e)
      /\ Len(r) \in Nat
  BY LenProperties
<1>2. n \in 0..Len(s) /\ n \in Nat /\ Len(s) = n + Len(e)
  BY <1>1
<1>3. \A i \in DOMAIN e : e[i] = s[n + i]
  OBVIOUS
<1> HIDE DEF n
<1>4. /\ q \in Seq(Checkpoints) /\ Len(q) = n + Len(r)
      /\ \A i \in 1..n + Len(r) : q[i] = IF i <= n THEN s[i] ELSE r[i - n]
  BY <1>2, ReplacedElements
<1> HIDE DEF q
<1>5. DOMAIN q = 1..n + Len(r)
  BY <1>4, LenProperties
<1>6. ASSUME NEW x \in Ids(s), x \notin Ids(e) PROVE x \in Ids(q)
  <2>1. PICK i \in 1..Len(s) : s[i].id = x
    BY <1>1, <1>6 DEF Ids
  <2>2. i <= n
    <3>1. SUFFICES ASSUME i > n PROVE FALSE
      BY <1>1, <1>2, <2>1
    <3>2. i - n \in DOMAIN e /\ n + (i - n) = i
      BY <1>1, <1>2, <2>1, <3>1
    <3>3. e[i - n] = s[i]
      BY <1>3, <3>2
    <3> QED BY <1>6, <2>1, <3>2, <3>3 DEF Ids
  <2>3. i \in 1..n + Len(r)
    BY <1>1, <1>2, <2>1, <2>2
  <2>4. q[i] = s[i]
    BY <1>4, <2>2, <2>3
  <2> QED BY <1>5, <2>1, <2>3, <2>4 DEF Ids
<1> QED BY <1>4, <1>6 DEF n, q

-----------------------------------------------------------------------------
\* The steps of Next, with those that change neither list nor save together.
Quiet ==
    \/ BeginTurn \/ EndTurn \/ Refuse \/ Autosave \/ Restore \/ RestoreFails \/ Exit
    \/ \E f \in Files : ReadPrevious(f) \/ Outside(f)

Begins == \E start \in DOMAIN mem : BeginRewind(start)

\* The actions by what they do to the lists of checkpoints.
LEMMA StepsOfTheSession ==
    ASSUME Next
    PROVE  \/ Quiet \/ CreateCheckpoint \/ WriteFile \/ Begins \/ ReplaceSelected
           \/ End \/ Resume
           \/ \E t \in Threads : Serialize(t) \/ Open(t) \/ Write(t) \/ SaveFails(t)
BY DEF Next, Quiet, Begins, Starts

\* The places the threads start from, and their moves.
LEMMA Moves ==
    /\ NoEdit \in AgentType /\ InLoop \in MainType
    /\ Unreadable \in DiskType /\ \A s \in Seq(Checkpoints) : Readable(s) \in DiskType
    /\ \A x \in AgentType : \A y \in {"saving", "saved"} : [x EXCEPT !.at = y] \in AgentType
    /\ \A x \in MainType : \A y \in {"autosaving", "rewound", "exiting", "over"} :
          [x EXCEPT !.at = y] \in MainType
<1>1. <<>> \in Seq(Checkpoints) /\ Blank \in Texts
  BY EmptySeq, SessionStoreAssumption DEF Texts, Blank, Foreign
<1>2. NoEdit \in AgentType /\ InLoop \in MainType
  BY <1>1 DEF NoEdit, InLoop, AgentType, MainType
<1>3. Unreadable \in DiskType /\ \A s \in Seq(Checkpoints) : Readable(s) \in DiskType
  BY <1>1 DEF Unreadable, Readable, DiskType
<1>4. ASSUME NEW x \in AgentType, NEW y \in {"saving", "saved"}
      PROVE  [x EXCEPT !.at = y] \in AgentType
  BY DEF AgentType
<1>5. ASSUME NEW x \in MainType, NEW y \in {"autosaving", "rewound", "exiting", "over"}
      PROVE  [x EXCEPT !.at = y] \in MainType
  BY DEF MainType
<1> QED BY <1>2, <1>3, <1>4, <1>5

\* The two threads, and the moves of a save.
LEMMA TwoThreads ==
    /\ NoSave \in SaveType
    /\ \A t \in Threads : Other(t) \in Threads /\ Other(t) # t /\ Other(Other(t)) = t
    /\ \A t \in Threads : \A u \in Threads : u = t \/ u = Other(t)
    /\ \A x \in SaveType : \A b \in BOOLEAN :
          /\ [x EXCEPT !.alone = b] \in SaveType
          /\ [x EXCEPT !.clean = b] \in SaveType
          /\ [x EXCEPT !.at = "open"] \in SaveType
<1>1. <<>> \in Seq(Checkpoints)
  BY EmptySeq
<1>2. NoSave \in SaveType
  BY <1>1 DEF NoSave, SaveType
<1>3. ASSUME NEW x \in SaveType, NEW b \in BOOLEAN
      PROVE  /\ [x EXCEPT !.alone = b] \in SaveType
             /\ [x EXCEPT !.clean = b] \in SaveType
             /\ [x EXCEPT !.at = "open"] \in SaveType
  BY DEF SaveType
<1> QED BY <1>2, <1>3 DEF Threads, Other

\* A text of the workspace is a text, also where there is no file.
LEMMA TextIsText ==
    ASSUME NEW w \in Workspace, NEW f \in Files
    PROVE  Text(w[f]) \in Texts
BY SessionStoreAssumption DEF Text, Workspace, Texts, Blank, Foreign

\* A new session has no checkpoint and needs none.
LEMMA InitIsGood == Init => StoreInv
<1> SUFFICES ASSUME Init PROVE StoreInv
  OBVIOUS
<1>1. <<>> \in Seq(Checkpoints) /\ <<>> \in Seq(Workspace) /\ Len(<<>>) = 0
  BY EmptySeq
<1>2. files \in Workspace
  BY SessionStoreAssumption DEF Init, Workspace, Texts, Blank, Foreign
<1>3. save \in [Threads -> SaveType]
  BY TwoThreads DEF Init
<1>4. TypeOK
  <2>1. /\ mem \in Seq(Checkpoints) /\ base \in Seq(Workspace) /\ Len(base) + extras = 0
        /\ extras = 0
    BY <1>1 DEF Init
  <2>2. disk \in DiskType /\ agent \in AgentType /\ main \in MainType
    BY Moves DEF Init
  <2>3. /\ up \in BOOLEAN /\ busy \in BOOLEAN /\ dirty \in BOOLEAN /\ behind \in BOOLEAN
        /\ applied = {} /\ strayed = {}
    BY DEF Init
  <2> QED BY <1>2, <1>3, <2>1, <2>2, <2>3, SessionStoreAssumption DEF TypeOK
<1>5. Turns /\ RestoresTail /\ AloneOrBehind
  BY DEF Init, Turns, RestoresTail, AloneOrBehind, InProgress, NoEdit, InLoop, NoSave
<1>6. ~disk.readable /\ Owed = {} /\ \A t \in Threads : ~InProgress(t)
  BY DEF Init, Owed, InProgress, NoEdit, NoSave, Unreadable
<1>7. OwedIsKept
  BY <1>6 DEF OwedIsKept, Threads
<1> QED BY <1>4, <1>5, <1>7 DEF StoreInv

-----------------------------------------------------------------------------
\* Every step that leaves the session as it is keeps the types.
LEMMA QuietKeepsTypes ==
    ASSUME StoreInv, Quiet
    PROVE  TypeOK'
<1> USE SessionStoreAssumption
<1>1. /\ TypeOK /\ Turns /\ RestoresTail
      /\ Len(base) \in Nat /\ extras \in Nat
  BY LenProperties DEF StoreInv, TypeOK
<1>2. Blank \in Texts /\ Foreign \in Texts
  BY DEF Texts, Blank, Foreign
<1>3. ASSUME NEW s \in Seq(Checkpoints), NEW i \in 1..Len(s)
      PROVE  s[i].file \in Files /\ s[i].text \in Texts /\ s[i].existed \in BOOLEAN
  BY LenProperties, ElementTypes
<1> USE DEF TypeOK
<1>4. CASE BeginTurn \/ EndTurn
  BY <1>1, <1>4 DEF BeginTurn, EndTurn, history
<1>5. CASE Exit
  <2>1. main' \in MainType
    BY <1>1, <1>5, Moves DEF Exit
  <2> QED BY <1>1, <1>5, <2>1 DEF Exit, history
<1>6. CASE Autosave
  <2>1. main' \in MainType
    BY <1>1, <1>6, Moves DEF Autosave
  <2> QED BY <1>1, <1>6, <2>1 DEF Autosave, history
<1>7. CASE Refuse
  BY <1>1, <1>7, Moves DEF Refuse, history
<1>8. CASE \E f \in Files : ReadPrevious(f)
  <2>1. PICK f \in Files : ReadPrevious(f)
    BY <1>8
  <2>2. agent' \in AgentType
    BY <1>1, <2>1, TextIsText DEF ReadPrevious, AgentType
  <2> QED BY <1>1, <2>1, <2>2 DEF ReadPrevious, history
<1>9. CASE \E f \in Files : Outside(f)
  <2>1. PICK f \in Files : Outside(f)
    BY <1>9
  <2>2. files' \in Workspace
    BY <1>1, <1>2, <2>1 DEF Outside, Workspace
  <2> QED BY <1>1, <2>1, <2>2 DEF Outside, process
<1>10. CASE Restore
  <2>1. main.selected \in Seq(Checkpoints) /\ main.left \in 1..Len(main.selected)
    BY <1>1, <1>10, LenProperties DEF Restore, RestoresTail, MainType
  <2>2. files' \in Workspace
    BY <1>1, <1>3, <1>10, <2>1 DEF Restore, Workspace
  <2>3. main' \in MainType
    BY SMTT(30), <1>1, <1>10, <2>1 DEF Restore, MainType
  <2> QED BY <1>1, <1>10, <2>2, <2>3 DEF Restore, history
<1>11. CASE RestoreFails
  <2>1. main.selected \in Seq(Checkpoints) /\ main.left \in 1..Len(main.selected)
    BY <1>1, <1>11, LenProperties DEF RestoreFails, RestoresTail, MainType
  <2>2. files' \in Workspace
    BY <1>1, <1>2, <1>3, <1>11, <2>1 DEF RestoreFails, Workspace
  <2>3. FilesOf(main.selected) \subseteq Files
    BY <1>3, <2>1, LenProperties DEF FilesOf
  <2> QED BY <1>1, <1>11, <2>2, <2>3, Moves DEF RestoreFails
<1> QED BY <1>4, <1>5, <1>6, <1>7, <1>8, <1>9, <1>10, <1>11 DEF Quiet

\* A save keeps the types.
LEMMA SaveKeepsTypes ==
    ASSUME StoreInv, NEW t \in Threads, Serialize(t) \/ Open(t) \/ Write(t) \/ SaveFails(t)
    PROVE  TypeOK'
<1> USE SessionStoreAssumption DEF TypeOK
<1>1. /\ TypeOK
      /\ Len(base) \in Nat /\ extras \in Nat
      /\ Other(t) \in Threads /\ Other(t) # t
  BY LenProperties, TwoThreads DEF StoreInv, TypeOK
<1>2. Disturb(t) \in BOOLEAN /\ save[t] \in SaveType
  BY <1>1 DEF Disturb
<1>3. CASE Serialize(t)
  <2> DEFINE free == save[Other(t)].at = "none"
             s0 == [at |-> "serialized", list |-> mem, alone |-> free, clean |-> TRUE]
  <2>1. s0 \in SaveType
    BY <1>1 DEF SaveType
  <2>2. save' = [save EXCEPT ![t] = s0, ![Other(t)].alone = free]
    BY <1>3 DEF Serialize
  <2>3. save' \in [Threads -> SaveType]
    BY <1>1, <2>1, <2>2, TwoThreads
  <2> QED BY <1>1, <1>3, <2>3 DEF Serialize
<1>4. CASE Open(t)
  <2>1. save' \in [Threads -> SaveType]
    BY <1>1, <1>2, <1>4, TwoThreads DEF Open
  <2> QED BY <1>1, <1>4, <2>1, Moves DEF Open, history
<1>5. Written(t) \subseteq DiskType
  <2>1. save[t].list \in Seq(Checkpoints)
    BY <1>2 DEF SaveType
  <2> QED BY <2>1, Moves DEF Written
<1>6. CASE Write(t)
  <2>1. save' \in [Threads -> SaveType]
    BY <1>1, <1>2, <1>6, TwoThreads DEF Write
  <2>2. disk' \in DiskType /\ agent' \in AgentType /\ main' \in MainType
    BY <1>1, <1>5, <1>6, Moves DEF Write
  <2>3. dirty' \in BOOLEAN /\ behind' \in BOOLEAN
    BY <1>6 DEF Write
  <2> QED BY <1>1, <1>6, <2>1, <2>2, <2>3 DEF Write
<1>7. CASE SaveFails(t)
  <2>1. save' \in [Threads -> SaveType]
    <3>1. \A x \in BOOLEAN : [save EXCEPT ![t] = NoSave, ![Other(t)].clean = x]
                                \in [Threads -> SaveType]
      BY <1>1, TwoThreads
    <3>2. save[Other(t)].clean \in BOOLEAN
      BY <1>1 DEF SaveType
    <3> QED BY <1>1, <1>2, <1>7, <3>1, <3>2 DEF SaveFails
  <2>2. disk' \in DiskType
    BY <1>1, <1>5, <1>7, Moves DEF SaveFails
  <2>3. agent' \in AgentType
    BY <1>1, <1>7, Moves DEF SaveFails
  <2>4. main' \in MainType
    BY <1>1, <1>7, Moves DEF SaveFails
  <2> QED BY SMTT(30), <1>1, <1>7, <2>1, <2>2, <2>3, <2>4 DEF SaveFails, history
<1> QED BY <1>3, <1>4, <1>6, <1>7

\* The beginning of a rewind keeps the types.
LEMMA BeginKeepsTypes ==
    ASSUME StoreInv, NEW start \in DOMAIN mem, BeginRewind(start)
    PROVE  TypeOK'
<1> USE SessionStoreAssumption DEF TypeOK
<1>1. /\ TypeOK
      /\ Len(base) \in Nat /\ extras \in Nat
  BY LenProperties DEF StoreInv, TypeOK
<1>2. \A s \in Seq(Checkpoints) : \A i \in DOMAIN s : s[i].file \in Files
  BY ElementTypes
<1> DEFINE selected == SubSeq(mem, start, Len(mem))
<1>3. selected \in Seq(Checkpoints) /\ Len(selected) \in Nat
      /\ DOMAIN selected = 1..Len(selected)
  BY <1>1, SelectedIsTail
<1>4. FilesOf(selected) \subseteq Files
  BY <1>2, <1>3 DEF FilesOf
<1> HIDE DEF selected
<1> DEFINE reverse(paths) ==
             [k \in DOMAIN paths |->
                [id |-> Len(base) + 1, kind |-> "rewind", file |-> paths[k],
                 existed |-> files[paths[k]] # Absent, text |-> Text(files[paths[k]])]]
<1>5. PICK paths \in Captures(selected) :
        main' = [at |-> "restoring", selected |-> selected, left |-> Len(selected),
                 reverse |-> reverse(paths)]
  BY DEF BeginRewind, selected
<1>6. PICK n \in Nat : paths \in [1..n -> Files]
  BY <1>3, <1>4, <1>5 DEF Captures
<1>7. reverse(paths) \in Seq(Checkpoints)
  <2>1. Len(base) + 1 \in 1..MaxEvents
    BY <1>1 DEF BeginRewind
  <2>2. \A k \in 1..n : [id |-> Len(base) + 1, kind |-> "rewind", file |-> paths[k],
                        existed |-> files[paths[k]] # Absent,
                        text |-> Text(files[paths[k]])] \in Checkpoints
    BY <1>1, <1>6, <2>1, TextIsText DEF Checkpoints
  <2>3. reverse(paths) \in [1..n -> Checkpoints]
    BY <1>6, <2>2
  <2> QED BY <1>6, <2>3, SeqDef
<1> HIDE DEF reverse
<1>8. main' \in MainType
  BY <1>3, <1>5, <1>7 DEF MainType
<1>9. base' \in Seq(Workspace) /\ Len(base') = Len(base) + 1
  BY <1>1, AppendProperties DEF BeginRewind
<1>10. strayed' \subseteq Files
  <2>1. \A i \in DOMAIN mem : mem[i].file \in Files
    BY <1>1, <1>2
  <2>2. strayed \subseteq Files
    BY <1>1
  <2> QED BY <2>1, <2>2 DEF BeginRewind
<1>11. Len(base') + extras' <= MaxEvents /\ extras' \in 0..MaxEvents
  BY <1>1, <1>9 DEF BeginRewind
<1> QED BY <1>1, <1>8, <1>9, <1>10, <1>11 DEF BeginRewind

\* Every step keeps the types.
LEMMA StepKeepsTypes ==
    ASSUME StoreInv, Next
    PROVE  TypeOK'
<1> USE SessionStoreAssumption DEF TypeOK
<1>1. /\ TypeOK /\ Turns /\ RestoresTail
      /\ Len(base) \in Nat /\ extras \in Nat
  BY LenProperties DEF StoreInv, TypeOK
<1>2. Blank \in Texts /\ 1..MaxEvents \subseteq Texts
  BY DEF Texts, Blank, Foreign
<1>3. \A s \in Seq(Checkpoints) : \A i \in DOMAIN s : s[i].file \in Files
  BY ElementTypes
<1>4. ASSUME CreateCheckpoint PROVE TypeOK'
  <2> DEFINE c == [id |-> Len(base) + 1, kind |-> "edit", file |-> agent.file,
                   existed |-> files[agent.file] # Absent, text |-> agent.before]
  <2>1. agent.file \in Files /\ agent.before \in Texts
    BY <1>1, <1>4 DEF CreateCheckpoint, Turns, AgentType
  <2>2. c \in Checkpoints
    BY <1>1, <1>4, <2>1 DEF CreateCheckpoint, Checkpoints
  <2>3. mem' \in Seq(Checkpoints)
    BY <1>1, <1>4, <2>2, AppendCheckpoint DEF CreateCheckpoint
  <2>4. base' \in Seq(Workspace) /\ Len(base') = Len(base) + 1
    BY <1>1, <1>4, AppendProperties DEF CreateCheckpoint
  <2>5. agent' \in AgentType
    BY <1>1, <1>4, Moves DEF CreateCheckpoint
  <2> QED BY <1>1, <1>4, <2>3, <2>4, <2>5 DEF CreateCheckpoint
<1>5. ASSUME WriteFile PROVE TypeOK'
  <2>1. mem[Len(mem)].id \in 1..MaxEvents /\ agent.file \in Files
    BY <1>1, <1>5, LastIsThere DEF WriteFile, Turns
  <2>2. files' \in Workspace
    BY <1>1, <1>2, <1>5, <2>1 DEF WriteFile, Workspace
  <2>3. extras' \in 0..MaxEvents /\ Len(base) + extras' <= MaxEvents
    BY <1>1, <1>5 DEF WriteFile
  <2> QED BY <1>1, <1>5, <2>1, <2>2, <2>3, Moves DEF WriteFile
<1>6. ASSUME ReplaceSelected PROVE TypeOK'
  <2>1. main.selected \in Seq(Checkpoints) /\ main.reverse \in Seq(Checkpoints)
    BY <1>1 DEF MainType
  <2>2. mem' \in Seq(Checkpoints)
    BY <1>1, <1>6, <2>1, ReplacedTail DEF ReplaceSelected, RestoresTail
  <2>3. main' \in MainType
    BY <1>1, <1>6, Moves DEF ReplaceSelected
  <2> QED BY <1>1, <1>6, <2>2, <2>3 DEF ReplaceSelected
<1>7. ASSUME End PROVE TypeOK'
  <2>1. Unaccounted \subseteq Files
    <3>1. /\ mem \in Seq(Checkpoints) /\ disk.list \in Seq(Checkpoints)
          /\ main.selected \in Seq(Checkpoints)
      BY <1>1 DEF MainType, DiskType
    <3>2. FilesOf(main.selected) \subseteq Files
      BY <1>3, <3>1 DEF FilesOf
    <3> QED BY <1>3, <3>1, <3>2 DEF Unaccounted
  <2>2. save' \in [Threads -> SaveType]
    BY <1>7, TwoThreads DEF End
  <2>3. mem' \in Seq(Checkpoints)
    BY <1>7, EmptySeq DEF End
  <2> QED BY <1>1, <1>7, <2>1, <2>2, <2>3, Moves DEF End
<1>8. ASSUME Resume PROVE TypeOK'
  <2>1. disk.list \in Seq(Checkpoints)
    BY <1>1 DEF DiskType
  <2>2. mem' \in Seq(Checkpoints) /\ up' \in BOOLEAN /\ applied' \subseteq 1..MaxEvents
    BY <1>1, <1>8, <2>1 DEF Resume
  <2>3. extras' \in 0..MaxEvents /\ Len(base) + extras' <= MaxEvents
    BY <1>1, <1>8 DEF Resume
  <2> QED BY <1>1, <1>8, <2>2, <2>3 DEF Resume
<1>9. ASSUME Begins PROVE TypeOK'
  BY <1>9, BeginKeepsTypes DEF Begins
<1> QED BY <1>4, <1>5, <1>6, <1>7, <1>8, <1>9, QuietKeepsTypes, SaveKeepsTypes,
           StepsOfTheSession

-----------------------------------------------------------------------------
\* What a step of save_session does to the saves: its own moves on or ends, of
\* the other's it only marks what has come in between.
LEMMA SaveMoves ==
    ASSUME TypeOK, NEW t \in Threads
    PROVE  /\ Serialize(t) =>
                 /\ ~InProgress(t) /\ Saves(t)
                 /\ save'[t].at = "serialized" /\ save'[t].list = mem
                 /\ save'[t].alone = ~InProgress(Other(t))
                 /\ save'[Other(t)].at = save[Other(t)].at
                 /\ save'[Other(t)].list = save[Other(t)].list
                 /\ save'[Other(t)].alone = ~InProgress(Other(t))
           /\ Open(t) =>
                 /\ InProgress(t)
                 /\ save'[t].at = "open" /\ save'[t].list = save[t].list
                 /\ save'[t].alone = save[t].alone
           /\ Write(t) \/ SaveFails(t) =>
                 InProgress(t) /\ save'[t].at = "none"
           /\ Open(t) \/ Write(t) \/ SaveFails(t) =>
                 /\ save'[Other(t)].at = save[Other(t)].at
                 /\ save'[Other(t)].list = save[Other(t)].list
                 /\ save'[Other(t)].alone = save[Other(t)].alone
<1>1. /\ save \in [Threads -> SaveType] /\ Other(t) \in Threads /\ Other(t) # t
      /\ save[t].at \in {"none", "serialized", "open"}
      /\ save[Other(t)].at \in {"none", "serialized", "open"}
      /\ save[t] \in SaveType /\ save[Other(t)] \in SaveType
  BY TwoThreads DEF TypeOK, SaveType
<1>2. ASSUME Serialize(t)
      PROVE  /\ ~InProgress(t) /\ Saves(t)
             /\ save'[t].at = "serialized" /\ save'[t].list = mem
             /\ save'[t].alone = ~InProgress(Other(t))
             /\ save'[Other(t)].at = save[Other(t)].at
             /\ save'[Other(t)].list = save[Other(t)].list
             /\ save'[Other(t)].alone = ~InProgress(Other(t))
  BY <1>1, <1>2 DEF Serialize, InProgress, SaveType
<1>3. ASSUME Open(t)
      PROVE  /\ InProgress(t)
             /\ save'[t].at = "open" /\ save'[t].list = save[t].list
             /\ save'[t].alone = save[t].alone
             /\ save'[Other(t)].at = save[Other(t)].at
             /\ save'[Other(t)].list = save[Other(t)].list
             /\ save'[Other(t)].alone = save[Other(t)].alone
  BY <1>1, <1>3 DEF Open, InProgress, SaveType
<1>4. ASSUME Write(t) \/ SaveFails(t)
      PROVE  /\ InProgress(t) /\ save'[t].at = "none"
             /\ save'[Other(t)].at = save[Other(t)].at
             /\ save'[Other(t)].list = save[Other(t)].list
             /\ save'[Other(t)].alone = save[Other(t)].alone
  BY <1>1, <1>4 DEF Write, SaveFails, InProgress, SaveType, NoSave
<1> QED BY <1>2, <1>3, <1>4

\* What the proofs use of the two threads.
LEMMA TurnsOfThreads ==
    ASSUME TypeOK, Turns
    PROVE  /\ InProgress("agent") => agent.at = "saving" /\ up /\ busy
           /\ InProgress("main") => main.at \in {"autosaving", "rewound", "exiting"} /\ up
BY DEF Turns, Saves, Threads

\* A step of a save keeps what is known of the threads.
LEMMA SaveKeepsTurns ==
    ASSUME StoreInv, NEW t \in Threads, Serialize(t) \/ Open(t) \/ Write(t) \/ SaveFails(t)
    PROVE  Turns' /\ RestoresTail'
<1>1. TypeOK /\ Turns /\ RestoresTail
  BY DEF StoreInv
<1>2. t = "agent" \/ t = "main"
  BY DEF Threads
<1>3. CASE Serialize(t) \/ Open(t)
  <2>1. UNCHANGED <<up, mem, busy, agent, main>>
    BY <1>3 DEF Serialize, Open
  <2>2. \A u \in Threads : InProgress(u)' => Saves(u)
    BY <1>1, <1>3, SaveMoves, TwoThreads DEF InProgress, Turns
  <2> QED BY <1>1, <2>1, <2>2 DEF Turns, RestoresTail, Saves
<1>4. CASE Write(t) \/ SaveFails(t)
  <2>1. /\ UNCHANGED <<up, mem, busy>>
        /\ up /\ Saves(t) /\ ~InProgress(t)'
        /\ InProgress(Other(t))' => InProgress(Other(t))
    BY <1>1, <1>2, <1>4, SaveMoves, TurnsOfThreads DEF Write, SaveFails, InProgress, Turns
  <2>2. CASE t = "agent"
    <3>1. main' = main /\ agent.at = "saving" /\ agent'.at \in {"saved", "idle"} /\ mem # <<>>
      <4>1. agent.at = "saving" /\ mem # <<>>
        BY <1>1, <2>1, <2>2 DEF Saves, Turns
      <4>2. main' = main /\ (agent' = [agent EXCEPT !.at = "saved"] \/ agent' = NoEdit)
        BY <1>4, <2>2 DEF Write, SaveFails
      <4>3. agent'.at \in {"saved", "idle"}
        BY <1>1, <4>2 DEF NoEdit, TypeOK, AgentType
      <4> QED BY <4>1, <4>2, <4>3
    <3>2. agent'.at # "idle" => agent'.file = agent.file
      BY <1>1, <1>4, <2>2 DEF Write, SaveFails, NoEdit, TypeOK, AgentType
    <3>3. Other(t) = "main"
      BY <2>2 DEF Other
    <3>4. \A u \in Threads : InProgress(u)' => Saves(u)'
      BY <1>1, <2>1, <2>2, <3>1, <3>3 DEF Threads, Saves, Turns
    <3> QED BY <1>1, <2>1, <3>1, <3>2, <3>4 DEF Turns, RestoresTail
  <2>3. CASE t = "main"
    <3>1. agent' = agent /\ main'.at \in {"loop", "exiting", "over"}
      BY <1>1, <1>4, <2>3 DEF Write, SaveFails, InLoop, TypeOK, MainType
    <3>2. Other(t) = "agent"
      BY <2>3 DEF Other
    <3>3. \A u \in Threads : InProgress(u)' => Saves(u)'
      BY <1>1, <2>1, <2>3, <3>1, <3>2 DEF Threads, Saves, Turns
    <3> QED BY <1>1, <2>1, <3>1, <3>3 DEF Turns, RestoresTail
  <2> QED BY <1>2, <2>2, <2>3
<1> QED BY <1>3, <1>4

\* Every step keeps what is known of the threads.
LEMMA StepKeepsTurns ==
    ASSUME StoreInv, Next
    PROVE  Turns' /\ RestoresTail'
<1>1. TypeOK /\ Turns /\ RestoresTail
  BY DEF StoreInv
<1>2. ASSUME save' = save PROVE \A u \in Threads : InProgress(u)' <=> InProgress(u)
  BY <1>2 DEF InProgress
<1>3. ASSUME Quiet PROVE Turns' /\ RestoresTail'
  <2>1. UNCHANGED <<up, mem, save>>
    BY <1>3 DEF Quiet, BeginTurn, EndTurn, Refuse, Autosave, Restore, RestoreFails, Exit,
                ReadPrevious, Outside, process
  <2>2. CASE BeginTurn \/ EndTurn \/ Refuse \/ \E f \in Files : ReadPrevious(f)
    <3>1. main' = main
      BY <2>2 DEF BeginTurn, EndTurn, Refuse, ReadPrevious
    <3>2. RestoresTail'
      BY <1>1, <2>1, <3>1 DEF RestoresTail
    <3>3. \/ agent' = agent /\ up /\ main.at = "loop" /\ busy'
          \/ agent' = agent /\ agent.at = "idle"
          \/ /\ agent'.at \in {"idle", "reviewing"} /\ ~InProgress("agent")
             /\ agent'.at = "reviewing" => agent'.file \in Files
             /\ busy' = busy /\ busy
      BY <1>1, <2>2, TurnsOfThreads
      DEF BeginTurn, EndTurn, Refuse, ReadPrevious, NoEdit, Turns
    <3>4. ~InProgress("agent") \/ agent' = agent
      BY <3>3
    <3>5. \A u \in Threads : InProgress(u)' => Saves(u)'
      BY <1>1, <1>2, <2>1, <3>1, <3>4 DEF Turns, Saves, Threads
    <3>6. main.at \in {"restoring", "rewound"} => ~busy'
      BY <1>1, <2>2 DEF Turns, BeginTurn, EndTurn, Refuse, ReadPrevious
    <3>7. ~up => ~busy'
      BY <1>1, <2>2 DEF Turns, BeginTurn, EndTurn, Refuse, ReadPrevious
    <3>8. Turns'
      BY <1>1, <2>1, <3>1, <3>3, <3>5, <3>6, <3>7 DEF Turns
    <3> QED BY <3>2, <3>8
  <2>3. CASE Autosave \/ Exit
    <3>1. main'.at \in {"autosaving", "exiting"} /\ agent' = agent /\ busy' = busy /\ up
      BY <1>1, <2>3 DEF Autosave, Exit, TypeOK, MainType
    <3> QED BY <1>1, <1>2, <2>1, <3>1 DEF Turns, Saves, Threads, RestoresTail
  <2>4. CASE Restore \/ RestoreFails
    <3>1. agent' = agent /\ busy' = busy /\ main.at = "restoring"
      BY <2>4 DEF Restore, RestoreFails
    <3>2. ~InProgress("main")
      BY <1>1, <3>1, TurnsOfThreads
    <3>3. \/ main'.at = "loop"
          \/ /\ main'.at = "restoring" /\ main'.selected = main.selected
             /\ main'.left <= main.left
      BY <1>1, <2>4 DEF Restore, RestoreFails, InLoop, TypeOK, MainType
    <3>4. Turns'
      BY <1>1, <1>2, <2>1, <3>1, <3>2, <3>3 DEF Turns, Saves, Threads
    <3>5. RestoresTail'
      <4>1. CASE main'.at = "loop"
        BY <4>1 DEF RestoresTail
      <4>2. CASE /\ main'.at = "restoring" /\ main'.selected = main.selected
                 /\ main' = [main EXCEPT !.left = @ - 1]
        <5>1. main.left \in Nat /\ Len(main.selected) \in Nat /\ main'.left = main.left - 1
          BY <1>1, <4>2, LenProperties DEF TypeOK, MainType
        <5> QED BY <1>1, <2>1, <3>1, <4>2, <5>1 DEF RestoresTail
      <4> QED BY <2>4, <3>3, <4>1, <4>2 DEF Restore, RestoreFails, InLoop
    <3> QED BY <3>4, <3>5
  <2>5. CASE \E f \in Files : Outside(f)
    <3>1. UNCHANGED <<up, mem, busy, agent, main, save>>
      BY <2>5 DEF Outside, process
    <3> QED BY <1>1, <1>2, <3>1 DEF Turns, Saves, RestoresTail
  <2> QED BY <1>3, <2>2, <2>3, <2>4, <2>5 DEF Quiet
<1>4. ASSUME CreateCheckpoint PROVE Turns' /\ RestoresTail'
  <2>1. agent.at = "reviewing" /\ agent'.at = "saving" /\ agent'.file = agent.file /\ busy
    BY <1>1, <1>4 DEF CreateCheckpoint, TypeOK, AgentType, Turns
  <2>2. agent.file \in Files /\ agent.before \in Texts /\ files \in Workspace
    BY <1>1, <2>1 DEF Turns, TypeOK, AgentType
  <2>3. mem' # <<>>
    <3>1. Len(base) \in Nat /\ extras \in Nat
      BY <1>1, LenProperties DEF TypeOK
    <3>2. [id |-> Len(base) + 1, kind |-> "edit", file |-> agent.file,
           existed |-> files[agent.file] # Absent, text |-> agent.before] \in Checkpoints
      BY <1>4, <2>2, <3>1, SessionStoreAssumption DEF CreateCheckpoint, Checkpoints
    <3> QED BY <1>1, <1>4, <3>2, AppendCheckpoint DEF CreateCheckpoint, TypeOK
  <2>4. ~InProgress("agent") /\ main.at # "restoring"
    BY <1>1, <2>1, TurnsOfThreads DEF Turns
  <2>5. UNCHANGED <<up, busy, main, save>>
    BY <1>4 DEF CreateCheckpoint
  <2> QED BY <1>1, <1>2, <2>1, <2>2, <2>3, <2>4, <2>5
          DEF Turns, Saves, Threads, RestoresTail
<1>5. ASSUME WriteFile PROVE Turns' /\ RestoresTail'
  <2>1. /\ UNCHANGED <<up, mem, busy, main, save>> /\ agent' = NoEdit
        /\ ~InProgress("agent")
    BY <1>1, <1>5, TurnsOfThreads DEF WriteFile
  <2> QED BY <1>1, <1>2, <2>1 DEF Turns, Saves, Threads, RestoresTail, NoEdit
<1>6. ASSUME Begins PROVE Turns' /\ RestoresTail'
  <2>1. PICK start \in DOMAIN mem : BeginRewind(start)
    BY <1>6 DEF Begins
  <2> DEFINE selected == SubSeq(mem, start, Len(mem))
  <2>2. /\ Len(selected) \in Nat /\ Len(selected) <= Len(mem)
        /\ \A i \in DOMAIN selected : selected[i] = mem[Len(mem) - Len(selected) + i]
    BY <1>1, SelectedIsTail DEF TypeOK
  <2>3. /\ main'.at = "restoring" /\ main'.selected = selected /\ main'.left = Len(selected)
        /\ ~busy /\ main.at = "loop" /\ up
        /\ UNCHANGED <<up, mem, busy, agent, save>>
    BY SMTT(30), <2>1 DEF BeginRewind
  <2> HIDE DEF selected
  <2>4. RestoresTail'
    BY <2>2, <2>3 DEF RestoresTail
  <2>5. ~InProgress("main")
    BY <1>1, <2>3, TurnsOfThreads
  <2> QED BY <1>1, <1>2, <2>3, <2>4, <2>5 DEF Turns, Saves, Threads
<1>7. ASSUME ReplaceSelected PROVE Turns' /\ RestoresTail'
  <2>1. /\ main.at = "restoring" /\ main'.at = "rewound"
        /\ UNCHANGED <<up, busy, agent, save>> /\ ~busy /\ agent.at = "idle"
    BY <1>1, <1>7 DEF ReplaceSelected, TypeOK, MainType, Turns
  <2>2. ~InProgress("main")
    BY <1>1, <2>1, TurnsOfThreads
  <2> QED BY <1>1, <1>2, <2>1, <2>2 DEF Turns, Saves, Threads, RestoresTail
<1>8. ASSUME End PROVE Turns' /\ RestoresTail'
  BY <1>8 DEF End, Turns, RestoresTail, InProgress, NoEdit, InLoop, NoSave
<1>9. ASSUME Resume PROVE Turns' /\ RestoresTail'
  <2>1. /\ agent.at = "idle" /\ main.at = "loop" /\ UNCHANGED <<busy, agent, main, save>>
        /\ ~InProgress("agent") /\ ~InProgress("main") /\ up'
    BY <1>1, <1>9, TurnsOfThreads DEF Resume, Turns
  <2> QED BY <1>1, <1>2, <2>1 DEF Turns, Threads, RestoresTail
<1> QED BY <1>3, <1>4, <1>5, <1>6, <1>7, <1>8, <1>9, SaveKeepsTurns, StepsOfTheSession

-----------------------------------------------------------------------------
\* A step of a save: two that meet leave the file behind, and what a save that
\* is alone writes has all that is owed.
LEMMA SaveKeepsOwed ==
    ASSUME StoreInv, NEW t \in Threads, Serialize(t) \/ Open(t) \/ Write(t) \/ SaveFails(t)
    PROVE  AloneOrBehind' /\ OwedIsKept'
<1>1. TypeOK /\ Turns /\ AloneOrBehind /\ OwedIsKept
  BY DEF StoreInv
<1>2. /\ Other(t) \in Threads /\ Other(t) # t /\ Other(Other(t)) = t
      /\ \A u \in Threads : u = t \/ u = Other(t)
      /\ t = "agent" \/ t = "main"
  BY TwoThreads DEF Threads
<1>3. up /\ Owed \subseteq Ids(mem) /\ UNCHANGED <<up, mem>> /\ Last' = Last
  <2>1. InProgress(t) \/ Saves(t)
    BY <1>1, SaveMoves
  <2>2. Saves(t)
    BY <1>1, <2>1 DEF Turns
  <2>3. UNCHANGED <<up, mem>>
    BY DEF Serialize, Open, Write, SaveFails
  <2> QED BY <1>1, <1>2, <2>2, <2>3 DEF Turns, Saves, OwedIsKept, Last
<1>4. CASE Serialize(t)
  <2>1. /\ UNCHANGED <<disk, agent, applied>> /\ Saves(t)
        /\ behind' = (behind \/ InProgress(Other(t)))
    BY <1>4, SaveMoves, <1>1 DEF Serialize, InProgress
  <2>2. Owed' = Owed
    BY <1>3, <2>1 DEF Owed
  <2>3. /\ InProgress(t)' /\ save'[t].list = mem
        /\ InProgress(Other(t))' <=> InProgress(Other(t))
        /\ save'[t].alone = ~InProgress(Other(t))
        /\ save'[Other(t)].alone = ~InProgress(Other(t))
        /\ save'[Other(t)].list = save[Other(t)].list
    BY <1>1, <1>4, SaveMoves DEF InProgress
  <2>4. AloneOrBehind'
    BY <1>2, <2>1, <2>3 DEF AloneOrBehind
  <2>5. InProgress("agent")' => Last \in Ids(save'["agent"].list)
    <3>1. CASE t = "agent"
      BY <1>1, <2>1, <2>3, <3>1, LastIsThere DEF Saves, Turns, Last, TypeOK
    <3>2. CASE t = "main"
      BY <1>1, <2>3, <3>2 DEF OwedIsKept, Other
    <3> QED BY <1>2, <3>1, <3>2
  <2>6. disk.readable /\ ~behind' => Owed \subseteq Ids(disk.list)
    BY <1>1, <2>1 DEF OwedIsKept
  <2>7. \A u \in Threads : InProgress(u)' /\ save'[u].alone => Owed \subseteq Ids(save'[u].list)
    BY <1>2, <1>3, <2>3
  <2>8. OwedIsKept'
    BY <1>3, <2>1, <2>2, <2>5, <2>6, <2>7 DEF OwedIsKept
  <2> QED BY <2>4, <2>8
<1>5. CASE Open(t)
  <2>1. /\ UNCHANGED <<agent, applied, behind>> /\ ~disk'.readable
    BY <1>5 DEF Open, history, Unreadable
  <2>2. Owed' = Owed
    BY <1>3, <2>1 DEF Owed
  <2>3. \A u \in Threads : /\ InProgress(u)' <=> InProgress(u)
                           /\ save'[u].list = save[u].list /\ save'[u].alone = save[u].alone
    BY <1>1, <1>2, <1>5, SaveMoves DEF InProgress
  <2>4. AloneOrBehind'
    BY <1>1, <1>2, <2>1, <2>3 DEF AloneOrBehind
  <2>5. OwedIsKept'
    BY <1>1, <1>3, <2>1, <2>2, <2>3 DEF OwedIsKept, Threads
  <2> QED BY <2>4, <2>5
<1>6. CASE Write(t) \/ SaveFails(t)
  <2>1. /\ InProgress(t) /\ ~InProgress(t)'
        /\ InProgress(Other(t))' <=> InProgress(Other(t))
        /\ save'[Other(t)].list = save[Other(t)].list
        /\ save'[Other(t)].alone = save[Other(t)].alone
    BY <1>1, <1>6, SaveMoves DEF InProgress
  <2>2. applied' = applied
    BY <1>6 DEF Write, SaveFails, history
  <2>3. behind' \in BOOLEAN /\ (behind' => behind) /\ (~save[t].alone => behind /\ behind')
    <3>1. /\ behind \in BOOLEAN /\ (~save[t].alone => behind)
          /\ behind' = (behind /\ ~save[t].alone) \/ behind' = behind
      BY <1>1, <1>6, <2>1 DEF Write, SaveFails, history, AloneOrBehind, TypeOK
    <3>2. CASE behind = TRUE
      BY <3>1, <3>2
    <3>3. CASE behind = FALSE
      BY <3>1, <3>3
    <3> QED BY <3>1, <3>2, <3>3
  <2>4. InProgress(Other(t)) => ~save[t].alone /\ ~save[Other(t)].alone
    BY <1>1, <1>2, <2>1 DEF AloneOrBehind
  <2>5. AloneOrBehind'
    BY <1>2, <2>1, <2>3, <2>4 DEF AloneOrBehind
  <2>6. Owed' \subseteq Owed \cup (IF t = "agent" /\ agent.at = "saving" THEN {Last} ELSE {})
    <3>1. CASE t = "agent"
      BY <1>1, <1>3, <2>1, <2>2, <3>1, TurnsOfThreads DEF Owed
    <3>2. CASE t = "main"
      BY <1>3, <1>6, <2>2, <3>2 DEF Write, SaveFails, Owed
    <3> QED BY <1>2, <3>1, <3>2
  <2>7. Owed' \subseteq Ids(mem)
    BY <1>1, <1>3, <2>6, LastIsThere DEF Turns, Last, TypeOK
  <2>8. save[t].alone => Owed' \subseteq Ids(save[t].list)
    BY <1>1, <2>1, <2>6 DEF OwedIsKept
  <2>9. \A u \in Threads : ~(InProgress(u)' /\ save'[u].alone)
    BY <1>2, <2>1, <2>4
  <2>10. InProgress("agent")' => Last' \in Ids(save'["agent"].list)
    BY <1>1, <1>2, <1>3, <2>1 DEF OwedIsKept, Other
  <2>11. disk'.readable /\ ~behind' => Owed' \subseteq Ids(disk'.list)
    <3>1. SUFFICES ASSUME disk'.readable, ~behind' PROVE Owed' \subseteq Ids(disk'.list)
      OBVIOUS
    <3>2. save[t].alone
      BY <2>3, <3>1
    <3>3. CASE disk' \in Written(t)
      BY <2>8, <3>1, <3>2, <3>3 DEF Written, Readable, Unreadable
    <3>4. CASE disk' = Unreadable
      BY <3>1, <3>4 DEF Unreadable
    <3>5. CASE disk' = disk /\ SaveFails(t)
      <4>1. ~behind /\ (agent' = agent \/ agent' = NoEdit)
        BY <3>1, <3>5 DEF SaveFails, history
      <4>2. Owed' \subseteq Owed
        BY <1>3, <2>2, <4>1 DEF Owed, NoEdit
      <4> QED BY <1>1, <3>1, <3>5, <4>1, <4>2 DEF OwedIsKept
    <3> QED BY <1>6, <3>3, <3>4, <3>5 DEF Write, SaveFails
  <2>12. OwedIsKept'
    BY <1>3, <2>7, <2>9, <2>10, <2>11 DEF OwedIsKept
  <2> QED BY <2>5, <2>12
<1> QED BY <1>4, <1>5, <1>6

\* A step that keeps list, file and saves owes nothing new.
LEMMA SameLists ==
    ASSUME StoreInv, UNCHANGED <<mem, disk, save, behind>>, up' => up, Owed' \subseteq Owed
    PROVE  AloneOrBehind' /\ OwedIsKept'
<1>1. AloneOrBehind /\ OwedIsKept
  BY DEF StoreInv
<1>2. Last' = Last /\ \A u \in Threads : InProgress(u)' <=> InProgress(u)
  BY DEF Last, InProgress
<1>3. AloneOrBehind'
  BY <1>1, <1>2, TwoThreads DEF AloneOrBehind
<1>4. InProgress("agent")' => Last' \in Ids(save'["agent"].list)
  BY <1>1, <1>2 DEF OwedIsKept, InProgress
<1>5. OwedIsKept'
  BY <1>1, <1>2, <1>4 DEF OwedIsKept
<1> QED BY <1>3, <1>5

\* Every step keeps what is owed where it has to be.
LEMMA StepKeepsOwed ==
    ASSUME StoreInv, Next
    PROVE  AloneOrBehind' /\ OwedIsKept'
<1>1. TypeOK /\ Turns /\ RestoresTail /\ AloneOrBehind /\ OwedIsKept
  BY DEF StoreInv
<1>2. ASSUME Quiet PROVE AloneOrBehind' /\ OwedIsKept'
  <2>1. UNCHANGED <<up, mem, disk, save, applied, behind>>
    BY <1>2 DEF Quiet, BeginTurn, EndTurn, Refuse, Autosave, Restore, RestoreFails, Exit,
                ReadPrevious, Outside, process, history
  <2>2. agent'.at = "saved" => agent.at = "saved"
    BY <1>2 DEF Quiet, BeginTurn, EndTurn, Refuse, Autosave, Restore, RestoreFails, Exit,
                ReadPrevious, Outside, process, NoEdit
  <2> QED BY <2>1, <2>2, SameLists DEF Owed, Last
<1>3. ASSUME WriteFile PROVE AloneOrBehind' /\ OwedIsKept'
  BY <1>3, SameLists DEF WriteFile, Owed, Last, NoEdit
<1>4. ASSUME Begins PROVE AloneOrBehind' /\ OwedIsKept'
  BY <1>4, SameLists DEF Begins, BeginRewind, Owed, Last
<1>5. ASSUME CreateCheckpoint PROVE AloneOrBehind' /\ OwedIsKept'
  <2> DEFINE c == [id |-> Len(base) + 1, kind |-> "edit", file |-> agent.file,
                   existed |-> files[agent.file] # Absent, text |-> agent.before]
  <2>1. c \in Checkpoints
    <3>1. Len(base) \in Nat /\ extras \in Nat
      BY <1>1, LenProperties DEF TypeOK
    <3> QED BY <1>1, <1>5, <3>1, SessionStoreAssumption
            DEF CreateCheckpoint, Checkpoints, TypeOK, AgentType, Turns
  <2>2. mem' = Append(mem, c) /\ Ids(mem) \subseteq Ids(mem')
    BY <1>1, <1>5, <2>1, AppendCheckpoint DEF CreateCheckpoint, TypeOK
  <2>3. /\ UNCHANGED <<up, disk, save, applied, behind>> /\ ~InProgress("agent")
        /\ agent.at = "reviewing" /\ agent'.at = "saving"
    BY <1>1, <1>5, TurnsOfThreads DEF CreateCheckpoint, TypeOK, AgentType
  <2>4. Owed' = Owed /\ \A u \in Threads : InProgress(u)' <=> InProgress(u)
    BY <2>3 DEF Owed, InProgress
  <2>5. AloneOrBehind'
    BY <1>1, <2>3, <2>4, TwoThreads DEF AloneOrBehind
  <2>6. OwedIsKept'
    BY <1>1, <2>2, <2>3, <2>4 DEF OwedIsKept, InProgress
  <2> QED BY <2>5, <2>6
<1>6. ASSUME ReplaceSelected PROVE AloneOrBehind' /\ OwedIsKept'
  <2>1. /\ main.selected \in Seq(Checkpoints) /\ main.reverse \in Seq(Checkpoints)
        /\ mem \in Seq(Checkpoints)
    BY <1>1 DEF TypeOK, MainType
  <2>2. /\ UNCHANGED <<up, disk, agent, save, behind>> /\ agent.at = "idle"
        /\ main.at = "restoring" /\ applied' = applied \ Ids(main.selected)
    BY <1>1, <1>6 DEF ReplaceSelected, Turns
  <2>3. Ids(mem) \ Ids(main.selected) \subseteq Ids(mem')
    BY <1>1, <1>6, <2>1, ReplacedTail DEF ReplaceSelected, RestoresTail
  <2>4. Owed = applied /\ Owed' = applied \ Ids(main.selected)
    BY <2>2 DEF Owed
  <2>5. ~InProgress("agent") /\ ~InProgress("main")
    BY <1>1, <2>2, TurnsOfThreads
  <2>6. \A u \in Threads : ~InProgress(u)'
    BY <2>2, <2>5 DEF InProgress, Threads
  <2>7. AloneOrBehind'
    BY <2>6 DEF AloneOrBehind
  <2>8. OwedIsKept'
    BY <1>1, <2>2, <2>3, <2>4, <2>6 DEF OwedIsKept, Threads
  <2> QED BY <2>7, <2>8
<1>7. ASSUME End PROVE AloneOrBehind' /\ OwedIsKept'
  <2>1. /\ ~up' /\ UNCHANGED <<disk, applied, behind>> /\ agent'.at = "idle"
        /\ \A u \in Threads : ~InProgress(u)'
    BY <1>7 DEF End, NoEdit, NoSave, InProgress
  <2>2. Owed' \subseteq Owed
    BY <2>1 DEF Owed
  <2> QED BY <1>1, <2>1, <2>2 DEF AloneOrBehind, OwedIsKept, Threads
<1>8. ASSUME Resume PROVE AloneOrBehind' /\ OwedIsKept'
  <2>1. /\ agent.at = "idle" /\ UNCHANGED <<disk, agent, save, behind>>
        /\ mem' = disk.list /\ applied' = applied \cap Ids(disk.list)
        /\ ~InProgress("agent") /\ ~InProgress("main")
    BY <1>1, <1>8, TurnsOfThreads DEF Resume, Turns
  <2>2. \A u \in Threads : ~InProgress(u)'
    BY <2>1 DEF InProgress, Threads
  <2>3. Owed' = applied \cap Ids(disk.list)
    BY <2>1 DEF Owed
  <2> QED BY <2>1, <2>2, <2>3 DEF AloneOrBehind, OwedIsKept, Threads
<1> QED BY <1>2, <1>3, <1>4, <1>5, <1>6, <1>7, <1>8, SaveKeepsOwed, StepsOfTheSession

-----------------------------------------------------------------------------
\* What holds at the start is kept by every step, and by none.
THEOREM SessionInvariant == Spec => []StoreInv
<1>1. ASSUME StoreInv, UNCHANGED vars PROVE StoreInv'
  <2>1. UNCHANGED <<files, disk, up, mem, busy, dirty, agent, main, save, extras, base,
                    applied, strayed, behind>>
    BY <1>1 DEF vars, process, history
  <2>2. TypeOK'
    BY <1>1, <2>1 DEF StoreInv, TypeOK
  <2>3. \A u \in Threads : InProgress(u)' <=> InProgress(u)
    BY <2>1 DEF InProgress
  <2>4. Turns' /\ RestoresTail'
    BY <1>1, <2>1, <2>3 DEF StoreInv, Turns, RestoresTail, Saves
  <2>5. AloneOrBehind' /\ OwedIsKept'
    BY <1>1, <2>1, SameLists DEF Owed, Last
  <2> QED BY <2>2, <2>4, <2>5 DEF StoreInv
<1>2. ASSUME StoreInv, Next PROVE StoreInv'
  BY <1>2, StepKeepsTypes, StepKeepsTurns, StepKeepsOwed DEF StoreInv
<1>3. StoreInv /\ [Next]_vars => StoreInv'
  BY <1>1, <1>2
<1> QED BY InitIsGood, <1>3, PTL DEF Spec

\* Type correctness: in particular checkpoints hold texts of files of the
\* workspace, whatever is captured, restored and replaced.
THEOREM SessionTypeCorrect == Spec => []TypeOK
<1>1. StoreInv => TypeOK
  BY DEF StoreInv
<1> QED BY <1>1, SessionInvariant, PTL

\* No edit is in the workspace whose checkpoint a readable session file lacks,
\* unless saves have overlapped.
THEOREM EditsAreCovered == Spec => []EditIsCovered
<1>1. StoreInv => EditIsCovered
  BY DEF StoreInv, OwedIsKept, Owed, EditIsCovered
<1> QED BY <1>1, SessionInvariant, PTL

-----------------------------------------------------------------------------
(***************************************************************************)
(* A rewind is exact.  A list of checkpoints tells what the workspace was:  *)
(* from a place s on, the next checkpoint of a file holds what the file     *)
(* held when s was made, and where there is none, the file still holds it.  *)
(* This is so for the session's list, for what a save is about to write and *)
(* for the session file, each for the files that it accounts for.           *)
(***************************************************************************)

\* What a checkpoint puts back.
Value(c) == IF c.existed THEN c.text ELSE Absent

\* The numbers of a list go up to n.
Ordered(L, n) ==
    /\ \A i, j \in 1..Len(L) : i <= j => L[i].id <= L[j].id
    /\ \A i \in 1..Len(L) : L[i].id <= n

\* Files that a rewind after the place s has brought back behind it.
Undone(L, s) == {L[i].file : i \in {j \in s..Len(L) : L[j].kind = "rewind"
                                                     /\ L[j].id # L[s].id}}

\* Files of the group of s that are before s.
Shared(L, s) == {L[i].file : i \in {j \in 1..s - 1 : L[j].id = L[s].id}}

\* L[i] is the next checkpoint of f from s on.
NextOf(L, s, i, f) == L[i].file = f /\ \A j \in s..i - 1 : L[j].file # f

\* The list tells what f was, with B the history of the workspace and w what f
\* holds.
TellsFrom(L, s, f, B, w) ==
    /\ \A i \in s..Len(L) : NextOf(L, s, i, f) => B[L[i].id][f] = B[L[s].id][f]
    /\ (\A i \in s..Len(L) : L[i].file # f) => w = B[L[s].id][f]

Tells(L, f, B, w) ==
    \A s \in 1..Len(L) : f \notin Undone(L, s) /\ f \notin Shared(L, s)
                             => TellsFrom(L, s, f, B, w)

\* The list L has of the file f what the session's list M has, with A the edits
\* that are done.
Accounts(L, M, A, f) ==
    /\ \A i \in 1..Len(M) : M[i].file = f /\ (M[i].kind = "rewind" \/ M[i].id \in A)
                                => \E j \in 1..Len(L) : L[j] = M[i]
    /\ \A j \in 1..Len(L) : L[j].file = f => \E i \in 1..Len(M) : M[i] = L[j]

\* The checkpoints of files outside S hold what the files were.
Holds(L, B, S) ==
    \A i \in 1..Len(L) : L[i].file \notin S => Value(L[i]) = B[L[i].id][L[i].file]

\* Of the selected checkpoints S those after the place l have been restored:
\* a file holds v as before, or what the first of its checkpoints there puts
\* back.
Restored(S, l, f, v, w) ==
    \/ w = v /\ \A i \in l + 1..Len(S) : S[i].file # f
    \/ \E i \in l + 1..Len(S) : NextOf(S, l + 1, i, f) /\ w = Value(S[i])

\* With the same list, a longer history changes nothing.
LEMMA LongerHistory ==
    ASSUME NEW L \in Seq(Checkpoints), NEW B \in Seq(Workspace), NEW x \in Workspace,
           Ordered(L, Len(B))
    PROVE  /\ \A f, w : Tells(L, f, B, w) => Tells(L, f, Append(B, x), w)
           /\ \A S : Holds(L, B, S) => Holds(L, Append(B, x), S)
           /\ Append(B, x) \in Seq(Workspace) /\ Len(Append(B, x)) = Len(B) + 1
           /\ Append(B, x)[Len(B) + 1] = x
<1>1. /\ Append(B, x) \in Seq(Workspace) /\ Len(Append(B, x)) = Len(B) + 1
      /\ \A k \in 1..Len(B) : Append(B, x)[k] = B[k]
      /\ Append(B, x)[Len(B) + 1] = x
  BY AppendProperties
<1>2. Len(L) \in Nat /\ Len(B) \in Nat /\ DOMAIN L = 1..Len(L)
  BY LenProperties
<1>3. ASSUME NEW i \in 1..Len(L) PROVE Append(B, x)[L[i].id] = B[L[i].id]
  <2>1. L[i].id \in 1..MaxEvents /\ L[i].id <= Len(B)
    BY <1>2, ElementTypes DEF Ordered
  <2>2. L[i].id \in 1..Len(B)
    BY <1>2, <2>1
  <2> QED BY <1>1, <2>2
<1> DEFINE C == Append(B, x)
<1>4. \A i \in 1..Len(L) : C[L[i].id] = B[L[i].id]
  BY <1>3
<1> HIDE DEF C
<1>5. ASSUME NEW f, NEW w, Tells(L, f, B, w) PROVE Tells(L, f, C, w)
  <2> SUFFICES ASSUME NEW s \in 1..Len(L), f \notin Undone(L, s), f \notin Shared(L, s)
               PROVE  TellsFrom(L, s, f, C, w)
    BY DEF Tells
  <2>1. TellsFrom(L, s, f, B, w)
    BY <1>5 DEF Tells
  <2>2. \A i \in s..Len(L) : i \in 1..Len(L)
    BY <1>2
  <2> QED BY <1>4, <2>1, <2>2 DEF TellsFrom
<1>6. ASSUME NEW S, Holds(L, B, S) PROVE Holds(L, C, S)
  BY <1>4, <1>6 DEF Holds
<1> QED BY <1>1, <1>5, <1>6 DEF C

\* There is nothing that the empty list could tell.
LEMMA NoList ==
    /\ \A n : Ordered(<<>>, n)
    /\ \A f, B, w : Tells(<<>>, f, B, w)
    /\ \A B, S : Holds(<<>>, B, S)
<1>1. Len(<<>>) = 0 /\ 1..0 = {}
  BY EmptySeq
<1> QED BY <1>1 DEF Ordered, Tells, Holds

\* The checkpoint of an edit that is about to be done tells what the file is.
LEMMA AppendTells ==
    ASSUME NEW L \in Seq(Checkpoints), NEW c \in Checkpoints, NEW f, NEW B, NEW w,
           Tells(L, f, B, w), w = B[c.id][f]
    PROVE  Tells(Append(L, c), f, B, w)
<1> DEFINE q == Append(L, c)
           n == Len(L)
<1>1. n \in Nat
  BY LenProperties
<1>2. Len(q) = n + 1 /\ (\A i \in 1..n : q[i] = L[i]) /\ q[n + 1] = c
  BY AppendProperties
<1> HIDE DEF q
<1> SUFFICES ASSUME NEW s \in 1..n + 1, f \notin Undone(q, s), f \notin Shared(q, s)
             PROVE  TellsFrom(q, s, f, B, w)
  BY <1>2 DEF Tells, q
<1>3. CASE s = n + 1
  <2>1. q[s] = c /\ \A i \in s..n + 1 : i = s
    BY <1>1, <1>2, <1>3
  <2> QED BY <1>2, <2>1 DEF TellsFrom
<1>4. CASE s \in 1..n
  <2>1. /\ \A i \in s..n : i \in 1..n /\ i \in s..n + 1
        /\ \A i \in 1..s - 1 : i \in 1..n
    BY <1>1, <1>4
  <2>2. q[s] = L[s] /\ (\A i \in s..n : q[i] = L[i]) /\ \A i \in 1..s - 1 : q[i] = L[i]
    BY <1>2, <1>4, <2>1
  <2>3. f \notin Undone(L, s) /\ f \notin Shared(L, s)
    BY <1>2, <2>1, <2>2 DEF Undone, Shared
  <2>4. TellsFrom(L, s, f, B, w)
    BY <1>4, <2>3 DEF Tells
  <2>5. ASSUME NEW i \in s..n + 1, NextOf(q, s, i, f) PROVE B[q[i].id][f] = B[q[s].id][f]
    <3>1. CASE i = n + 1
      <4>1. \A j \in s..n : L[j].file # f
        BY <1>1, <2>2, <2>5, <3>1 DEF NextOf
      <4> QED BY <1>2, <2>2, <2>4, <3>1, <4>1 DEF TellsFrom
    <3>2. CASE i \in s..n
      <4>1. \A j \in s..i - 1 : j \in s..n
        BY <1>1, <1>4, <3>2
      <4>2. NextOf(L, s, i, f)
        BY <2>2, <2>5, <3>2, <4>1 DEF NextOf
      <4> QED BY <2>2, <2>4, <3>2, <4>2 DEF TellsFrom
    <3> QED BY <1>1, <1>4, <3>1, <3>2
  <2>6. ASSUME \A i \in s..n + 1 : q[i].file # f PROVE w = B[q[s].id][f]
    BY <2>1, <2>2, <2>4, <2>6 DEF TellsFrom
  <2> QED BY <1>2, <2>5, <2>6 DEF TellsFrom
<1> QED BY <1>1, <1>3, <1>4

\* q is the list M with what is after the place p replaced by R, the checkpoints
\* of the rewind n, which are of the same files; w is what the file f holds then.
Replaces(q, M, p, R, n, f, B, w) ==
    /\ Len(q) = p + Len(R)
    /\ \A i \in 1..p + Len(R) : q[i] = IF i <= p THEN M[i] ELSE R[i - p]
    /\ \A i \in 1..Len(M) : M[i].id # n
    /\ \A k \in 1..Len(R) : R[k].id = n /\ R[k].kind = "rewind"
    /\ (\E i \in p + 1..Len(M) : M[i].file = f) => \E k \in 1..Len(R) : R[k].file = f
    /\ (\A k \in 1..Len(R) : R[k].file # f) => w = B[n][f]

\* With the checkpoints of a rewind in place of those it has restored the list
\* tells what the files are now, of those that the rewind has not brought back
\* and from the rewind on of all.
LEMMA ReplaceTells ==
    ASSUME NEW M \in Seq(Checkpoints), NEW R \in Seq(Checkpoints), NEW p \in 0..Len(M),
           NEW n, NEW q, NEW f, NEW B, NEW w, Replaces(q, M, p, R, n, f, B, w),
           Tells(M, f, B, B[n][f])
    PROVE  Tells(q, f, B, w)
<1> USE DEF Replaces
<1>1. Len(M) \in Nat /\ Len(R) \in Nat /\ p \in Nat /\ p <= Len(M)
  BY LenProperties
<1>2. /\ \A i \in 1..p : i \in 1..p + Len(R) /\ i \in 1..Len(M) /\ q[i] = M[i]
      /\ \A k \in 1..Len(R) : p + k \in p + 1..p + Len(R) /\ q[p + k] = R[k]
      /\ \A i \in p + 1..p + Len(R) : i - p \in 1..Len(R) /\ q[i] = R[i - p]
  <2>1. ASSUME NEW i \in 1..p
        PROVE  i \in 1..p + Len(R) /\ i \in 1..Len(M) /\ q[i] = M[i]
    <3>1. i \in 1..p + Len(R) /\ i \in 1..Len(M) /\ i <= p
      BY <1>1
    <3> QED BY <3>1
  <2>2. ASSUME NEW i \in p + 1..p + Len(R)
        PROVE  i - p \in 1..Len(R) /\ q[i] = R[i - p]
    <3>1. i - p \in 1..Len(R) /\ i \in 1..p + Len(R) /\ ~(i <= p)
      BY <1>1
    <3> QED BY <3>1
  <2>3. ASSUME NEW k \in 1..Len(R)
        PROVE  p + k \in p + 1..p + Len(R) /\ q[p + k] = R[k]
    <3>1. p + k \in p + 1..p + Len(R) /\ (p + k) - p = k
      BY <1>1
    <3> QED BY <2>2, <3>1
  <2> QED BY <2>1, <2>2, <2>3
<1> SUFFICES ASSUME NEW s \in 1..p + Len(R), f \notin Undone(q, s), f \notin Shared(q, s)
             PROVE  TellsFrom(q, s, f, B, w)
  BY DEF Tells
<1>3. CASE s \in p + 1..p + Len(R)
  <2>1. /\ \A i \in s..p + Len(R) : i \in p + 1..p + Len(R)
        /\ \A i \in p + 1..p + Len(R) : i \in s..p + Len(R) \/ i \in 1..s - 1
    BY <1>1, <1>3
  <2>2. q[s].id = n /\ \A i \in p + 1..p + Len(R) : q[i].id = n
    <3>1. ASSUME NEW i \in p + 1..p + Len(R) PROVE q[i].id = n
      <4>1. i - p \in 1..Len(R) /\ q[i] = R[i - p]
        BY <1>2
      <4>2. \A k \in 1..Len(R) : R[k].id = n
        OBVIOUS
      <4> QED BY <4>1, <4>2
    <3> QED BY <1>3, <3>1
  <2>3. ASSUME \A i \in s..p + Len(R) : q[i].file # f PROVE w = B[n][f]
    <3>1. ASSUME NEW i \in 1..s - 1, i \in p + 1..p + Len(R) PROVE q[i].file # f
      BY <2>2, <3>1 DEF Shared
    <3>2. \A k \in 1..Len(R) : R[k].file # f
      BY <1>2, <2>1, <2>3, <3>1
    <3> QED BY <3>2
  <2> QED BY <2>1, <2>2, <2>3 DEF TellsFrom
<1>4. CASE s \in 1..p
  <2>1. /\ \A i \in p + 1..p + Len(R) : i \in s..p + Len(R)
        /\ \A i \in s..p : i \in 1..p /\ i \in s..p + Len(R) /\ i \in s..Len(M)
        /\ \A i \in 1..s - 1 : i \in 1..p
        /\ \A i \in s..Len(M) : i \in s..p \/ i \in p + 1..Len(M)
        /\ s \in 1..Len(M)
    BY <1>1, <1>4
  <2>2. q[s] = M[s] /\ M[s].id # n
    BY <1>2, <1>4, <2>1
  <2>3. \A k \in 1..Len(R) : R[k].file # f
    <3>1. ASSUME NEW k \in 1..Len(R), R[k].file = f PROVE FALSE
      <4>1. /\ p + k \in s..p + Len(R) /\ q[p + k] = R[k]
            /\ R[k].kind = "rewind" /\ R[k].id # q[s].id
        BY <1>2, <2>1, <2>2
      <4>2. f \in Undone(q, s)
        BY SMTT(30), <1>2, <3>1, <4>1 DEF Undone
      <4> QED BY <4>2
    <3> QED BY <3>1
  <2>4. \A i \in p + 1..Len(M) : M[i].file # f
    BY <2>3
  <2>5. f \notin Undone(M, s)
    <3>1. ASSUME NEW i \in s..Len(M), M[i].kind = "rewind", M[i].id # M[s].id, M[i].file = f
          PROVE  FALSE
      <4>1. i \in s..p /\ q[i] = M[i]
        BY <1>2, <2>1, <2>4, <3>1
      <4>2. f \in Undone(q, s)
        BY <2>1, <2>2, <3>1, <4>1 DEF Undone
      <4> QED BY <4>2
    <3> QED BY <3>1 DEF Undone
  <2>6. f \notin Shared(M, s)
    BY <1>2, <2>1, <2>2 DEF Shared
  <2>7. TellsFrom(M, s, f, B, B[n][f])
    BY <2>1, <2>5, <2>6 DEF Tells
  <2>8. ASSUME NEW i \in s..p + Len(R), NextOf(q, s, i, f)
        PROVE  B[q[i].id][f] = B[q[s].id][f]
    <3>1. i \in s..p
      <4>1. CASE i \in p + 1..p + Len(R)
        BY <1>2, <2>3, <2>8, <4>1 DEF NextOf
      <4> QED BY <1>1, <1>4, <4>1
    <3>2. q[i] = M[i] /\ \A j \in s..i - 1 : j \in s..p
      BY <1>1, <1>2, <1>4, <2>1, <3>1
    <3>3. NextOf(M, s, i, f)
      BY <1>2, <2>1, <2>8, <3>2 DEF NextOf
    <3> QED BY <2>1, <2>2, <2>7, <3>1, <3>2, <3>3 DEF TellsFrom
  <2>9. ASSUME \A i \in s..p + Len(R) : q[i].file # f PROVE w = B[q[s].id][f]
    <3>1. \A i \in s..Len(M) : M[i].file # f
      BY <1>2, <2>1, <2>4, <2>9
    <3>2. w = B[n][f] /\ B[n][f] = B[M[s].id][f]
      BY <2>3, <2>7, <3>1 DEF TellsFrom
    <3> QED BY <2>2, <3>2
  <2> QED BY <2>8, <2>9 DEF TellsFrom
<1> QED BY <1>1, <1>3, <1>4

\* A list that has the newest checkpoint of a file tells the same whatever is
\* written to the file.
LEMMA WrittenTells ==
    ASSUME NEW L \in Seq(Checkpoints), NEW n, NEW k \in 1..Len(L), Ordered(L, n),
           L[k].id = n, NEW B, NEW v, NEW w, Tells(L, L[k].file, B, v)
    PROVE  Tells(L, L[k].file, B, w)
<1> DEFINE f == L[k].file
<1>1. Len(L) \in Nat /\ \A i \in 1..Len(L) : L[i].id \in Nat
  <2>1. Len(L) \in Nat /\ DOMAIN L = 1..Len(L)
    BY LenProperties
  <2>2. \A i \in 1..Len(L) : L[i].id \in 1..MaxEvents
    BY <2>1, ElementTypes
  <2> QED BY <2>1, <2>2
<1> SUFFICES ASSUME NEW s \in 1..Len(L), f \notin Undone(L, s), f \notin Shared(L, s)
             PROVE  TellsFrom(L, s, f, B, w)
  BY DEF Tells
<1>2. TellsFrom(L, s, f, B, v)
  BY DEF Tells
<1>3. k \in s..Len(L)
  <2>1. SUFFICES ASSUME k < s PROVE FALSE
    BY <1>1
  <2>2. L[k].id <= L[s].id /\ L[s].id <= n /\ k \in 1..s - 1
    BY <1>1, <2>1 DEF Ordered
  <2>3. L[s].id = L[k].id
    BY <1>1, <2>2
  <2> QED BY <2>2, <2>3 DEF Shared
<1> QED BY <1>2, <1>3 DEF TellsFrom

-----------------------------------------------------------------------------
\* The lists of checkpoints: the session's, the file's, and what is being saved.
Lists == {mem, disk.list} \cup {save[t].list : t \in {u \in Threads : InProgress(u)}}

\* The number that all of them go up to: that of a rewind comes in at its end.
Latest == IF main.at = "restoring" THEN Len(base) - 1 ELSE Len(base)

\* What a file holds when no rewind is under way.
AtRest(f) == IF main.at = "restoring" THEN base[Len(base)][f] ELSE files[f]

ListsOrdered == \A L \in Lists : Ordered(L, Latest)

NewestIsEdited ==
    agent.at \in {"saving", "saved"} =>
        mem[Len(mem)].id = Len(base) /\ mem[Len(mem)].file = agent.file

ReviewIsCurrent ==
    agent.at = "reviewing" /\ agent.file \notin strayed =>
        agent.before = Text(files[agent.file])

RewindCaptures ==
    main.at = "restoring" =>
        /\ main.selected # <<>>
        /\ FilesOf(main.reverse) = FilesOf(main.selected)
        /\ \A k \in 1..Len(main.reverse) : /\ main.reverse[k].id = Len(base)
                                          /\ main.reverse[k].kind = "rewind"

ListsHold ==
    /\ \A L \in Lists : Holds(L, base, strayed)
    /\ main.at = "restoring" => Holds(main.reverse, base, strayed)

RestoredSoFar ==
    main.at = "restoring" =>
        \A f \in Files \ strayed :
            Restored(main.selected, main.left, f, base[Len(base)][f], files[f])

\* A group that a rewind cuts counts as changed otherwise.
CutsAreStrayed ==
    main.at = "restoring" =>
        \A j \in 1..Len(mem) - Len(main.selected) :
            mem[j].id = main.selected[1].id => mem[j].file \in strayed

ListsTell ==
    \A L \in Lists : \A f \in Files \ strayed :
        (up => Accounts(L, mem, applied, f)) => Tells(L, f, base, AtRest(f))

RewindInv ==
    /\ StoreInv
    /\ ListsOrdered
    /\ NewestIsEdited
    /\ ReviewIsCurrent
    /\ RewindCaptures
    /\ ListsHold
    /\ RestoredSoFar
    /\ CutsAreStrayed
    /\ ListsTell

\* Every list of checkpoints is a sequence of checkpoints.
LEMMA ListTypes ==
    ASSUME TypeOK
    PROVE  /\ \A L \in Lists : L \in Seq(Checkpoints)
           /\ main.selected \in Seq(Checkpoints) /\ main.reverse \in Seq(Checkpoints)
           /\ mem \in Seq(Checkpoints) /\ disk.list \in Seq(Checkpoints)
<1>1. mem \in Seq(Checkpoints) /\ disk \in DiskType /\ save \in [Threads -> SaveType]
      /\ main \in MainType
  BY DEF TypeOK
<1>2. \A t \in Threads : save[t].list \in Seq(Checkpoints)
  BY <1>1 DEF SaveType
<1>3. disk.list \in Seq(Checkpoints)
  BY <1>1 DEF DiskType
<1> QED BY <1>1, <1>2, <1>3 DEF Lists, MainType

\* The places of a list, and what is there.
LEMMA PlacesOf ==
    ASSUME NEW L \in Seq(Checkpoints)
    PROVE  /\ Len(L) \in Nat /\ DOMAIN L = 1..Len(L)
           /\ \A i \in 1..Len(L) : /\ L[i] \in Checkpoints
                                   /\ L[i].id \in Nat /\ L[i].id >= 1
                                   /\ L[i].file \in Files
<1>1. Len(L) \in Nat /\ DOMAIN L = 1..Len(L)
  BY LenProperties
<1>2. \A i \in 1..Len(L) : L[i] \in Checkpoints
  BY ElementOfSeq
<1>3. \A c \in Checkpoints : c.id \in 1..MaxEvents /\ c.file \in Files
  BY DEF Checkpoints
<1>4. \A k \in 1..MaxEvents : k \in Nat /\ k >= 1
  BY SessionStoreAssumption
<1> QED BY <1>1, <1>2, <1>3, <1>4

\* A step brings no other list about than that of an edit or a rewind, or none.
LEMMA ListMoves ==
    ASSUME StoreInv, Next
    PROVE  /\ Lists' \subseteq Lists \cup {mem', <<>>}
           /\ CreateCheckpoint \/ ReplaceSelected \/ mem' \in Lists \cup {<<>>}
<1>1. TypeOK /\ Turns
  BY DEF StoreInv
<1>2. ASSUME disk'.list \in Lists \cup {mem', <<>>},
             \A u \in Threads : InProgress(u)' => save'[u].list \in Lists \cup {mem', <<>>}
      PROVE  Lists' \subseteq Lists \cup {mem', <<>>}
  BY <1>2 DEF Lists
<1>3. \A u \in Threads : InProgress(u) => save[u].list \in Lists
  BY DEF Lists
<1>4. mem \in Lists /\ disk.list \in Lists
  BY DEF Lists
<1>5. ASSUME UNCHANGED <<disk, save>> PROVE Lists' \subseteq Lists \cup {mem', <<>>}
  <2>1. \A u \in Threads : InProgress(u)' => InProgress(u) /\ save'[u].list = save[u].list
    BY <1>5 DEF InProgress
  <2> QED BY <1>2, <1>3, <1>4, <1>5, <2>1
<1>6. CASE Quiet
  <2>1. UNCHANGED <<mem, disk, save>>
    BY <1>6 DEF Quiet, BeginTurn, EndTurn, Refuse, Autosave, Restore, RestoreFails, Exit,
                ReadPrevious, Outside, process
  <2> QED BY <1>4, <1>5, <2>1
<1>7. CASE CreateCheckpoint \/ ReplaceSelected
  <2>1. UNCHANGED <<disk, save>>
    BY <1>7 DEF CreateCheckpoint, ReplaceSelected
  <2> QED BY <1>5, <1>7, <2>1
<1>8. CASE WriteFile \/ Begins
  <2>1. UNCHANGED <<mem, disk, save>>
    BY <1>8 DEF WriteFile, Begins, BeginRewind
  <2> QED BY <1>4, <1>5, <2>1
<1>9. CASE End
  <2>1. disk' = disk /\ mem' = <<>> /\ \A u \in Threads : ~InProgress(u)'
    BY <1>9 DEF End, InProgress, NoSave
  <2> QED BY <1>2, <1>4, <2>1
<1>10. CASE Resume
  <2>1. UNCHANGED <<disk, save>> /\ mem' = disk.list
    BY <1>10 DEF Resume
  <2> QED BY <1>4, <1>5, <2>1
<1>11. ASSUME NEW t \in Threads, Serialize(t) \/ Open(t) \/ Write(t) \/ SaveFails(t)
       PROVE  Lists' \subseteq Lists \cup {mem', <<>>} /\ mem' \in Lists
  <2>1. mem' = mem
    BY <1>11 DEF Serialize, Open, Write, SaveFails
  <2>2. /\ Other(t) \in Threads /\ \A u \in Threads : u = t \/ u = Other(t)
        /\ save'[Other(t)].at = save[Other(t)].at
        /\ save'[Other(t)].list = save[Other(t)].list
    BY <1>1, <1>11, SaveMoves, TwoThreads
  <2>3. InProgress(Other(t))' => save'[Other(t)].list \in Lists
    BY <1>3, <2>2 DEF InProgress
  <2>4. InProgress(t)' => save'[t].list \in Lists
    BY <1>1, <1>3, <1>4, <1>11, SaveMoves DEF InProgress
  <2>5. disk'.list \in Lists \cup {<<>>}
    <3>1. CASE Serialize(t)
      BY <1>4, <3>1 DEF Serialize
    <3>2. CASE Open(t)
      BY <3>2 DEF Open, Unreadable
    <3>3. CASE Write(t) \/ SaveFails(t)
      <4>1. save[t].list \in Lists
        BY <1>1, <1>3, <3>3, SaveMoves
      <4>2. disk' \in {disk, Unreadable, Readable(save[t].list)}
        BY <3>3 DEF Write, SaveFails, Written
      <4> QED BY <1>4, <4>1, <4>2 DEF Readable, Unreadable
    <3> QED BY <1>11, <3>1, <3>2, <3>3
  <2>6. \A u \in Threads : InProgress(u)' => save'[u].list \in Lists
    <3>1. ASSUME NEW u \in Threads PROVE InProgress(u)' => save'[u].list \in Lists
      <4>1. CASE u = t
        BY <2>4, <4>1
      <4>2. CASE u = Other(t)
        BY <2>3, <4>2
      <4> QED BY <2>2, <4>1, <4>2
    <3> QED BY <3>1
  <2> QED BY <1>2, <1>4, <2>1, <2>5, <2>6
<1> QED BY <1>6, <1>7, <1>8, <1>9, <1>10, <1>11, StepsOfTheSession

\* A rewind is under way only after its beginning, and while it is, neither it
\* nor the session's list changes.
LEMMA MainMoves ==
    ASSUME StoreInv, Next
    PROVE  \/ CreateCheckpoint /\ main.at # "restoring" /\ main' = main
           \/ Begins
           \/ /\ base' = base
              /\ main'.at = "restoring" =>
                    /\ main.at = "restoring" /\ mem' = mem
                    /\ main'.selected = main.selected /\ main'.reverse = main.reverse
<1>1. TypeOK /\ Turns
  BY DEF StoreInv
<1>2. CASE Quiet
  <2>1. base' = base /\ mem' = mem
    BY <1>2 DEF Quiet, BeginTurn, EndTurn, Refuse, Autosave, Restore, RestoreFails, Exit,
                ReadPrevious, Outside, process, history
  <2>2. \/ main' = main \/ main'.at \in {"autosaving", "exiting", "loop"}
        \/ main.at = "restoring" /\ main' = [main EXCEPT !.left = @ - 1]
    BY <1>1, <1>2 DEF Quiet, BeginTurn, EndTurn, Refuse, Autosave, Restore, RestoreFails, Exit,
                ReadPrevious, Outside, process, history, InLoop, TypeOK, MainType
  <2>3. \A l : /\ [main EXCEPT !.left = l].selected = main.selected
               /\ [main EXCEPT !.left = l].reverse = main.reverse
    BY <1>1 DEF TypeOK, MainType
  <2> QED BY <2>1, <2>2, <2>3
<1>3. CASE CreateCheckpoint
  BY <1>1, <1>3 DEF CreateCheckpoint, Turns
<1>4. CASE ReplaceSelected
  BY <1>1, <1>4 DEF ReplaceSelected, TypeOK, MainType
<1>5. CASE WriteFile
  BY <1>5 DEF WriteFile
<1>6. CASE End
  BY <1>6 DEF End, InLoop
<1>7. CASE Resume
  BY <1>1, <1>7 DEF Resume, Turns
<1>8. ASSUME NEW t \in Threads, Serialize(t) \/ Open(t) \/ Write(t) \/ SaveFails(t)
      PROVE  base' = base /\ main'.at # "restoring"
  <2>1. base' = base
    BY <1>8 DEF Serialize, Open, Write, SaveFails, history
  <2>2. Saves(t)
    BY <1>1, <1>8, SaveMoves DEF Turns
  <2>3. main.at # "restoring"
    <3>1. t = "main" \/ t = "agent"
      BY DEF Threads
    <3> QED BY <1>1, <2>2, <3>1 DEF Saves, Turns
  <2>4. main' = main \/ main'.at \in {"over", "loop", "exiting"}
    BY <1>1, <1>8 DEF Serialize, Open, Write, SaveFails, InLoop, TypeOK, MainType
  <2> QED BY <2>1, <2>3, <2>4
<1> QED BY <1>2, <1>3, <1>4, <1>5, <1>6, <1>7, <1>8, StepsOfTheSession

\* The checkpoint of an edit.
EditOf(c) ==
    /\ c \in Checkpoints /\ c.id = Len(base) + 1 /\ c.file = agent.file
    /\ Value(c) = IF files[agent.file] # Absent THEN agent.before ELSE Absent
    /\ mem' = Append(mem, c)

\* A checkpoint of an edit captures the workspace as it is.
LEMMA Checkpointed ==
    ASSUME StoreInv, CreateCheckpoint
    PROVE  /\ \E c : EditOf(c)
           /\ base' = Append(base, files) /\ files \in Workspace /\ base \in Seq(Workspace)
           /\ agent.file \in Files /\ agent.at = "reviewing"
           /\ agent' = [agent EXCEPT !.at = "saving"]
           /\ UNCHANGED <<files, disk, up, main, save, applied, strayed>>
<1>1. TypeOK /\ Turns
  BY DEF StoreInv
<1>2. Len(base) \in Nat /\ extras \in Nat
  BY <1>1, LenProperties DEF TypeOK
<1> DEFINE c == [id |-> Len(base) + 1, kind |-> "edit", file |-> agent.file,
                 existed |-> files[agent.file] # Absent, text |-> agent.before]
<1>3. c \in Checkpoints
  BY <1>1, <1>2, SessionStoreAssumption
  DEF CreateCheckpoint, Checkpoints, TypeOK, AgentType, Turns
<1>4. EditOf(c)
  BY <1>3 DEF EditOf, Value, CreateCheckpoint
<1> HIDE DEF c
<1> QED BY <1>1, <1>4 DEF CreateCheckpoint, TypeOK, Turns

\* What a rewind that is under way restores: the list from a place on.
LEMMA Selection ==
    ASSUME StoreInv, RewindCaptures, main.at = "restoring"
    PROVE  LET p == Len(mem) - Len(main.selected) IN
           /\ p \in Nat /\ p < Len(mem) /\ Len(main.selected) \in Nat
           /\ Len(main.selected) >= 1 /\ p + Len(main.selected) = Len(mem)
           /\ \A i \in 1..Len(main.selected) : main.selected[i] = mem[p + i]
           /\ \A i \in p + 1..Len(mem) : /\ i - p \in 1..Len(main.selected)
                                         /\ mem[i] = main.selected[i - p]
           /\ \A f : f \in FilesOf(main.selected)
                        <=> \E i \in 1..Len(main.selected) : main.selected[i].file = f
           /\ \A f : f \in FilesOf(main.selected)
                        <=> \E k \in 1..Len(main.reverse) : main.reverse[k].file = f
           /\ up /\ ~busy /\ agent.at = "idle" /\ \A t \in Threads : ~InProgress(t)
<1> DEFINE S == main.selected
           p == Len(mem) - Len(S)
<1>1. TypeOK /\ Turns /\ RestoresTail
  BY DEF StoreInv
<1>2. S \in Seq(Checkpoints) /\ mem \in Seq(Checkpoints) /\ main.reverse \in Seq(Checkpoints)
  BY <1>1, ListTypes
<1>3. /\ Len(S) \in Nat /\ Len(mem) \in Nat /\ DOMAIN S = 1..Len(S)
      /\ DOMAIN main.reverse = 1..Len(main.reverse)
  BY <1>2, PlacesOf
<1>4. Len(S) # 0
  BY <1>2, EmptySeq DEF RewindCaptures
<1>5. Len(S) <= Len(mem) /\ \A i \in 1..Len(S) : S[i] = mem[p + i]
  BY <1>1, <1>3 DEF RestoresTail
<1>6. p \in Nat /\ p < Len(mem) /\ Len(S) >= 1 /\ p + Len(S) = Len(mem)
  BY <1>3, <1>4, <1>5
<1> HIDE DEF p
<1>7. ASSUME NEW i \in p + 1..Len(mem) PROVE i - p \in 1..Len(S) /\ mem[i] = S[i - p]
  <2>1. i - p \in 1..Len(S) /\ p + (i - p) = i
    BY <1>3, <1>6
  <2> QED BY <1>5, <2>1
<1>8. \A f : f \in FilesOf(S) <=> \E i \in 1..Len(S) : S[i].file = f
  BY <1>3 DEF FilesOf
<1>9. \A f : f \in FilesOf(S) <=> \E k \in 1..Len(main.reverse) : main.reverse[k].file = f
  BY <1>3 DEF FilesOf, RewindCaptures
<1>10. up /\ ~busy /\ agent.at = "idle"
  BY <1>1 DEF Turns
<1>11. \A t \in Threads : ~InProgress(t)
  BY <1>1, <1>10, TurnsOfThreads DEF Threads
<1> QED BY <1>3, <1>5, <1>6, <1>7, <1>8, <1>9, <1>10, <1>11 DEF p

\* The list after a rewind.
LEMMA ListReplaced ==
    ASSUME StoreInv, RewindCaptures, ReplaceSelected
    PROVE  LET p == Len(mem) - Len(main.selected) IN
           /\ mem' \in Seq(Checkpoints) /\ Len(mem') = p + Len(main.reverse)
           /\ \A i \in 1..p + Len(main.reverse) :
                 mem'[i] = IF i <= p THEN mem[i] ELSE main.reverse[i - p]
           /\ UNCHANGED <<files, disk, up, agent, save, base, strayed>>
           /\ applied' = applied \ Ids(main.selected) /\ main'.at = "rewound"
           /\ main.at = "restoring" /\ main.left = 0
<1> DEFINE p == Len(mem) - Len(main.selected)
<1>1. TypeOK
  BY DEF StoreInv
<1>2. main.at = "restoring" /\ main.left = 0
  BY DEF ReplaceSelected
<1>3. mem \in Seq(Checkpoints) /\ main.reverse \in Seq(Checkpoints) /\ p \in 0..Len(mem)
  BY <1>1, <1>2, ListTypes, Selection
<1>4. mem' = SubSeq(mem, 1, p) \o main.reverse
  BY DEF ReplaceSelected
<1> HIDE DEF p
<1>5. /\ mem' \in Seq(Checkpoints) /\ Len(mem') = p + Len(main.reverse)
      /\ \A i \in 1..p + Len(main.reverse) :
            mem'[i] = IF i <= p THEN mem[i] ELSE main.reverse[i - p]
  BY <1>3, <1>4, ReplacedElements
<1>6. main'.at = "rewound"
  BY <1>1 DEF ReplaceSelected, TypeOK, MainType
<1> QED BY <1>2, <1>5, <1>6 DEF p, ReplaceSelected

-----------------------------------------------------------------------------
\* Every step keeps the lists in order.
LEMMA StepKeepsOrder ==
    ASSUME RewindInv, Next
    PROVE  ListsOrdered'
<1>1. StoreInv /\ TypeOK /\ ListsOrdered /\ RewindCaptures
  BY DEF RewindInv, StoreInv
<1>2. Len(base) \in Nat /\ base \in Seq(Workspace) /\ files \in Workspace
  BY <1>1, LenProperties DEF TypeOK
<1>3. /\ Latest' \in Int /\ Latest \in Int /\ Latest <= Latest'
      /\ CreateCheckpoint => Latest = Len(base) /\ Latest' = Len(base) + 1
      /\ ReplaceSelected => Latest' = Len(base) /\ Latest = Len(base) - 1
  <2>1. \A x \in Workspace : Len(Append(base, x)) = Len(base) + 1
    BY <1>2, AppendProperties
  <2>2. CASE CreateCheckpoint /\ main.at # "restoring" /\ main' = main
    <3>1. Len(base') = Len(base) + 1
      BY <1>2, <2>1, <2>2 DEF CreateCheckpoint
    <3>2. ~ReplaceSelected
      BY <2>2 DEF ReplaceSelected
    <3> QED BY <1>2, <2>2, <3>1, <3>2 DEF Latest
  <2>3. CASE Begins
    <3>1. Len(base') = Len(base) + 1 /\ main.at = "loop" /\ main'.at = "restoring"
      BY <1>2, <2>1, <2>3 DEF Begins, BeginRewind
    <3>2. ~CreateCheckpoint /\ ~ReplaceSelected
      <4>1. ~ReplaceSelected
        BY <3>1 DEF ReplaceSelected
      <4>2. agent' = agent /\ agent \in AgentType
        BY <1>1, <2>3 DEF Begins, BeginRewind, TypeOK
      <4>3. CreateCheckpoint => agent'.at # agent.at
        BY <1>1, Checkpointed DEF TypeOK, AgentType
      <4> QED BY <4>1, <4>2, <4>3
    <3> QED BY <1>2, <3>1, <3>2 DEF Latest
  <2>4. CASE base' = base /\ (main'.at = "restoring" => main.at = "restoring")
    <3>1. ~CreateCheckpoint
      BY <1>1, <1>2, <2>1, <2>4, Checkpointed
    <3>2. ReplaceSelected => main.at = "restoring" /\ main'.at = "rewound"
      BY <1>1, ListReplaced
    <3> QED BY <1>2, <2>4, <3>1, <3>2 DEF Latest
  <2> QED BY <1>1, <2>2, <2>3, <2>4, MainMoves
<1>4. ASSUME NEW L \in Lists PROVE Ordered(L, Latest')
  <2>1. Ordered(L, Latest) /\ L \in Seq(Checkpoints)
    BY <1>1, ListTypes DEF ListsOrdered
  <2>2. \A i \in 1..Len(L) : L[i].id \in Nat
    BY <2>1, PlacesOf
  <2> QED BY <1>3, <2>1, <2>2 DEF Ordered
<1>5. Ordered(<<>>, Latest')
  BY NoList
<1>6. mem \in Seq(Checkpoints) /\ mem \in Lists /\ Ordered(mem, Latest)
  BY <1>1, ListTypes DEF Lists, ListsOrdered
<1>7. Len(mem) \in Nat /\ \A i \in 1..Len(mem) : mem[i].id \in Nat
  BY <1>6, PlacesOf
<1>8. ASSUME CreateCheckpoint PROVE Ordered(mem', Latest')
  <2>1. PICK c : EditOf(c)
    BY <1>1, <1>8, Checkpointed
  <2>2. /\ mem' = Append(mem, c) /\ c.id = Len(base) + 1 /\ c \in Checkpoints
    BY <2>1 DEF EditOf
  <2>3. /\ Len(mem') = Len(mem) + 1 /\ mem'[Len(mem) + 1] = c
        /\ \A i \in 1..Len(mem) : mem'[i] = mem[i]
    BY <1>6, <2>2, AppendProperties
  <2>4. \A i \in 1..Len(mem) : mem[i].id <= Len(base)
    BY <1>3, <1>6, <1>8 DEF Ordered
  <2>5. ASSUME NEW i \in 1..Len(mem) + 1 PROVE i \in 1..Len(mem) \/ i = Len(mem) + 1
    BY <1>7
  <2>6. \A i \in 1..Len(mem) + 1 : mem'[i].id <= Len(base) + 1
    BY <1>2, <1>7, <2>2, <2>3, <2>4, <2>5
  <2>7. ASSUME NEW i \in 1..Len(mem) + 1, NEW j \in 1..Len(mem) + 1, i <= j
        PROVE  mem'[i].id <= mem'[j].id
    <3>1. CASE j = Len(mem) + 1
      BY <2>2, <2>3, <2>6, <3>1
    <3>2. CASE j \in 1..Len(mem) /\ i \in 1..Len(mem)
      BY <1>6, <2>3, <2>7, <3>2 DEF Ordered
    <3> QED BY <1>7, <2>5, <2>7, <3>1, <3>2
  <2> QED BY <1>3, <1>8, <2>3, <2>6, <2>7 DEF Ordered
<1>9. ASSUME ReplaceSelected PROVE Ordered(mem', Latest')
  <2> DEFINE p == Len(mem) - Len(main.selected)
             R == main.reverse
  <2>1. /\ Len(mem') = p + Len(R) /\ main.at = "restoring"
        /\ \A i \in 1..p + Len(R) : mem'[i] = IF i <= p THEN mem[i] ELSE R[i - p]
    BY <1>1, <1>9, ListReplaced
  <2>2. p \in Nat /\ p < Len(mem) /\ Len(R) \in Nat
    BY <1>1, <2>1, Selection, ListTypes, PlacesOf
  <2>3. \A k \in 1..Len(R) : R[k].id = Len(base)
    BY <1>1, <2>1 DEF RewindCaptures
  <2> HIDE DEF p, R
  <2>4. ASSUME NEW i \in 1..p + Len(R)
        PROVE  \/ i \in 1..Len(mem) /\ i <= p /\ mem'[i] = mem[i]
               \/ i > p /\ mem'[i].id = Len(base)
    <3>1. CASE i <= p
      BY <1>7, <2>1, <2>2, <3>1
    <3>2. CASE i > p
      <4>1. i - p \in 1..Len(R) /\ mem'[i] = R[i - p]
        BY <2>1, <2>2, <3>2
      <4> QED BY <2>3, <3>2, <4>1
    <3> QED BY <2>2, <3>1, <3>2
  <2>5. \A i \in 1..Len(mem) : mem[i].id <= Len(base) - 1
    BY <1>3, <1>6, <1>9 DEF Ordered
  <2>6. \A i \in 1..p + Len(R) : mem'[i].id <= Len(base)
    BY <1>2, <1>7, <2>4, <2>5
  <2>7. ASSUME NEW i \in 1..p + Len(R), NEW j \in 1..p + Len(R), i <= j
        PROVE  mem'[i].id <= mem'[j].id
    <3>1. CASE j > p /\ mem'[j].id = Len(base)
      BY <2>6, <3>1
    <3>2. CASE j \in 1..Len(mem) /\ j <= p /\ mem'[j] = mem[j]
      <4>1. i <= p
        BY <2>2, <2>7, <3>2
      <4>2. i \in 1..Len(mem) /\ mem'[i] = mem[i]
        BY <2>2, <2>4, <4>1
      <4> QED BY <1>6, <2>7, <3>2, <4>2 DEF Ordered
    <3> QED BY <2>4, <3>1, <3>2
  <2> QED BY <1>3, <1>9, <2>1, <2>6, <2>7 DEF Ordered
<1>10. Ordered(mem', Latest')
  BY <1>1, <1>4, <1>5, <1>8, <1>9, ListMoves
<1>11. \A L \in Lists' : Ordered(L, Latest')
  BY <1>1, <1>4, <1>5, <1>10, ListMoves
<1> QED BY <1>11 DEF ListsOrdered

\* Every step keeps what is known of the edit: its checkpoint is the newest, and
\* what is reviewed is what the file holds.
LEMMA StepKeepsEdit ==
    ASSUME RewindInv, Next
    PROVE  NewestIsEdited' /\ ReviewIsCurrent'
<1>1. StoreInv /\ TypeOK /\ Turns /\ NewestIsEdited /\ ReviewIsCurrent
  BY DEF RewindInv, StoreInv
<1>2. files \in Workspace /\ agent \in AgentType /\ strayed \subseteq Files
  BY <1>1 DEF TypeOK
<1>3. ASSUME agent' = agent, UNCHANGED <<mem, base>> PROVE NewestIsEdited'
  BY <1>1, <1>3 DEF NewestIsEdited
<1>4. ASSUME agent' = agent, strayed \subseteq strayed',
             agent.at = "reviewing" /\ agent.file \notin strayed'
                 => files'[agent.file] = files[agent.file]
      PROVE  ReviewIsCurrent'
  BY <1>1, <1>4 DEF ReviewIsCurrent
<1>5. ASSUME agent'.at = "idle" PROVE NewestIsEdited' /\ ReviewIsCurrent'
  BY <1>5 DEF NewestIsEdited, ReviewIsCurrent
<1>6. CASE Quiet
  <2>1. UNCHANGED <<mem, base>> /\ strayed \subseteq strayed'
    BY <1>6 DEF Quiet, BeginTurn, EndTurn, Refuse, Autosave, Restore, RestoreFails, Exit,
                ReadPrevious, Outside, process, history
  <2>2. CASE Refuse
    BY <1>5, <2>2 DEF Refuse, NoEdit
  <2>3. CASE \E f \in Files : ReadPrevious(f)
    <3>1. PICK f \in Files : ReadPrevious(f)
      BY <2>3
    <3>2. /\ agent'.at = "reviewing" /\ agent'.file = f /\ agent'.before = Text(files[f])
          /\ files' = files
      BY <3>1 DEF ReadPrevious
    <3> QED BY <3>2 DEF NewestIsEdited, ReviewIsCurrent
  <2>4. CASE \E f \in Files : Outside(f)
    <3>1. PICK f \in Files : Outside(f)
      BY <2>4
    <3>2. /\ agent' = agent /\ strayed' = strayed \cup {f}
          /\ \E c : files' = [files EXCEPT ![f] = c]
      BY <3>1 DEF Outside, process
    <3>3. agent.file \notin strayed' /\ agent.at = "reviewing"
             => files'[agent.file] = files[agent.file]
      BY <1>1, <1>2, <3>2 DEF Turns, Workspace
    <3> QED BY <1>3, <1>4, <2>1, <3>2, <3>3
  <2>5. CASE Restore \/ RestoreFails
    <3>1. agent' = agent /\ agent.at = "idle"
      BY <1>1, <2>5 DEF Restore, RestoreFails, Turns
    <3> QED BY <1>5, <3>1
  <2>6. CASE BeginTurn \/ EndTurn \/ Autosave \/ Exit
    <3>1. UNCHANGED <<agent, files, strayed>>
      BY <2>6 DEF BeginTurn, EndTurn, Autosave, Exit, history
    <3> QED BY <1>3, <1>4, <2>1, <3>1
  <2> QED BY <1>6, <2>2, <2>3, <2>4, <2>5, <2>6 DEF Quiet
<1>7. CASE CreateCheckpoint
  <2>1. PICK c : EditOf(c)
    BY <1>1, <1>7, Checkpointed
  <2>2. /\ agent'.at = "saving" /\ agent'.file = agent.file
        /\ base' = Append(base, files) /\ base \in Seq(Workspace)
    BY <1>1, <1>2, <1>7, Checkpointed DEF AgentType
  <2>3. Len(base') = Len(base) + 1
    BY <1>2, <2>2, AppendProperties
  <2>4. mem'[Len(mem')] = c /\ c.id = Len(base) + 1 /\ c.file = agent.file
    BY <1>1, <2>1, AppendCheckpoint, ListTypes DEF EditOf
  <2> QED BY <2>2, <2>3, <2>4 DEF NewestIsEdited, ReviewIsCurrent
<1>8. CASE WriteFile \/ End
  BY <1>5, <1>8 DEF WriteFile, End, NoEdit
<1>9. CASE Begins \/ ReplaceSelected \/ Resume
  <2>1. agent'.at = "idle"
    BY <1>1, <1>9 DEF Begins, BeginRewind, ReplaceSelected, Resume, Turns
  <2> QED BY <1>5, <2>1
<1>10. ASSUME NEW t \in Threads, Serialize(t) \/ Open(t) \/ Write(t) \/ SaveFails(t)
       PROVE  NewestIsEdited' /\ ReviewIsCurrent'
  <2>1. UNCHANGED <<mem, base, files, strayed>>
    BY <1>10 DEF Serialize, Open, Write, SaveFails, history
  <2>2. CASE agent' = agent
    BY <1>3, <1>4, <2>1, <2>2
  <2>3. CASE agent' = [agent EXCEPT !.at = "saved"] /\ agent.at = "saving"
    <3>1. agent'.at = "saved" /\ agent'.file = agent.file
      BY <1>2, <2>3 DEF AgentType
    <3> QED BY <1>1, <2>1, <2>3, <3>1 DEF NewestIsEdited, ReviewIsCurrent
  <2>4. CASE agent' = NoEdit
    BY <1>5, <2>4 DEF NoEdit
  <2>5. agent' = agent \/ agent' = NoEdit
        \/ (agent' = [agent EXCEPT !.at = "saved"] /\ agent.at = "saving")
    <3>1. Write(t) /\ t = "agent" => agent.at = "saving"
      BY <1>1, SaveMoves, TurnsOfThreads
    <3> QED BY <1>10, <3>1 DEF Serialize, Open, Write, SaveFails
  <2> QED BY <2>2, <2>3, <2>4, <2>5
<1> QED BY <1>1, <1>6, <1>7, <1>8, <1>9, <1>10, StepsOfTheSession

\* What a rewind selects and captures, each file once: the files of the one are
\* the files of the other.
LEMMA Capturing ==
    ASSUME StoreInv, NEW start \in DOMAIN mem, BeginRewind(start)
    PROVE  LET S == SubSeq(mem, start, Len(mem))
               R == main'.reverse IN
           /\ main'.at = "restoring" /\ main'.selected = S /\ main'.left = Len(S)
           /\ S # <<>> /\ Len(S) \in Nat /\ Len(S) = Len(mem) - start + 1
           /\ S[1] = mem[start]
           /\ FilesOf(R) = FilesOf(S)
           /\ DOMAIN R = 1..Len(R)
           /\ \A k \in 1..Len(R) :
                 /\ R[k].id = Len(base) + 1 /\ R[k].kind = "rewind"
                 /\ R[k].file \in Files
                 /\ Value(R[k]) = files[R[k].file]
<1> DEFINE S == SubSeq(mem, start, Len(mem))
           R == main'.reverse
<1>1. TypeOK /\ mem \in Seq(Checkpoints)
  BY ListTypes DEF StoreInv
<1>2. S \in Seq(Checkpoints) /\ Len(S) \in Nat /\ DOMAIN S = 1..Len(S)
      /\ \A i \in DOMAIN S : S[i] = mem[Len(mem) - Len(S) + i]
  BY <1>1, SelectedIsTail
<1>3. Len(mem) \in Nat /\ start \in 1..Len(mem)
  BY <1>1, PlacesOf
<1>4. Len(S) = Len(mem) - start + 1
  <2>1. \A i \in start..Len(mem) : mem[i] \in Checkpoints
    <3>1. \A i \in start..Len(mem) : i \in 1..Len(mem)
      BY <1>3
    <3> QED BY <1>1, <3>1, PlacesOf
  <2>2. Len(S) = IF start <= Len(mem) THEN Len(mem) - start + 1 ELSE 0
    BY <1>3, <2>1, SubSeqProperties
  <2> QED BY <1>3, <2>2
<1>5. PICK paths \in Captures(S) :
        main' = [at |-> "restoring", selected |-> S, left |-> Len(S),
                 reverse |-> [k \in DOMAIN paths |->
                      [id |-> Len(base) + 1, kind |-> "rewind", file |-> paths[k],
                       existed |-> files[paths[k]] # Absent,
                       text |-> Text(files[paths[k]])]]]
  BY DEF BeginRewind
<1> HIDE DEF S
<1>6. FilesOf(S) = {paths[k] : k \in DOMAIN paths}
  BY <1>5 DEF Captures
<1>7. /\ DOMAIN R = DOMAIN paths
      /\ \A k \in DOMAIN paths :
            /\ R[k].id = Len(base) + 1 /\ R[k].kind = "rewind" /\ R[k].file = paths[k]
            /\ R[k].existed = (files[paths[k]] # Absent)
            /\ R[k].text = Text(files[paths[k]])
  BY <1>5
<1>8. FilesOf(R) = FilesOf(S)
  <2>1. FilesOf(R) = {R[k].file : k \in DOMAIN paths}
    BY <1>7 DEF FilesOf
  <2>2. \A k \in DOMAIN paths : R[k].file = paths[k]
    BY <1>7
  <2> HIDE DEF R
  <2> QED BY <1>6, <2>1, <2>2
<1>9. R \in Seq(Checkpoints)
  <2>1. main' \in MainType
    BY BeginKeepsTypes DEF TypeOK
  <2> QED BY <2>1 DEF MainType
<1>10. DOMAIN R = 1..Len(R) /\ \A k \in 1..Len(R) : R[k].file \in Files
  BY <1>9, PlacesOf
<1>11. ASSUME NEW k \in 1..Len(R) PROVE Value(R[k]) = files[R[k].file]
  BY <1>7, <1>10 DEF Value, Text
<1>12. S[1] = mem[start] /\ S # <<>>
  <2>1. Len(S) >= 1 /\ Len(mem) - Len(S) + 1 = start /\ 1 \in 1..Len(S)
    BY <1>2, <1>3, <1>4
  <2>2. S[1] = mem[start]
    BY <1>2, <2>1
  <2> QED BY <1>2, <2>1, <2>2, EmptySeq
<1>13. main'.at = "restoring" /\ main'.selected = S /\ main'.left = Len(S)
  BY <1>5
<1>14. \A k \in 1..Len(R) : R[k].id = Len(base) + 1 /\ R[k].kind = "rewind"
  BY <1>7, <1>10
<1> QED BY <1>2, <1>4, <1>8, <1>10, <1>11, <1>12, <1>13, <1>14 DEF S

\* A rewind has captured all the files that it is going to restore.
LEMMA StepKeepsCaptures ==
    ASSUME RewindInv, Next
    PROVE  RewindCaptures'
<1>1. StoreInv /\ TypeOK /\ RewindCaptures
  BY DEF RewindInv, StoreInv
<1>2. ASSUME Begins PROVE RewindCaptures'
  <2>1. PICK start \in DOMAIN mem : BeginRewind(start)
    BY <1>2 DEF Begins
  <2>2. Len(base') = Len(base) + 1
    <3>1. base' = Append(base, files) /\ base \in Seq(Workspace) /\ files \in Workspace
      BY <1>1, <2>1 DEF BeginRewind, TypeOK
    <3> QED BY <3>1, AppendProperties
  <2> QED BY <1>1, <2>1, <2>2, Capturing DEF RewindCaptures
<1>3. ASSUME base' = base,
             main'.at = "restoring" =>
                /\ main.at = "restoring" /\ mem' = mem
                /\ main'.selected = main.selected /\ main'.reverse = main.reverse
      PROVE  RewindCaptures'
  BY <1>1, <1>3 DEF RewindCaptures
<1>4. ASSUME main.at # "restoring", main' = main PROVE RewindCaptures'
  BY <1>4 DEF RewindCaptures
<1> QED BY <1>1, <1>2, <1>3, <1>4, MainMoves

\* What has been changed otherwise stays so.
LEMMA StrayedGrows ==
    ASSUME StoreInv, Next
    PROVE  strayed \subseteq strayed'
<1>1. CASE Quiet
  BY <1>1 DEF Quiet, BeginTurn, EndTurn, Refuse, Autosave, Restore, RestoreFails, Exit,
              ReadPrevious, Outside, history
<1>2. CASE CreateCheckpoint \/ WriteFile \/ ReplaceSelected \/ End \/ Resume
  BY <1>2 DEF CreateCheckpoint, WriteFile, ReplaceSelected, End, Resume
<1>3. CASE Begins
  BY <1>3 DEF Begins, BeginRewind
<1>4. CASE \E t \in Threads : Serialize(t) \/ Open(t) \/ Write(t) \/ SaveFails(t)
  BY <1>4 DEF Serialize, Open, Write, SaveFails, history
<1> QED BY <1>1, <1>2, <1>3, <1>4, StepsOfTheSession

\* The history a step leaves: as it was, or with the present workspace added,
\* which changes nothing for the lists there are.
LEMMA HistoryMoves ==
    ASSUME RewindInv, Next
    PROVE  \/ /\ base' = base
              /\ ~CreateCheckpoint
              /\ main'.at = "restoring" =>
                    /\ main.at = "restoring" /\ mem' = mem
                    /\ main'.selected = main.selected /\ main'.reverse = main.reverse
           \/ /\ CreateCheckpoint \/ Begins
              /\ main.at # "restoring" /\ files' = files
              /\ Len(base') = Len(base) + 1 /\ base'[Len(base) + 1] = files
              /\ \A L \in Lists :
                    /\ \A f, w : Tells(L, f, base, w) => Tells(L, f, base', w)
                    /\ \A S : Holds(L, base, S) => Holds(L, base', S)
<1>1. StoreInv /\ TypeOK /\ ListsOrdered
  BY DEF RewindInv, StoreInv
<1>2. base \in Seq(Workspace) /\ files \in Workspace
  BY <1>1 DEF TypeOK
<1>3. Len(Append(base, files)) = Len(base) + 1
  BY <1>2, AppendProperties
<1>4. CASE CreateCheckpoint \/ Begins
  <2>1. base' = Append(base, files) /\ files' = files
    BY <1>1, <1>4, Checkpointed DEF Begins, BeginRewind
  <2>2. main.at # "restoring"
    BY <1>1, <1>4 DEF CreateCheckpoint, Begins, BeginRewind, StoreInv, Turns
  <2>3. \A L \in Lists : L \in Seq(Checkpoints) /\ Ordered(L, Len(base))
    BY <1>1, <2>2, ListTypes DEF ListsOrdered, Latest
  <2>4. \A L \in Lists : /\ \A f, w : Tells(L, f, base, w) => Tells(L, f, base', w)
                         /\ \A S : Holds(L, base, S) => Holds(L, base', S)
    BY <1>2, <2>1, <2>3, LongerHistory
  <2>5. base'[Len(base) + 1] = files
    BY <1>2, <2>1, AppendProperties
  <2> QED BY <1>3, <1>4, <2>1, <2>2, <2>4, <2>5
<1>5. CASE ~CreateCheckpoint /\ ~Begins
  BY <1>1, <1>5, MainMoves
<1> QED BY <1>4, <1>5

\* Every step keeps the checkpoints true.
LEMMA StepKeepsHeld ==
    ASSUME RewindInv, Next
    PROVE  ListsHold'
<1>1. StoreInv /\ TypeOK /\ ListsHold /\ RewindCaptures /\ ReviewIsCurrent
  BY DEF RewindInv, StoreInv
<1>2. strayed \subseteq strayed' /\ Len(base) \in Nat /\ files \in Workspace
  BY <1>1, StrayedGrows, LenProperties DEF TypeOK
<1>3. \A L, B : Holds(L, B, strayed) => Holds(L, B, strayed')
  BY <1>2 DEF Holds
<1>4. ASSUME NEW L \in Lists PROVE Holds(L, base', strayed')
  <2>1. Holds(L, base, strayed)
    BY <1>1 DEF ListsHold
  <2>2. Holds(L, base', strayed)
    BY <2>1, HistoryMoves
  <2> QED BY <1>3, <2>2
<1>5. ASSUME CreateCheckpoint PROVE Holds(mem', base', strayed')
  <2>1. PICK c : EditOf(c)
    BY <1>1, <1>5, Checkpointed
  <2>2. /\ agent.at = "reviewing" /\ strayed' = strayed /\ base' = Append(base, files)
        /\ base \in Seq(Workspace) /\ agent.file \in Files
    BY <1>1, <1>5, Checkpointed
  <2>3. base'[c.id] = files /\ c.file = agent.file /\ mem' = Append(mem, c)
        /\ c \in Checkpoints
    BY <2>1, <2>2, <1>2, AppendProperties DEF EditOf
  <2>4. c.file \notin strayed => Value(c) = files[c.file]
    <3>1. SUFFICES ASSUME c.file \notin strayed PROVE Value(c) = files[c.file]
      OBVIOUS
    <3>2. agent.before = Text(files[agent.file])
      BY <1>1, <2>2, <2>3, <3>1 DEF ReviewIsCurrent
    <3> QED BY <2>1, <2>3, <3>2 DEF EditOf, Text
  <2>5. mem \in Seq(Checkpoints) /\ Holds(mem, base', strayed')
    BY <1>1, <1>4, ListTypes DEF Lists
  <2>6. /\ Len(mem') = Len(mem) + 1 /\ mem'[Len(mem) + 1] = c /\ Len(mem) \in Nat
        /\ \A i \in 1..Len(mem) : mem'[i] = mem[i]
    BY <2>3, <2>5, AppendProperties, PlacesOf
  <2>7. \A i \in 1..Len(mem) + 1 : i \in 1..Len(mem) \/ i = Len(mem) + 1
    BY <2>6
  <2> QED BY ZenonT(60), <2>2, <2>3, <2>4, <2>5, <2>6, <2>7 DEF Holds
<1>6. ASSUME ReplaceSelected PROVE Holds(mem', base', strayed')
  <2> DEFINE p == Len(mem) - Len(main.selected)
             R == main.reverse
  <2>1. /\ Len(mem') = p + Len(R) /\ main.at = "restoring"
        /\ \A i \in 1..p + Len(R) : mem'[i] = IF i <= p THEN mem[i] ELSE R[i - p]
        /\ base' = base
    BY <1>1, <1>6, ListReplaced
  <2>2. p \in Nat /\ p < Len(mem) /\ Len(mem) \in Nat /\ Len(R) \in Nat
    BY <1>1, <2>1, Selection, ListTypes, PlacesOf
  <2>3. Holds(mem, base, strayed') /\ Holds(R, base, strayed')
    BY <1>1, <1>3, <1>4, <2>1 DEF Lists, ListsHold
  <2> HIDE DEF p, R
  <2>4. ASSUME NEW i \in 1..p + Len(R), mem'[i].file \notin strayed'
        PROVE  Value(mem'[i]) = base[mem'[i].id][mem'[i].file]
    <3>1. CASE i <= p
      <4>1. i \in 1..Len(mem) /\ mem'[i] = mem[i]
        BY <2>1, <2>2, <3>1
      <4> QED BY <2>3, <2>4, <4>1 DEF Holds
    <3>2. CASE i > p
      <4>1. i - p \in 1..Len(R) /\ mem'[i] = R[i - p]
        BY <2>1, <2>2, <3>2
      <4> QED BY <2>3, <2>4, <4>1 DEF Holds
    <3> QED BY <2>2, <3>1, <3>2
  <2> QED BY <2>1, <2>4 DEF Holds
<1>7. \A L \in Lists' : Holds(L, base', strayed')
  <2>1. Holds(<<>>, base', strayed')
    BY NoList
  <2>2. Holds(mem', base', strayed')
    BY <1>1, <1>4, <1>5, <1>6, <2>1, ListMoves
  <2> QED BY <1>1, <1>4, <2>1, <2>2, ListMoves
<1>8. main'.at = "restoring" => Holds(main'.reverse, base', strayed')
  <2>1. CASE base' = base /\ (main'.at = "restoring" => /\ main.at = "restoring"
                                                       /\ main'.reverse = main.reverse)
    BY <1>1, <1>3, <2>1 DEF ListsHold
  <2>2. CASE Begins
    <3>1. PICK start \in DOMAIN mem : BeginRewind(start)
      BY <2>2 DEF Begins
    <3>2. \A k \in 1..Len(main'.reverse) :
              /\ main'.reverse[k].id = Len(base) + 1
              /\ Value(main'.reverse[k]) = files[main'.reverse[k].file]
      BY <1>1, <3>1, Capturing
    <3>3. base'[Len(base) + 1] = files
      <4>1. base' = Append(base, files) /\ base \in Seq(Workspace)
        BY <1>1, <3>1 DEF BeginRewind, TypeOK
      <4> QED BY <1>2, <4>1, AppendProperties
    <3> QED BY <3>2, <3>3 DEF Holds
  <2>3. CASE CreateCheckpoint /\ main.at # "restoring"
    BY <1>1, <2>3, Checkpointed
  <2> QED BY <2>1, <2>2, <2>3, HistoryMoves
<1> QED BY <1>7, <1>8 DEF ListsHold

\* One more checkpoint is restored.
LEMMA RestoreOne ==
    ASSUME NEW S \in Seq(Checkpoints), NEW l \in 1..Len(S), NEW f, NEW v, NEW w, NEW x,
           Restored(S, l, f, v, w),
           f = S[l].file => x = Value(S[l]),
           f # S[l].file => x = w
    PROVE  Restored(S, l - 1, f, v, x)
<1>1. /\ Len(S) \in Nat /\ l - 1 + 1 = l /\ l \in l..Len(S)
      /\ \A i \in l..Len(S) : i = l \/ i \in l + 1..Len(S)
      /\ \A i \in l + 1..Len(S) : i \in l..Len(S)
  BY LenProperties
<1>2. CASE f = S[l].file
  <2>1. NextOf(S, l, l, f)
    <3>1. \A j \in l..l - 1 : FALSE
      OBVIOUS
    <3> QED BY <1>2, <3>1 DEF NextOf
  <2> QED BY <1>1, <1>2, <2>1 DEF Restored
<1>3. CASE f # S[l].file
  <2>1. CASE w = v /\ \A i \in l + 1..Len(S) : S[i].file # f
    BY <1>1, <1>3, <2>1 DEF Restored
  <2>2. CASE \E i \in l + 1..Len(S) : NextOf(S, l + 1, i, f) /\ w = Value(S[i])
    <3>1. PICK i \in l + 1..Len(S) : NextOf(S, l + 1, i, f) /\ w = Value(S[i])
      BY <2>2
    <3>2. \A j \in l..i - 1 : j = l \/ j \in l + 1..i - 1
      OBVIOUS
    <3>3. NextOf(S, l, i, f)
      BY <1>3, <3>1, <3>2 DEF NextOf
    <3> QED BY <1>1, <1>3, <3>1, <3>3 DEF Restored
  <2> QED BY <2>1, <2>2 DEF Restored
<1> QED BY <1>2, <1>3

\* Every step keeps what is known of a rewind that is under way.
LEMMA StepKeepsRewind ==
    ASSUME RewindInv, Next
    PROVE  RestoredSoFar' /\ CutsAreStrayed'
<1>1. /\ StoreInv /\ TypeOK /\ Turns /\ RestoresTail /\ RestoredSoFar /\ CutsAreStrayed
      /\ RewindCaptures /\ ListsOrdered
  BY DEF RewindInv, StoreInv
<1>2. strayed \subseteq strayed' /\ Len(base) \in Nat /\ files \in Workspace
      /\ main \in MainType
  BY <1>1, StrayedGrows, LenProperties DEF TypeOK
<1>3. ASSUME main'.at # "restoring" PROVE RestoredSoFar' /\ CutsAreStrayed'
  BY <1>3 DEF RestoredSoFar, CutsAreStrayed
<1>4. ASSUME Begins PROVE RestoredSoFar' /\ CutsAreStrayed'
  <2>1. PICK start \in DOMAIN mem : BeginRewind(start)
    BY <1>4 DEF Begins
  <2> DEFINE S == SubSeq(mem, start, Len(mem))
  <2>2. /\ main'.selected = S /\ main'.left = Len(S) /\ Len(S) \in Nat
        /\ Len(S) = Len(mem) - start + 1 /\ S[1] = mem[start]
    BY <1>1, <2>1, Capturing
  <2>3. files' = files /\ base' = Append(base, files) /\ base \in Seq(Workspace) /\ mem' = mem
    BY <1>1, <2>1 DEF BeginRewind, TypeOK
  <2>4. Len(base') = Len(base) + 1 /\ base'[Len(base')] = files
    BY <1>2, <2>3, AppendProperties
  <2> HIDE DEF S
  <2>5. RestoredSoFar'
    <3>1. \A i \in Len(S) + 1..Len(S) : FALSE
      BY <2>2
    <3>2. \A f \in Files : Restored(S, Len(S), f, base'[Len(base')][f], files'[f])
      BY <2>3, <2>4, <3>1 DEF Restored
    <3> QED BY <2>2, <3>2 DEF RestoredSoFar
  <2>6. CutsAreStrayed'
    <3>1. mem \in Seq(Checkpoints) /\ mem \in Lists
      BY <1>1, ListTypes DEF Lists
    <3>2. Len(mem) \in Nat /\ start \in 1..Len(mem) /\ DOMAIN mem = 1..Len(mem)
          /\ \A j \in 1..Len(mem) : mem[j].id \in Nat
      BY <3>1, PlacesOf
    <3>3. Len(mem') - Len(main'.selected) = start - 1
      BY <2>2, <2>3, <3>2
    <3>4. ASSUME NEW j \in 1..start - 1, mem[j].id = mem[start].id
          PROVE  mem[j].file \in strayed'
      <4>1. /\ start - 1 \in 1..Len(mem) /\ j \in 1..Len(mem) /\ j <= start - 1
            /\ start - 1 <= start /\ start > 1
        BY <3>2
      <4>2. mem[j].id <= mem[start - 1].id /\ mem[start - 1].id <= mem[start].id
        BY <1>1, <3>1, <3>2, <4>1 DEF ListsOrdered, Ordered
      <4>3. mem[start - 1].id = mem[start].id
        BY <3>2, <3>4, <4>1, <4>2
      <4>4. Cuts(mem, start)
        BY <4>1, <4>3 DEF Cuts
      <4>5. strayed' = strayed \cup {mem[i].file : i \in {k \in DOMAIN mem :
                                                         mem[k].id = mem[start].id}}
        BY <2>1, <4>4 DEF BeginRewind
      <4> QED BY <3>2, <3>4, <4>1, <4>5
    <3> QED BY <2>2, <2>3, <3>3, <3>4 DEF CutsAreStrayed
  <2> QED BY <2>5, <2>6
<1>5. ASSUME main.at = "restoring", base' = base, mem' = mem,
             main'.selected = main.selected
      PROVE  CutsAreStrayed'
  BY <1>1, <1>2, <1>5 DEF CutsAreStrayed
<1>6. ASSUME main' = main, UNCHANGED <<base, mem>>,
             \A f \in Files \ strayed' : files'[f] = files[f]
      PROVE  RestoredSoFar' /\ CutsAreStrayed'
  <2>1. CASE main.at = "restoring"
    <3>1. RestoredSoFar'
      BY <1>1, <1>2, <1>6 DEF RestoredSoFar
    <3> QED BY <1>5, <1>6, <2>1, <3>1
  <2> QED BY <1>3, <1>6, <2>1
<1>7. CASE Restore
  <2>1. /\ main.at = "restoring" /\ main.left > 0
        /\ UNCHANGED <<base, mem, strayed>>
        /\ main' = [main EXCEPT !.left = main.left - 1]
        /\ files' = [files EXCEPT ![main.selected[main.left].file] =
                                       Value(main.selected[main.left])]
    BY <1>7 DEF Restore, Value, history
  <2> DEFINE S == main.selected
             l == main.left
  <2>2. /\ S \in Seq(Checkpoints) /\ l \in Nat /\ Len(S) \in Nat /\ l <= Len(S)
    BY <1>1, <1>2, <2>1, ListTypes, LenProperties DEF RestoresTail, MainType
  <2>3. l \in 1..Len(S) /\ S[l].file \in Files
    <3>1. l \in 1..Len(S)
      BY <2>1, <2>2
    <3> QED BY <2>2, <3>1, PlacesOf
  <2>4. main'.at = "restoring" /\ main'.selected = S /\ main'.left = l - 1
    BY <1>2, <2>1 DEF MainType
  <2>5. \A f \in Files : files'[f] = IF f = S[l].file THEN Value(S[l]) ELSE files[f]
    BY <1>2, <2>1, <2>3 DEF Workspace
  <2>6. ASSUME NEW f \in Files \ strayed
        PROVE  Restored(S, l - 1, f, base[Len(base)][f], files'[f])
    <3>1. Restored(S, l, f, base[Len(base)][f], files[f])
      BY <1>1, <2>1 DEF RestoredSoFar
    <3> QED BY <2>2, <2>3, <2>5, <3>1, RestoreOne
  <2>7. RestoredSoFar'
    BY <2>1, <2>4, <2>6 DEF RestoredSoFar
  <2> QED BY <1>5, <2>1, <2>4, <2>7
<1>8. CASE \E f \in Files : Outside(f)
  <2>1. PICK f \in Files : Outside(f)
    BY <1>8
  <2>2. UNCHANGED <<main, base, mem>> /\ f \in strayed'
    BY <2>1 DEF Outside, process
  <2>3. \A g \in Files \ strayed' : files'[g] = files[g]
    BY <1>2, <2>1, <2>2 DEF Outside, Workspace
  <2> QED BY <1>6, <2>2, <2>3
<1>9. CASE RestoreFails \/ ReplaceSelected \/ End
  <2>1. main'.at # "restoring"
    BY <1>2, <1>9 DEF RestoreFails, ReplaceSelected, End, InLoop, MainType
  <2> QED BY <1>3, <2>1
<1>10. CASE BeginTurn \/ EndTurn \/ Refuse \/ Autosave \/ Exit \/ \E f \in Files : ReadPrevious(f)
  <2>1. UNCHANGED <<base, mem, files>> /\ (main' = main \/ main'.at \in {"autosaving", "exiting"})
    BY <1>2, <1>10 DEF BeginTurn, EndTurn, Refuse, Autosave, Exit, ReadPrevious, history, MainType
  <2> QED BY <1>3, <1>6, <2>1
<1>11. CASE CreateCheckpoint \/ WriteFile \/ Resume
  <2>1. main' = main /\ main.at # "restoring"
    BY <1>1, <1>11 DEF CreateCheckpoint, WriteFile, Resume, Turns
  <2> QED BY <1>3, <2>1
<1>12. CASE \E t \in Threads : Serialize(t) \/ Open(t) \/ Write(t) \/ SaveFails(t)
  <2>1. PICK t \in Threads : Serialize(t) \/ Open(t) \/ Write(t) \/ SaveFails(t)
    BY <1>12
  <2>2. Saves(t) /\ (t = "main" \/ t = "agent")
    BY <1>1, <2>1, SaveMoves DEF Turns, Threads
  <2>3. main.at # "restoring"
    BY <1>1, <2>2 DEF Saves, Turns
  <2>4. main' = main \/ main'.at \in {"over", "loop", "exiting"}
    BY <1>2, <2>1 DEF Serialize, Open, Write, SaveFails, InLoop, MainType
  <2> QED BY <1>3, <2>3, <2>4
<1> QED BY <1>1, <1>4, <1>7, <1>8, <1>9, <1>10, <1>11, <1>12, StepsOfTheSession DEF Quiet

-----------------------------------------------------------------------------
\* A file that a rewind has nothing of is as it was when the rewind began.
LEMMA Untouched ==
    ASSUME StoreInv, RewindCaptures, RestoredSoFar, main.at = "restoring",
           NEW f \in Files \ strayed, f \notin FilesOf(main.selected)
    PROVE  files[f] = base[Len(base)][f]
<1> DEFINE S == main.selected
           l == main.left
<1>1. /\ Restored(S, l, f, base[Len(base)][f], files[f])
      /\ main \in MainType /\ l \in Nat
  BY DEF RestoredSoFar, StoreInv, TypeOK, MainType
<1>2. \A i \in 1..Len(S) : S[i].file # f
  BY Selection
<1>3. \A i \in l + 1..Len(S) : S[i].file # f
  BY <1>1, <1>2
<1> QED BY <1>1, <1>3 DEF Restored, NextOf

\* The lists tell the same after a step in which the session's list, the
\* history and the edits that are done stay as they are.
LEMMA SameTells ==
    ASSUME RewindInv, Next, UNCHANGED <<mem, base, up, applied>>,
           \A f \in Files \ strayed' : AtRest(f)' = AtRest(f)
    PROVE  ListsTell'
<1>1. StoreInv /\ ListsTell /\ strayed \subseteq strayed'
  BY StrayedGrows DEF RewindInv
<1>2. mem \in Lists /\ Lists' \subseteq Lists \cup {<<>>}
  BY <1>1, ListMoves DEF Lists
<1>3. ASSUME NEW L \in Lists \cup {<<>>}, NEW f \in Files \ strayed',
             up => Accounts(L, mem, applied, f)
      PROVE  Tells(L, f, base, AtRest(f))
  BY <1>1, <1>3, NoList DEF ListsTell
<1>4. \A L \in Lists' : \A f \in Files \ strayed' :
         (up' => Accounts(L, mem', applied', f)) => Tells(L, f, base', AtRest(f))
  BY <1>2, <1>3
<1> QED BY <1>4 DEF ListsTell

\* The session's list has all that it has.
LEMMA OwnAccount == \A L, A, f : Accounts(L, L, A, f)
BY DEF Accounts

\* A new checkpoint of an edit leaves what the lists tell.
LEMMA EditTells ==
    ASSUME RewindInv, CreateCheckpoint, Next
    PROVE  ListsTell'
<1>1. StoreInv /\ TypeOK /\ Turns /\ ListsTell /\ ListsOrdered
  BY DEF RewindInv, StoreInv
<1>2. PICK c : EditOf(c)
  BY <1>1, Checkpointed
<1>3. /\ c \in Checkpoints /\ c.id = Len(base) + 1 /\ mem' = Append(mem, c)
      /\ mem \in Seq(Checkpoints) /\ Len(base) \in Nat /\ mem \in Lists
  BY <1>1, <1>2, ListTypes, LenProperties DEF EditOf, TypeOK, Lists
<1>4. /\ Len(mem') = Len(mem) + 1 /\ mem'[Len(mem) + 1] = c /\ Len(mem) \in Nat
      /\ \A i \in 1..Len(mem) : mem'[i] = mem[i]
  BY <1>3, AppendProperties, PlacesOf
<1>5. UNCHANGED <<files, disk, up, main, save, applied, strayed>> /\ agent.at = "reviewing"
  BY <1>1, Checkpointed
<1>6. main.at # "restoring"
  BY <1>1, <1>5 DEF Turns
<1>7. base'[c.id] = files /\ \A L \in Lists : \A f, w : Tells(L, f, base, w) => Tells(L, f, base', w)
  BY <1>3, HistoryMoves
<1>8. \A f : AtRest(f) = files[f] /\ AtRest(f)' = files[f]
  BY <1>5, <1>6 DEF AtRest
<1>9. ASSUME NEW L \in Lists, NEW f \in Files \ strayed, up => Accounts(L, mem', applied, f)
      PROVE  Tells(L, f, base', files[f])
  <2>1. L \in Seq(Checkpoints) /\ Ordered(L, Len(base))
    BY <1>1, <1>6, ListTypes DEF ListsOrdered, Latest
  <2>2. \A j \in 1..Len(L) : L[j].id \in Nat /\ L[j].id <= Len(base)
    BY <2>1, PlacesOf DEF Ordered
  <2>3. \A j \in 1..Len(L) : L[j] # c
    BY <1>3, <2>2
  <2>4. \A i \in 1..Len(mem) : i \in 1..Len(mem')
    BY <1>4
  <2>5. \A i \in 1..Len(mem') : i \in 1..Len(mem) \/ i = Len(mem) + 1
    BY <1>4
  <2>6. up => Accounts(L, mem, applied, f)
    BY <1>4, <1>9, <2>3, <2>4, <2>5 DEF Accounts
  <2>7. Tells(L, f, base, files[f])
    BY <1>1, <1>8, <2>6 DEF ListsTell
  <2> QED BY <1>7, <2>7
<1>10. ASSUME NEW f \in Files \ strayed PROVE Tells(mem', f, base', files[f])
  <2>1. Tells(mem, f, base, files[f])
    BY <1>1, <1>3, <1>8, OwnAccount DEF ListsTell
  <2>2. Tells(mem, f, base', files[f])
    BY <1>3, <1>7, <2>1
  <2> QED BY <1>3, <1>7, <2>2, AppendTells
<1>11. \A L \in Lists' : \A f \in Files \ strayed' :
          (up' => Accounts(L, mem', applied', f)) => Tells(L, f, base', files[f])
  <2>1. Lists' \subseteq Lists \cup {mem', <<>>}
    BY <1>1, ListMoves
  <2> QED BY <1>5, <1>9, <1>10, <2>1, NoList
<1> QED BY <1>8, <1>11 DEF ListsTell

\* The write of an edit leaves what the lists with its checkpoint tell.
LEMMA WriteTellsLists ==
    ASSUME RewindInv, WriteFile, Next
    PROVE  ListsTell'
<1>1. StoreInv /\ TypeOK /\ Turns /\ ListsTell /\ ListsOrdered /\ NewestIsEdited
  BY DEF RewindInv, StoreInv
<1>2. /\ agent.at = "saved" /\ UNCHANGED <<mem, base, up, strayed, main>>
      /\ applied' = applied \cup {mem[Len(mem)].id}
      /\ \E x : files' = [files EXCEPT ![agent.file] = x]
  <2>1. files \in Workspace
    BY <1>1 DEF TypeOK
  <2>2. files = [files EXCEPT ![agent.file] = files[agent.file]]
    BY <2>1 DEF Workspace
  <2> QED BY <2>2 DEF WriteFile
<1>3. /\ main.at # "restoring" /\ up /\ mem # <<>> /\ agent.file \in Files
      /\ files \in Workspace /\ mem \in Seq(Checkpoints)
  BY <1>1, <1>2 DEF Turns, TypeOK
<1>4. mem[Len(mem)].id = Len(base) /\ mem[Len(mem)].file = agent.file
  BY <1>1, <1>2 DEF NewestIsEdited
<1>5. Len(mem) \in 1..Len(mem)
  <2>1. Len(mem) \in Nat /\ Len(mem) # 0
    BY <1>3, LenProperties, EmptySeq
  <2> QED BY <2>1
<1>6. \A f : AtRest(f) = files[f] /\ AtRest(f)' = files'[f]
  BY <1>2, <1>3 DEF AtRest
<1>7. ASSUME NEW L \in Lists, NEW f \in Files \ strayed, Accounts(L, mem, applied', f)
      PROVE  Tells(L, f, base, files'[f])
  <2>1. Accounts(L, mem, applied, f)
    BY <1>2, <1>7 DEF Accounts
  <2>2. Tells(L, f, base, files[f])
    BY <1>1, <1>6, <2>1 DEF ListsTell
  <2>3. CASE f # agent.file
    BY <1>2, <1>3, <2>2, <2>3 DEF Workspace
  <2>4. CASE f = agent.file
    <3>1. PICK k \in 1..Len(L) : L[k] = mem[Len(mem)]
      BY <1>2, <1>4, <1>5, <1>7, <2>4 DEF Accounts
    <3>2. L \in Seq(Checkpoints) /\ Ordered(L, Len(base))
      BY <1>1, <1>3, ListTypes DEF ListsOrdered, Latest
    <3>3. L[k].id = Len(base) /\ L[k].file = f
      BY <1>4, <2>4, <3>1
    <3> QED BY <2>2, <3>2, <3>3, WrittenTells
  <2> QED BY <2>3, <2>4
<1>8. \A L \in Lists' : \A f \in Files \ strayed' :
         (up' => Accounts(L, mem', applied', f)) => Tells(L, f, base', files'[f])
  <2>1. Lists' \subseteq Lists \cup {<<>>}
    BY <1>1, <1>2, ListMoves DEF Lists
  <2> QED BY <1>2, <1>3, <1>7, <2>1, NoList
<1> QED BY <1>6, <1>8 DEF ListsTell

\* The start of a rewind leaves what the lists tell.
LEMMA BeginTells ==
    ASSUME RewindInv, Begins, Next
    PROVE  ListsTell'
<1>1. StoreInv /\ TypeOK /\ ListsTell /\ strayed \subseteq strayed'
  BY StrayedGrows DEF RewindInv, StoreInv
<1>2. /\ main.at = "loop" /\ main'.at = "restoring" /\ UNCHANGED <<files, mem, up, applied>>
      /\ base' = Append(base, files) /\ base \in Seq(Workspace) /\ files \in Workspace
      /\ ~CreateCheckpoint
  <2>1. PICK start \in DOMAIN mem : BeginRewind(start)
    BY DEF Begins
  <2>2. CreateCheckpoint => agent' # agent
    BY <1>1, Checkpointed DEF TypeOK, AgentType
  <2> QED BY <1>1, <2>1, <2>2 DEF BeginRewind, TypeOK
<1>3. /\ Len(base') = Len(base) + 1 /\ base'[Len(base) + 1] = files
      /\ base' # base
  <2>1. Len(base') = Len(base) + 1 /\ base'[Len(base) + 1] = files /\ Len(base) \in Nat
    BY <1>2, AppendProperties, LenProperties
  <2> QED BY <2>1
<1>4. \A L \in Lists : \A f, w : Tells(L, f, base, w) => Tells(L, f, base', w)
  BY <1>3, HistoryMoves
<1>5. \A f : AtRest(f) = files[f] /\ AtRest(f)' = files[f]
  BY <1>2, <1>3 DEF AtRest
<1>6. Lists' \subseteq Lists \cup {<<>>}
  BY <1>1, <1>2, ListMoves DEF Lists
<1>7. \A L \in Lists' : \A f \in Files \ strayed' :
         (up' => Accounts(L, mem', applied', f)) => Tells(L, f, base', files[f])
  BY <1>1, <1>2, <1>4, <1>5, <1>6, NoList DEF ListsTell
<1> QED BY <1>5, <1>7 DEF ListsTell

\* After a rewind the session's list tells of every file; the others only of
\* those that the rewind has not touched.
LEMMA RewindTells ==
    ASSUME RewindInv, ReplaceSelected, Next
    PROVE  ListsTell'
<1> DEFINE S == main.selected
           R == main.reverse
           n == Len(base)
           p == Len(mem) - Len(S)
<1>1. /\ StoreInv /\ TypeOK /\ Turns /\ ListsTell /\ ListsOrdered /\ RewindCaptures
      /\ RestoredSoFar /\ CutsAreStrayed
  BY DEF RewindInv, StoreInv
<1>2. /\ mem' \in Seq(Checkpoints) /\ Len(mem') = p + Len(R)
      /\ \A i \in 1..p + Len(R) : mem'[i] = IF i <= p THEN mem[i] ELSE R[i - p]
      /\ UNCHANGED <<files, disk, up, agent, save, base, strayed>>
      /\ applied' = applied \ Ids(S) /\ main'.at = "rewound"
      /\ main.at = "restoring"
  BY <1>1, ListReplaced
<1>3. /\ p \in Nat /\ p < Len(mem) /\ Len(S) \in Nat /\ Len(S) >= 1
      /\ \A i \in 1..Len(S) : S[i] = mem[p + i]
      /\ \A i \in p + 1..Len(mem) : i - p \in 1..Len(S) /\ mem[i] = S[i - p]
      /\ \A f : f \in FilesOf(S) <=> \E i \in 1..Len(S) : S[i].file = f
      /\ \A f : f \in FilesOf(S) <=> \E k \in 1..Len(R) : R[k].file = f
      /\ up
  BY <1>1, <1>2, Selection
<1>4. mem \in Seq(Checkpoints) /\ R \in Seq(Checkpoints) /\ mem \in Lists
      /\ S \in Seq(Checkpoints)
  BY <1>1, ListTypes DEF Lists
<1>5. Len(mem) \in Nat /\ Len(R) \in Nat /\ n \in Nat /\ DOMAIN S = 1..Len(S)
      /\ \A i \in 1..Len(mem) : mem[i].id \in Nat
  BY <1>1, <1>4, PlacesOf, LenProperties DEF TypeOK
<1>6. \A k \in 1..Len(R) : R[k].id = n /\ R[k].kind = "rewind"
  BY <1>1, <1>2 DEF RewindCaptures
<1>7. \A L \in Lists : \A i \in 1..Len(L) : L[i].id # n
  <2>1. ASSUME NEW L \in Lists, NEW i \in 1..Len(L) PROVE L[i].id # n
    <3>1. L \in Seq(Checkpoints) /\ Ordered(L, n - 1)
      BY <1>1, <1>2, ListTypes DEF ListsOrdered, Latest
    <3>2. L[i].id \in Nat /\ L[i].id <= n - 1
      BY <3>1, PlacesOf DEF Ordered
    <3> QED BY <1>5, <3>2
  <2> QED BY <2>1
<1>8. \A f \in Files \ strayed : f \notin FilesOf(S) => files[f] = base[n][f]
  BY <1>1, <1>2, Untouched
<1>9. \A f : AtRest(f) = base[n][f] /\ AtRest(f)' = files[f]
  BY <1>2 DEF AtRest
<1>10. \A i \in 1..p + Len(R) : \/ i \in 1..Len(mem) /\ i <= p /\ mem'[i] = mem[i]
                                \/ i - p \in 1..Len(R) /\ i > p /\ mem'[i] = R[i - p]
  <2>1. ASSUME NEW i \in 1..p + Len(R)
        PROVE  \/ i \in 1..Len(mem) /\ i <= p /\ mem'[i] = mem[i]
               \/ i - p \in 1..Len(R) /\ i > p /\ mem'[i] = R[i - p]
    <3>1. CASE i <= p
      BY <1>2, <1>3, <1>5, <3>1
    <3>2. CASE i > p
      BY SMTT(30), <1>2, <1>3, <1>5, <3>2
    <3> QED BY <1>3, <3>1, <3>2
  <2> QED BY <2>1
<1>11. /\ \A i \in 1..p : i \in 1..p + Len(R) /\ mem'[i] = mem[i]
       /\ \A k \in 1..Len(R) : p + k \in 1..p + Len(R) /\ mem'[p + k] = R[k]
  <2>1. ASSUME NEW i \in 1..p PROVE i \in 1..p + Len(R) /\ mem'[i] = mem[i]
    <3>1. i \in 1..p + Len(R) /\ i <= p
      BY <1>3, <1>5
    <3> QED BY <1>2, <3>1
  <2>2. ASSUME NEW k \in 1..Len(R) PROVE p + k \in 1..p + Len(R) /\ mem'[p + k] = R[k]
    <3>1. p + k \in 1..p + Len(R) /\ ~(p + k <= p) /\ (p + k) - p = k
      BY <1>3, <1>5
    <3> QED BY <1>2, <3>1
  <2> QED BY <2>1, <2>2
<1>12. \A f : (\E i \in p + 1..Len(mem) : mem[i].file = f) => f \in FilesOf(S)
  BY <1>3
<1>13. \A j \in 1..p : mem[j].id = S[1].id => mem[j].file \in strayed
  BY <1>1, <1>2 DEF CutsAreStrayed
<1> HIDE DEF p, S, R, n
\* An edit before the end that is restored has a number of its own, unless the
\* rewind cuts its group.
<1>14. ASSUME NEW j \in 1..p, mem[j].id \in Ids(S) PROVE mem[j].file \in strayed
  <2>1. PICK i \in 1..Len(S) : S[i].id = mem[j].id
    BY <1>5, <1>14 DEF Ids
  <2>2. /\ 1 \in 1..Len(S) /\ S[1] = mem[p + 1] /\ S[i] = mem[p + i]
        /\ p + 1 \in 1..Len(mem) /\ p + i \in 1..Len(mem) /\ j \in 1..Len(mem)
        /\ j <= p + 1 /\ p + 1 <= p + i
    <3>1. /\ 1 \in 1..Len(S) /\ p + 1 \in 1..Len(mem) /\ j \in 1..Len(mem)
          /\ j <= p + 1 /\ p + 1 <= p + i
      BY <1>3, <1>5
    <3>2. p + i \in 1..Len(mem)
      <4>1. Len(S) = Len(mem) - p
        BY <1>3, <1>5 DEF p
      <4> QED BY <1>3, <1>5, <4>1
    <3> QED BY <1>3, <3>1, <3>2
  <2>3. mem[j].id <= mem[p + 1].id /\ mem[p + 1].id <= mem[p + i].id
    BY <1>1, <1>4, <2>2 DEF ListsOrdered, Ordered
  <2>4. mem[j].id = S[1].id
    BY <1>5, <2>1, <2>2, <2>3
  <2> QED BY <1>13, <2>4
<1>15. ASSUME NEW L \in Lists, NEW f \in Files \ strayed, Accounts(L, mem', applied', f)
       PROVE  Tells(L, f, base, files[f])
  <2>1. ASSUME NEW k \in 1..Len(R), R[k].file = f PROVE FALSE
    <3>1. \E j \in 1..Len(L) : L[j] = R[k]
      BY SMTT(30), <1>2, <1>6, <1>11, <1>15, <2>1 DEF Accounts
    <3> QED BY <1>6, <1>7, <3>1
  <2>2. f \notin FilesOf(S)
    BY <1>3, <2>1
  <2>3. Accounts(L, mem, applied, f)
    <3>1. ASSUME NEW i \in 1..Len(mem), mem[i].file = f,
                 mem[i].kind = "rewind" \/ mem[i].id \in applied
          PROVE  \E j \in 1..Len(L) : L[j] = mem[i]
      <4>1. i \in 1..p
        BY <1>3, <1>5, <1>12, <2>2, <3>1
      <4>2. mem[i].id \notin Ids(S)
        BY <1>14, <3>1, <4>1
      <4> QED BY <1>2, <1>11, <1>15, <3>1, <4>1, <4>2 DEF Accounts
    <3>2. ASSUME NEW j \in 1..Len(L), L[j].file = f PROVE \E i \in 1..Len(mem) : mem[i] = L[j]
      <4>1. PICK i \in 1..p + Len(R) : mem'[i] = L[j]
        BY <1>2, <1>15, <3>2 DEF Accounts
      <4> QED BY <1>6, <1>7, <1>10, <4>1
    <3> QED BY <3>1, <3>2 DEF Accounts
  <2>4. Tells(L, f, base, base[n][f])
    BY <1>1, <1>9, <2>3 DEF ListsTell
  <2> QED BY <1>8, <2>2, <2>4
<1>16. ASSUME NEW f \in Files \ strayed PROVE Tells(mem', f, base, files[f])
  <2>1. Tells(mem, f, base, base[n][f])
    BY <1>1, <1>4, <1>9, OwnAccount DEF ListsTell
  <2>2. (\E i \in p + 1..Len(mem) : mem[i].file = f) => \E k \in 1..Len(R) : R[k].file = f
    BY <1>3, <1>12
  <2>3. (\A k \in 1..Len(R) : R[k].file # f) => files[f] = base[n][f]
    BY <1>3, <1>8
  <2>4. p \in 0..Len(mem) /\ \A i \in 1..Len(mem) : mem[i].id # n
    BY <1>3, <1>4, <1>5, <1>7
  <2>5. Replaces(mem', mem, p, R, n, f, base, files[f])
    BY <1>2, <1>6, <2>2, <2>3, <2>4 DEF Replaces
  <2> QED BY <1>4, <2>1, <2>4, <2>5, ReplaceTells
<1>17. \A L \in Lists' : \A f \in Files \ strayed' :
          (up' => Accounts(L, mem', applied', f)) => Tells(L, f, base', files[f])
  <2>1. Lists' \subseteq Lists \cup {mem', <<>>}
    BY <1>1, ListMoves
  <2>2. up' /\ strayed' = strayed /\ base' = base
    BY <1>2, <1>3
  <2>3. ASSUME NEW L \in Lists', NEW f \in Files \ strayed, Accounts(L, mem', applied', f)
        PROVE  Tells(L, f, base, files[f])
    <3>1. CASE L \in Lists
      BY <1>15, <2>3, <3>1
    <3>2. CASE L = mem'
      BY <1>16, <3>2
    <3>3. CASE L = <<>>
      BY <3>3, NoList
    <3> QED BY <2>1, <3>1, <3>2, <3>3
  <2> QED BY <2>2, <2>3
<1> QED BY <1>9, <1>17 DEF ListsTell

\* A process that ends leaves the session file, which tells of the files that
\* it accounts for.
LEMMA EndTells ==
    ASSUME RewindInv, End, Next
    PROVE  ListsTell'
<1>1. /\ StoreInv /\ TypeOK /\ Turns /\ ListsTell /\ RewindCaptures /\ RestoredSoFar
      /\ strayed \subseteq strayed'
  BY StrayedGrows DEF RewindInv, StoreInv
<1>2. /\ up /\ ~up' /\ mem' = <<>> /\ UNCHANGED <<files, disk, base>>
      /\ strayed' = strayed \cup Unaccounted /\ main'.at = "loop"
      /\ \A t \in Threads : ~InProgress(t)'
  BY DEF End, InLoop, NoSave, InProgress
<1>3. Lists' \subseteq {<<>>, disk.list} /\ disk.list \in Lists
  BY <1>2 DEF Lists
<1>4. mem \in Seq(Checkpoints) /\ disk.list \in Seq(Checkpoints)
  BY <1>1, ListTypes
<1>5. DOMAIN mem = 1..Len(mem) /\ DOMAIN disk.list = 1..Len(disk.list)
  BY <1>4, PlacesOf
<1>6. ASSUME NEW f \in Files \ strayed' PROVE Tells(disk.list, f, base, files[f])
  <2>1. f \notin strayed /\ f \notin Unaccounted
    BY <1>2
  <2>2. Accounts(disk.list, mem, applied, f)
    <3>1. ASSUME NEW i \in 1..Len(mem), mem[i].file = f,
                 mem[i].kind = "rewind" \/ mem[i].id \in applied
          PROVE  \E j \in 1..Len(disk.list) : disk.list[j] = mem[i]
      BY <1>5, <2>1, <3>1 DEF Unaccounted
    <3>2. ASSUME NEW j \in 1..Len(disk.list), disk.list[j].file = f
          PROVE  \E i \in 1..Len(mem) : mem[i] = disk.list[j]
      BY <1>5, <2>1, <3>2 DEF Unaccounted
    <3> QED BY <3>1, <3>2 DEF Accounts
  <2>3. Tells(disk.list, f, base, AtRest(f))
    BY <1>1, <1>3, <2>1, <2>2 DEF ListsTell
  <2>4. AtRest(f) = files[f]
    <3>1. CASE main.at = "restoring"
      <4>1. f \notin FilesOf(main.selected)
        BY <2>1, <3>1 DEF Unaccounted
      <4> QED BY <1>1, <2>1, <3>1, <4>1, Untouched DEF AtRest
    <3>2. CASE main.at # "restoring"
      BY <3>2 DEF AtRest
    <3> QED BY <3>1, <3>2
  <2> QED BY <2>3, <2>4
<1>7. \A f : AtRest(f)' = files[f]
  BY <1>2 DEF AtRest
<1>8. \A L \in Lists' : \A f \in Files \ strayed' : Tells(L, f, base', files[f])
  BY <1>2, <1>3, <1>6, NoList
<1> QED BY <1>7, <1>8 DEF ListsTell

\* A process that resumes the session has the list of the file.
LEMMA ResumeTells ==
    ASSUME RewindInv, Resume, Next
    PROVE  ListsTell'
<1>1. StoreInv /\ TypeOK /\ Turns /\ ListsTell
  BY DEF RewindInv, StoreInv
<1>2. ~up /\ UNCHANGED <<files, base, strayed, main>> /\ ~CreateCheckpoint /\ ~ReplaceSelected
  BY <1>1 DEF Resume, CreateCheckpoint, ReplaceSelected, Turns
<1>3. Lists' \subseteq Lists \cup {<<>>} /\ \A f : AtRest(f)' = AtRest(f)
  BY <1>1, <1>2, ListMoves DEF AtRest
<1>4. \A L \in Lists : \A f \in Files \ strayed : Tells(L, f, base, AtRest(f))
  BY <1>1, <1>2 DEF ListsTell
<1>5. \A L \in Lists' : \A f \in Files \ strayed' : Tells(L, f, base', AtRest(f))
  BY <1>2, <1>3, <1>4, NoList
<1> QED BY <1>3, <1>5 DEF ListsTell

\* Every step keeps what the lists tell.
LEMMA StepKeepsTelling ==
    ASSUME RewindInv, Next
    PROVE  ListsTell'
<1>1. StoreInv /\ TypeOK /\ Turns /\ RewindCaptures /\ RestoredSoFar
  BY DEF RewindInv, StoreInv
<1>2. files \in Workspace /\ main \in MainType
  BY <1>1 DEF TypeOK
<1>3. ASSUME main' = main, UNCHANGED <<mem, base, up, applied>>,
             \A f \in Files \ strayed' : files'[f] = files[f]
      PROVE  ListsTell'
  <2>1. \A f \in Files \ strayed' : AtRest(f)' = AtRest(f)
    BY <1>3 DEF AtRest
  <2> QED BY <1>3, <2>1, SameTells
<1>4. ASSUME main.at # "restoring", main'.at # "restoring",
             UNCHANGED <<mem, base, up, applied, files>>
      PROVE  ListsTell'
  <2>1. \A f \in Files \ strayed' : AtRest(f)' = AtRest(f)
    BY <1>4 DEF AtRest
  <2> QED BY <1>4, <2>1, SameTells
<1>5. CASE BeginTurn \/ EndTurn \/ Refuse \/ \E f \in Files : ReadPrevious(f)
  <2>1. UNCHANGED <<main, mem, base, up, applied, files>>
    BY <1>5 DEF BeginTurn, EndTurn, Refuse, ReadPrevious, history
  <2> QED BY <1>3, <2>1
<1>6. CASE Autosave \/ Exit
  <2>1. /\ UNCHANGED <<mem, base, up, applied, files>> /\ main.at = "loop"
        /\ main'.at \in {"autosaving", "exiting"}
    BY <1>2, <1>6 DEF Autosave, Exit, history, MainType
  <2> QED BY <1>4, <2>1
<1>7. CASE \E f \in Files : Outside(f)
  <2>1. PICK f \in Files : Outside(f)
    BY <1>7
  <2>2. UNCHANGED <<main, mem, base, up, applied>>
    BY <2>1 DEF Outside, process
  <2>3. \A g \in Files \ strayed' : files'[g] = files[g]
    BY <1>2, <2>1 DEF Outside, Workspace
  <2> QED BY <1>3, <2>2, <2>3
<1>8. CASE Restore
  <2>1. UNCHANGED <<mem, base, up, applied>> /\ main.at = "restoring" /\ main'.at = "restoring"
    BY <1>2, <1>8 DEF Restore, history, MainType
  <2>2. \A f \in Files \ strayed' : AtRest(f)' = AtRest(f)
    BY <2>1 DEF AtRest
  <2> QED BY <2>1, <2>2, SameTells
<1>9. CASE RestoreFails
  <2>1. /\ UNCHANGED <<mem, base, up, applied>> /\ main.at = "restoring"
        /\ strayed' = strayed \cup FilesOf(main.selected) /\ main'.at = "loop"
        /\ main.left > 0
        /\ \E x : files' = [files EXCEPT ![main.selected[main.left].file] = x]
    BY <1>9 DEF RestoreFails, InLoop
  <2>2. main.selected[main.left].file \in FilesOf(main.selected)
    <3>1. main.left \in Nat /\ main.left <= Len(main.selected)
      BY <1>1, <1>2, <2>1 DEF MainType, StoreInv, RestoresTail
    <3>2. main.left \in 1..Len(main.selected)
      BY <1>1, <2>1, <3>1, Selection
    <3> QED BY <1>1, <2>1, <3>2, Selection
  <2>3. ASSUME NEW f \in Files \ strayed' PROVE AtRest(f)' = AtRest(f)
    <3>1. files'[f] = files[f]
      BY <1>2, <2>1, <2>2, <2>3 DEF Workspace
    <3>2. files[f] = base[Len(base)][f]
      BY <1>1, <2>1, <2>3, Untouched
    <3> QED BY <2>1, <3>1, <3>2 DEF AtRest
  <2> QED BY <2>1, <2>3, SameTells
<1>10. CASE \E t \in Threads : Serialize(t) \/ Open(t) \/ Write(t) \/ SaveFails(t)
  <2>1. PICK t \in Threads : Serialize(t) \/ Open(t) \/ Write(t) \/ SaveFails(t)
    BY <1>10
  <2>2. Saves(t) /\ (t = "main" \/ t = "agent")
    BY <1>1, <2>1, SaveMoves DEF Turns, Threads
  <2>3. main.at # "restoring"
    BY <1>1, <2>2 DEF Saves, Turns
  <2>4. main' = main \/ main'.at \in {"over", "loop", "exiting"}
    BY <1>2, <2>1 DEF Serialize, Open, Write, SaveFails, InLoop, MainType
  <2>5. UNCHANGED <<mem, base, up, applied, files>>
    BY <2>1 DEF Serialize, Open, Write, SaveFails, history
  <2> QED BY <1>4, <2>3, <2>4, <2>5
<1> QED BY <1>1, <1>5, <1>6, <1>7, <1>8, <1>9, <1>10, EditTells, WriteTellsLists, BeginTells,
           RewindTells, EndTells, ResumeTells, StepsOfTheSession DEF Quiet

-----------------------------------------------------------------------------
\* What the lists of checkpoints tell is so at the start and kept by every step.
THEOREM ListsInvariant == Spec => []RewindInv
<1>1. ASSUME Init PROVE RewindInv
  <2>1. /\ Lists = {<<>>} /\ agent.at = "idle" /\ main.at = "loop"
    BY <1>1 DEF Init, Lists, InProgress, NoSave, NoEdit, InLoop, Unreadable
  <2>2. ListsOrdered /\ ListsHold /\ ListsTell
    BY <2>1, NoList DEF ListsOrdered, ListsHold, ListsTell
  <2> QED BY <1>1, <2>1, <2>2, InitIsGood
          DEF RewindInv, NewestIsEdited, ReviewIsCurrent, RewindCaptures, RestoredSoFar,
              CutsAreStrayed
<1>2. ASSUME RewindInv, UNCHANGED vars, StoreInv' PROVE RewindInv'
  <2>1. UNCHANGED <<files, disk, up, mem, busy, dirty, agent, main, save, extras, base,
                    applied, strayed, behind>>
    BY <1>2 DEF vars, process, history
  <2>2. Lists' = Lists /\ Latest' = Latest /\ \A f : AtRest(f)' = AtRest(f)
    BY <2>1 DEF Lists, InProgress, Latest, AtRest
  <2>3. ListsOrdered' /\ ListsHold' /\ ListsTell'
    BY <1>2, <2>1, <2>2 DEF RewindInv, ListsOrdered, ListsHold, ListsTell
  <2> QED BY <1>2, <2>1, <2>3
          DEF RewindInv, NewestIsEdited, ReviewIsCurrent, RewindCaptures, RestoredSoFar,
              CutsAreStrayed
<1>3. ASSUME RewindInv, Next, StoreInv' PROVE RewindInv'
  BY <1>3, StepKeepsOrder, StepKeepsEdit, StepKeepsCaptures, StepKeepsHeld, StepKeepsRewind,
     StepKeepsTelling DEF RewindInv
<1>4. RewindInv /\ StoreInv' /\ [Next]_vars => RewindInv'
  BY <1>2, <1>3
<1> QED BY <1>1, <1>4, SessionInvariant, PTL DEF Spec

\* A rewind brings every file that has not been changed otherwise back to what
\* it was when the oldest checkpoint that it restores was made, after any number
\* of edits, rewinds, failures and restarts.
THEOREM RewindsAreExact == Spec => []RewindIsExact
<1>1. ASSUME RewindInv PROVE RewindIsExact
  <2> DEFINE S == main.selected
             p == Len(mem) - Len(S)
             n == Len(base)
  <2>1. /\ StoreInv /\ TypeOK /\ ListsTell /\ ListsHold /\ RewindCaptures /\ RestoredSoFar
        /\ CutsAreStrayed
    BY <1>1 DEF RewindInv, StoreInv
  <2> SUFFICES ASSUME main.at = "restoring", main.left = 0, NEW f \in Files, f \notin strayed,
                      f \notin {S[i].file : i \in {j \in DOMAIN S :
                                      S[j].kind = "rewind" /\ S[j].id # S[1].id}}
               PROVE  files[f] = base[S[1].id][f]
    BY DEF RewindIsExact
  <2>2. /\ p \in Nat /\ p < Len(mem) /\ Len(S) \in Nat /\ Len(S) >= 1
        /\ p + Len(S) = Len(mem)
        /\ \A i \in 1..Len(S) : S[i] = mem[p + i]
        /\ \A i \in p + 1..Len(mem) : i - p \in 1..Len(S) /\ mem[i] = S[i - p]
    BY <2>1, Selection
  <2>3. mem \in Seq(Checkpoints) /\ S \in Seq(Checkpoints) /\ mem \in Lists
    BY <2>1, ListTypes DEF Lists
  <2>4. DOMAIN S = 1..Len(S) /\ Len(mem) \in Nat
    BY <2>3, PlacesOf
  <2>5. \A j \in 1..p : mem[j].id = S[1].id => mem[j].file \in strayed
    BY <2>1 DEF CutsAreStrayed
  <2>6. Tells(mem, f, base, base[n][f])
    BY <2>1, <2>3, OwnAccount DEF ListsTell, AtRest
  <2>7. Restored(S, 0, f, base[n][f], files[f])
    BY <2>1 DEF RestoredSoFar
  <2>8. Holds(mem, base, strayed)
    BY <2>1, <2>3 DEF ListsHold
  <2> HIDE DEF p, n, S
  <2>9. /\ p + 1 \in 1..Len(mem) /\ 1 \in 1..Len(S) /\ mem[p + 1] = S[1]
        /\ \A i \in 1..Len(S) : p + i \in p + 1..Len(mem)
        /\ 0 + 1 = 1 /\ (p + 1) - 1 = p
    <3>1. /\ p + 1 \in 1..Len(mem) /\ 1 \in 1..Len(S) /\ 0 + 1 = 1 /\ (p + 1) - 1 = p
      BY <2>2, <2>4
    <3>2. \A i \in 1..Len(S) : p + i \in p + 1..Len(mem)
      BY <2>2, <2>4
    <3> QED BY <2>2, <3>1, <3>2
  <2>10. f \notin Undone(mem, p + 1)
    <3>1. ASSUME NEW i \in p + 1..Len(mem), mem[i].kind = "rewind", mem[i].id # mem[p + 1].id,
                 mem[i].file = f
          PROVE  FALSE
      <4>1. i - p \in DOMAIN S /\ mem[i] = S[i - p]
        BY <2>2, <2>4
      <4> QED BY <2>9, <3>1, <4>1 DEF S
    <3> QED BY <3>1 DEF Undone
  <2>11. f \notin Shared(mem, p + 1)
    BY <2>5, <2>9 DEF Shared
  <2>12. TellsFrom(mem, p + 1, f, base, base[n][f])
    BY <2>6, <2>9, <2>10, <2>11 DEF Tells
  <2>13. CASE files[f] = base[n][f] /\ \A i \in 1..Len(S) : S[i].file # f
    <3>1. \A i \in p + 1..Len(mem) : mem[i].file # f
      BY <2>2, <2>13
    <3> QED BY <2>9, <2>12, <2>13, <3>1 DEF TellsFrom
  <2>14. CASE \E i \in 1..Len(S) : NextOf(S, 1, i, f) /\ files[f] = Value(S[i])
    <3>1. PICK i \in 1..Len(S) : NextOf(S, 1, i, f) /\ files[f] = Value(S[i])
      BY <2>14
    <3>2. mem[p + i] = S[i] /\ p + i \in p + 1..Len(mem) /\ p + i \in 1..Len(mem)
      <4>1. p + i \in 1..Len(mem)
        BY <2>2, <2>4, <2>9
      <4> QED BY <2>2, <2>9, <4>1
    <3>3. NextOf(mem, p + 1, p + i, f)
      <4>1. ASSUME NEW j \in p + 1..(p + i) - 1 PROVE mem[j].file # f
        <5>1. j \in p + 1..Len(mem) /\ j - p \in 1..i - 1
          BY <2>2, <2>4, <3>2
        <5>2. mem[j] = S[j - p]
          BY <2>2, <5>1
        <5> QED BY <3>1, <5>1, <5>2 DEF NextOf
      <4>2. mem[p + i].file = f
        BY <3>1, <3>2 DEF NextOf
      <4> QED BY <4>1, <4>2 DEF NextOf
    <3>4. base[mem[p + i].id][f] = base[mem[p + 1].id][f]
      BY <2>12, <3>2, <3>3 DEF TellsFrom
    <3>5. Value(S[i]) = base[S[i].id][f]
      BY <2>8, <3>1, <3>2 DEF Holds, NextOf
    <3> QED BY <2>9, <3>1, <3>2, <3>4, <3>5
  <2> QED BY <2>7, <2>9, <2>13, <2>14 DEF Restored
<1> QED BY <1>1, ListsInvariant, PTL
=============================================================================
