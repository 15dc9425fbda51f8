---------------------------- MODULE WebServerProofs ----------------------------
(***************************************************************************)
(* Proofs about the commands of the web clients and about the shared       *)
(* configuration: no content goes without a reason, commands stay where    *)
(* they were meant to work, and a saved change stays saved, for any number *)
(* of clients, commands, files, programs and changes.                      *)
(***************************************************************************)
EXTENDS WebServer, SecretStoreProofs

Tasks == Underway \union Over

\* Where the prover needs to know only that much of a list of commands.
LEMMA OneReplaced ==
    ASSUME NEW S, NEW q \in Seq(S), NEW k \in DOMAIN q, NEW r \in S
    PROVE  /\ [q EXCEPT ![k] = r] \in Seq(S)
           /\ DOMAIN [q EXCEPT ![k] = r] = DOMAIN q
           /\ [q EXCEPT ![k] = r][k] = r
           /\ \A j \in DOMAIN q \ {k} : [q EXCEPT ![k] = r][j] = q[j]
OBVIOUS

\* A list with one more element.
LEMMA OneMore ==
    ASSUME NEW S, NEW q \in Seq(S), NEW r \in S
    PROVE  /\ Append(q, r) \in Seq(S)
           /\ DOMAIN Append(q, r) = DOMAIN q \union {Len(q) + 1}
           /\ Append(q, r)[Len(q) + 1] = r
           /\ \A j \in DOMAIN q : Append(q, r)[j] = q[j]
OBVIOUS

\* The two files of a command are files.
LEMMA FilesOfTask ==
    ASSUME NEW r \in Underway
    PROVE  Current(r) \in Files /\ Target(r) \in Files
<1> Head(r.paths) \in Dirs \X Names
  BY DEF Underway, Paths
<1> r.from \in Systems /\ r.to \in Systems \X Dirs /\ r.name \in Names
  BY DEF Underway, Stands
<1> QED BY DEF Current, Target, Files, Paths

\* Touching a file leaves a command what it was.
LEMMA Touching ==
    ASSUME NEW r \in Underway, NEW s \in Panels, NEW f \in Files
    PROVE  /\ Touch(r, s, f) \in Underway
           /\ Touch(r, s, f) = [r EXCEPT !.touched = r.touched \union {<<s, Stand(f)>>}]
<1> <<s, Stand(f)>> \in Panels \X Stands
  BY DEF Stand, Stands, Files, Paths
<1> QED BY DEF Touch, Underway

\* There are two panels.
LEMMA PanelsTwo == ASSUME NEW s \in Panels PROVE Other(s) \in Panels
BY DEF Other, Panels

\* What becomes of a command when its item is done.
LEMMA Ending ==
    ASSUME NEW r \in Underway
    PROVE  /\ Ended(r) \in Over
           /\ Onward(r) \in Tasks
           /\ Onward(r).phase \in {"items", "done"}
           /\ Empties(r) \in Underway /\ Fills(r) \in Underway
<1>1. Ended(r) \in Over
  BY DEF Ended, Underway, Over
<1>2. Tail(r.paths) # <<>> =>
         [r EXCEPT !.phase = "items", !.paths = Tail(@), !.data = none] \in Underway
  <2> r.paths \in Seq(Paths) /\ r.paths # <<>>
    BY DEF Underway
  <2> Tail(r.paths) \in Seq(Paths)
    OBVIOUS
  <2> QED BY DEF Underway
<1>3. Onward(r) \in Tasks
  BY <1>1, <1>2 DEF Onward, Tasks
<1>4. Onward(r).phase \in {"items", "done"}
  BY DEF Onward, Ended, Underway
<1>5. Empties(r) \in Underway /\ Fills(r) \in Underway
  <2> r.side \in Panels /\ Other(r.side) \in Panels
    BY PanelsTwo DEF Underway
  <2> QED BY FilesOfTask, Touching DEF Empties, Fills
<1> QED BY <1>1, <1>3, <1>4, <1>5

-------------------------------------------------------------------------------
(* Types.                                                                    *)

Values == Contents \union {none, junk}

\* A command that works is one under way.
LEMMA AtWork ==
    ASSUME commands \in Seq(Tasks), NEW k \in DOMAIN commands,
           commands[k].phase \in {"sent", "items", "write", "remove"}
    PROVE  commands[k] \in Underway
BY DEF Tasks, Over

\* An entry that is written holds a value.
LEMMA PutTyped ==
    ASSUME NEW t \in [Files -> Values], NEW f \in Files, NEW c \in Values, Put(t, f, c)
    PROVE  tree' \in [Files -> Values]
BY DEF Put

\* A task that stays a task or ends leaves the types alone.
LEMMA BecomesTyped ==
    ASSUME ApiTypeOK, NEW k \in DOMAIN commands, NEW r \in Tasks, Becomes(k, r),
           tree' \in [Files -> Values]
    PROVE  ApiTypeOK'
<1>1. commands' \in Seq(Tasks)
  BY OneReplaced DEF Becomes, ApiTypeOK, Tasks
<1> QED BY <1>1 DEF Becomes, ApiTypeOK, panels, Tasks, Values

\* A command that is sent is one under way.
LEMMA Sent ==
    ASSUME ApiTypeOK, NEW c \in Clients, NEW s \in Panels,
           NEW kind \in Transfers \union {"delete", "rename", "write"},
           NEW paths \in Seq(Paths), paths # <<>>,
           NEW name \in Names, NEW data \in Values,
           Send(c, kind, s, paths, name, data)
    PROVE  ApiTypeOK'
<1> DEFINE r == [kind |-> kind, side |-> s, paths |-> paths, name |-> name, data |-> data,
                 meant |-> seen[c], phase |-> "sent",
                 from |-> seen[c][s][1], to |-> seen[c][Other(s)],
                 cancelled |-> FALSE, astray |-> FALSE, touched |-> {}]
<1>1. seen[c] \in [Panels -> Stands]
  BY DEF ApiTypeOK
<1>2. seen[c][s] \in Stands /\ seen[c][Other(s)] \in Stands
  BY <1>1, PanelsTwo
<1>3. seen[c][s][1] \in Systems
  BY <1>2 DEF Stands
<1>4. r \in Underway
  BY <1>1, <1>2, <1>3 DEF Underway, Values
<1>5. commands' = Append(commands, r)
  BY DEF Send
<1>6. commands' \in Seq(Tasks)
  BY <1>4, <1>5 DEF ApiTypeOK, Tasks
<1> QED BY <1>6 DEF Send, ApiTypeOK, panels, Tasks

\* What is selected are paths.
LEMMA Selected ==
    ASSUME NEW p \in Stands, NEW q \in Selections(p)
    PROVE  q \in Seq(Paths) /\ q # <<>> /\ Head(q)[2] \in Names
<1>1. PICK k \in 1..Cardinality(Listed(p)) : q \in [1..k -> {p[2]} \X Listed(p)]
  BY DEF Selections
<1>2. {p[2]} \X Listed(p) \subseteq Paths
  BY DEF Listed, Stands, Paths
<1>3. k \in Nat /\ k >= 1
  BY <1>1
<1>4. q \in [1..k -> Paths]
  BY <1>1, <1>2
<1>5. q \in Seq(Paths) /\ Len(q) = k
  BY <1>3, <1>4
<1>6. Head(q) = q[1] /\ q[1] \in Paths
  BY <1>3, <1>4, <1>5
<1> QED BY <1>3, <1>5, <1>6 DEF Paths

\* What a client does keeps the types.
LEMMA ClientTyped ==
    ASSUME ApiTypeOK, ApiAssumption, NEW c \in Clients, NEW s \in Panels, Client(c, s)
    PROVE  ApiTypeOK'
<1>1. seen[c][s] \in Stands
  BY DEF ApiTypeOK
<1>2. CASE Hear(c, s)
  <2>1. PICK p \in been[s] : seen' = [seen EXCEPT ![c][s] = p]
    BY <1>2 DEF Hear
  <2>2. p \in Stands
    BY <2>1 DEF ApiTypeOK
  <2>3. seen' \in [Clients -> [Panels -> Stands]]
    BY <2>1, <2>2 DEF ApiTypeOK
  <2> QED BY <1>2, <2>3 DEF Hear, ApiTypeOK, panels
<1>3. CASE SendPaths(c, s)
  <2>1. PICK kind \in Transfers \union {"delete"}, q \in Selections(seen[c][s]) :
           Send(c, kind, s, q, Head(q)[2], none)
    BY <1>3 DEF SendPaths
  <2>2. q \in Seq(Paths) /\ q # <<>> /\ Head(q)[2] \in Names
    BY <1>1, <2>1, Selected
  <2> QED BY <2>1, <2>2, Sent DEF Values
<1>4. CASE SendRename(c, s)
  <2>1. PICK n \in Listed(seen[c][s]), m \in Names :
           Send(c, "rename", s, << <<seen[c][s][2], n>> >>, m, none)
    BY <1>4 DEF SendRename
  <2>2. <<seen[c][s][2], n>> \in Paths
    BY <1>1, <2>1 DEF Listed, Stands, Paths
  <2>3. << <<seen[c][s][2], n>> >> \in Seq(Paths) /\ << <<seen[c][s][2], n>> >> # <<>>
    BY <2>2
  <2> QED BY <2>1, <2>3, Sent DEF Values
<1>5. CASE SendFile(c, s)
  <2>1. PICK n \in Names, d \in Drafts :
           Send(c, "write", s, << <<seen[c][s][2], n>> >>, n, d)
    BY <1>5 DEF SendFile
  <2>2. <<seen[c][s][2], n>> \in Paths /\ d \in Values
    BY <1>1, <2>1 DEF Stands, Paths, Values, ApiAssumption
  <2>3. << <<seen[c][s][2], n>> >> \in Seq(Paths) /\ << <<seen[c][s][2], n>> >> # <<>>
    BY <2>2
  <2> QED BY <2>1, <2>2, <2>3, Sent
<1> QED BY <1>2, <1>3, <1>4, <1>5 DEF Client

\* A panel that goes elsewhere keeps the types.
LEMMA NavigateTyped ==
    ASSUME ApiTypeOK, ApiAssumption, NEW s \in Panels, NEW p \in Stands, Navigate(s, p)
    PROVE  ApiTypeOK'
<1>1. stand' \in [Panels -> Stands] /\ been' \in [Panels -> SUBSET Stands]
  BY DEF Navigate, ApiTypeOK
<1>2. hops' \in 0..MaxHops
  BY DEF Navigate, ApiTypeOK, ApiAssumption
<1> QED BY <1>1, <1>2 DEF Navigate, ApiTypeOK

\* A cancellation keeps the types.
LEMMA CancelTyped ==
    ASSUME ApiTypeOK, NEW k \in DOMAIN commands, Cancel(k)
    PROVE  ApiTypeOK'
<1> DEFINE r == [commands[k] EXCEPT !.cancelled = TRUE]
<1>1. commands[k] \in Underway
  BY AtWork DEF Cancel, ApiTypeOK, Tasks
<1>2. r \in Underway
  BY <1>1 DEF Underway
<1>3. commands' = [commands EXCEPT ![k] = r]
  BY DEF Cancel
<1>4. commands' \in Seq(Tasks)
  BY <1>2, <1>3, OneReplaced DEF ApiTypeOK, Tasks
<1> QED BY <1>4 DEF Cancel, ApiTypeOK, panels, Tasks

\* The handling of a command keeps the types.
LEMMA HandleTyped ==
    ASSUME ApiTypeOK, NEW k \in DOMAIN commands, Handle(k)
    PROVE  ApiTypeOK'
<1> DEFINE r == commands[k]
           s == r.side
           o == Other(s)
           h == [r EXCEPT !.phase = "items",
                     !.from = stand[s][1],
                     !.to = IF r.kind \in Transfers THEN stand[o]
                            ELSE <<stand[s][1], Head(r.paths)[1]>>,
                     !.astray = \/ stand[s] # r.meant[s]
                                \/ r.kind \in Transfers /\ stand[o] # r.meant[o]]
<1>1. r \in Underway
  BY AtWork DEF Handle, ApiTypeOK, Tasks
<1>2. s \in Panels /\ o \in Panels
  BY <1>1, PanelsTwo DEF Underway
<1>3. stand[s] \in Stands /\ stand[o] \in Stands
  BY <1>2 DEF ApiTypeOK
<1>4. stand[s][1] \in Systems
  BY <1>3 DEF Stands
<1>5. Head(r.paths)[1] \in Dirs
  BY <1>1 DEF Underway, Paths
<1>6. <<stand[s][1], Head(r.paths)[1]>> \in Stands
  BY <1>4, <1>5 DEF Stands
<1>7. h \in Underway
  BY <1>1, <1>3, <1>4, <1>6 DEF Underway
<1>8. commands' = [commands EXCEPT ![k] = h]
  BY DEF Handle
<1>9. commands' \in Seq(Tasks)
  BY <1>7, <1>8, OneReplaced DEF ApiTypeOK, Tasks
<1> QED BY <1>9 DEF Handle, ApiTypeOK, panels, Tasks

\* A step of a transfer keeps the types.
LEMMA TransferTyped ==
    ASSUME ApiTypeOK, NEW k \in DOMAIN commands, Transfer(k)
    PROVE  ApiTypeOK'
<1> DEFINE r == commands[k]
<1>1. r \in Underway
  BY AtWork DEF Transfer, Stop, Read, ReadFails, Write, WriteFails, Remove, RemoveFails,
                Working, ApiTypeOK, Tasks
<1>2. /\ Ended(r) \in Tasks /\ Onward(r) \in Tasks
      /\ Empties(r) \in Underway /\ Onward(Empties(r)) \in Tasks
      /\ Fills(r) \in Underway /\ Onward(Fills(r)) \in Tasks
  BY <1>1, Ending DEF Tasks
<1>3. Current(r) \in Files /\ Target(r) \in Files
  BY <1>1, FilesOfTask
<1>4. tree \in [Files -> Values] /\ r.data \in Values /\ {none, junk} \subseteq Values
  BY <1>1 DEF ApiTypeOK, Underway, Values
<1>5. CASE Stop(k)
  BY <1>2, <1>4, <1>5, BecomesTyped DEF Stop
<1>6. CASE Read(k)
  <2>1. PICK d \in ({tree[Current(r)]} \ {none}) \union HalfWritten(Current(r)) :
           Becomes(k, [r EXCEPT !.phase = "write", !.data = d])
    BY <1>6 DEF Read
  <2>2. d \in Values
    BY <1>3, <1>4 DEF HalfWritten
  <2>3. [r EXCEPT !.phase = "write", !.data = d] \in Tasks
    BY <1>1, <2>2 DEF Underway, Tasks, Values
  <2> QED BY <1>4, <1>6, <2>1, <2>3, BecomesTyped DEF Read
<1>7. CASE ReadFails(k)
  BY <1>2, <1>4, <1>7, BecomesTyped DEF ReadFails
<1>8. CASE Write(k)
  <2>1. tree' \in [Files -> Values]
    BY <1>3, <1>4, <1>8, PutTyped DEF Write
  <2>2. [Fills(r) EXCEPT !.phase = "remove"] \in Tasks
    BY <1>2 DEF Underway, Tasks
  <2> QED BY <1>2, <1>8, <2>1, <2>2, BecomesTyped DEF Write
<1>9. CASE WriteFails(k)
  <2>1. tree' \in [Files -> Values]
    BY <1>3, <1>4, <1>9, PutTyped DEF WriteFails
  <2> QED BY <1>2, <1>9, <2>1, BecomesTyped DEF WriteFails
<1>10. CASE Remove(k)
  <2>1. tree' \in [Files -> Values]
    BY <1>3, <1>4, <1>10 DEF Remove
  <2> QED BY <1>2, <1>10, <2>1, BecomesTyped DEF Remove
<1>11. CASE RemoveFails(k)
  BY <1>2, <1>4, <1>11, BecomesTyped DEF RemoveFails
<1> QED BY <1>5, <1>6, <1>7, <1>8, <1>9, <1>10, <1>11 DEF Transfer

\* A step of a deletion, a rename or a write keeps the types.
LEMMA EditTyped ==
    ASSUME ApiTypeOK, NEW k \in DOMAIN commands, Edit(k)
    PROVE  ApiTypeOK'
<1> DEFINE r == commands[k]
<1>1. r \in Underway
  BY AtWork DEF Edit, Delete, DeleteFails, Rename, Save, EditFails, Working, ApiTypeOK, Tasks
<1>2. /\ Ended(r) \in Tasks
      /\ Empties(r) \in Underway /\ Onward(Empties(r)) \in Tasks /\ Ended(Empties(r)) \in Tasks
      /\ Fills(r) \in Underway /\ Ended(Fills(r)) \in Tasks
  BY <1>1, Ending DEF Tasks
<1>3. Current(r) \in Files /\ Target(r) \in Files
  BY <1>1, FilesOfTask
<1>4. tree \in [Files -> Values] /\ r.data \in Values /\ {none, junk} \subseteq Values
  BY <1>1 DEF ApiTypeOK, Underway, Values
<1>5. CASE Delete(k)
  <2>1. tree' \in [Files -> Values]
    BY <1>3, <1>4, <1>5 DEF Delete
  <2> QED BY <1>2, <1>5, <2>1, BecomesTyped DEF Delete
<1>6. CASE DeleteFails(k)
  BY <1>2, <1>4, <1>6, BecomesTyped DEF DeleteFails
<1>7. CASE Rename(k)
  <2>1. [tree EXCEPT ![Current(r)] = none] \in [Files -> Values] /\ tree[Current(r)] \in Values
    BY <1>3, <1>4
  <2>2. tree' \in [Files -> Values]
    BY <1>3, <1>7, <2>1, PutTyped DEF Rename
  <2> QED BY <1>2, <1>7, <2>2, BecomesTyped DEF Rename
<1>8. CASE Save(k)
  <2>1. tree' \in [Files -> Values]
    BY <1>3, <1>4, <1>8, PutTyped DEF Save
  <2> QED BY <1>2, <1>8, <2>1, BecomesTyped DEF Save
<1>9. CASE EditFails(k)
  <2>1. tree' \in [Files -> Values]
    BY <1>3, <1>4, <1>9, PutTyped DEF EditFails
  <2> QED BY <1>2, <1>9, <2>1, BecomesTyped DEF EditFails
<1> QED BY <1>5, <1>6, <1>7, <1>8, <1>9 DEF Edit

\* The types hold at the start.
LEMMA ApiTypesStart == ApiAssumption /\ ApiInit => ApiTypeOK
BY DEF ApiAssumption, ApiInit, ApiTypeOK

\* Every step keeps them.
LEMMA ApiTypesStep == ApiAssumption /\ ApiTypeOK /\ [ApiNext]_apiVars => ApiTypeOK'
<1> SUFFICES ASSUME ApiAssumption, ApiTypeOK, [ApiNext]_apiVars PROVE ApiTypeOK'
  OBVIOUS
<1>1. CASE ApiNext
  BY <1>1, ClientTyped, NavigateTyped, CancelTyped, HandleTyped, TransferTyped, EditTyped
     DEF ApiNext
<1>2. CASE UNCHANGED apiVars
  BY <1>2 DEF apiVars, panels, ApiTypeOK
<1> QED BY <1>1, <1>2

\* The types of the web clients' commands, for any number of clients and commands.
THEOREM ApiTypes == ApiSpec => []ApiTypeOK
BY ApiAssumption, ApiTypesStart, ApiTypesStep, PTL DEF ApiSpec

-------------------------------------------------------------------------------
(* Nothing is lost.  A content is not only somewhere: it is somewhere that   *)
(* no move is about to delete, unless there is a reason for it to be gone.   *)

Excused == asked \union replaced \union crossed \union unread
Safe(c) == \E f \in Files : tree[f] = c /\ f \notin Doomed(commands, c)
AllSafe == \A c \in Contents : c \in Excused \/ Safe(c)

\* A command that changes is doomed to delete at most what it is at.
LEMMA DoomedByOne ==
    ASSUME ApiTypeOK, NEW k \in DOMAIN commands, NEW r \in Tasks,
           commands' = [commands EXCEPT ![k] = r],
           NEW c, NEW f \in Doomed(commands', c), f \notin Doomed(commands, c)
    PROVE  r.phase = "remove" /\ r.data = c /\ f = Current(r)
<1>1. PICK j \in DOMAIN commands' :
         commands'[j].phase = "remove" /\ commands'[j].data = c /\ f = Current(commands'[j])
  BY DEF Doomed
<1>2. DOMAIN commands' = DOMAIN commands /\ commands'[k] = r
  BY OneReplaced DEF ApiTypeOK, Tasks
<1>3. j # k => commands'[j] = commands[j]
  BY <1>1, <1>2, OneReplaced DEF ApiTypeOK, Tasks
<1>4. j = k
  BY <1>1, <1>2, <1>3 DEF Doomed
<1> QED BY <1>1, <1>2, <1>4

\* Where nothing is written and no move becomes ready to delete.
LEMMA StaysSafe ==
    ASSUME ApiTypeOK, AllSafe, NEW k \in DOMAIN commands, NEW r \in Tasks,
           commands' = [commands EXCEPT ![k] = r], r.phase # "remove",
           UNCHANGED <<tree, losses>>
    PROVE  AllSafe'
<1> SUFFICES ASSUME NEW c \in Contents, c \notin Excused' PROVE Safe(c)'
  BY DEF AllSafe
<1>1. PICK f \in Files : tree[f] = c /\ f \notin Doomed(commands, c)
  BY DEF AllSafe, Excused, Safe, losses
<1>2. f \notin Doomed(commands', c)
  BY <1>1, DoomedByOne
<1> QED BY <1>1, <1>2 DEF Safe

\* Writing d to f, where what d was written from may be doomed from now on.
LEMMA PutSafe ==
    ASSUME ApiTypeOK, ApiAssumption, AllSafe,
           NEW t \in [Files -> Values], NEW f \in Files, NEW d \in Values, Put(t, f, d),
           \A g \in Files : t[g] = tree[g] \/ tree[g] = d,
           \A c : \A g \in Doomed(commands', c) : g \in Doomed(commands, c) \/ c = d
    PROVE  AllSafe'
<1> SUFFICES ASSUME NEW c \in Contents, c \notin Excused' PROVE Safe(c)'
  BY DEF AllSafe
<1>1. Excused \subseteq Excused'
  BY DEF Put, Excused
<1>2. c # none /\ c # junk
  BY DEF ApiAssumption
<1>3. tree' = [t EXCEPT ![f] = d] /\ tree' \in [Files -> Values]
  BY DEF Put
<1>4. CASE d = c
  <2>1. f \notin Doomed(commands', c)
    BY <1>4 DEF Put, Excused
  <2> QED BY <1>3, <1>4, <2>1 DEF Safe
<1>5. CASE d # c
  <2>1. PICK w \in Files : tree[w] = c /\ w \notin Doomed(commands, c)
    BY <1>1 DEF AllSafe, Safe
  <2>2. w # f
    <3> SUFFICES ASSUME w = f PROVE FALSE
      OBVIOUS
    <3> c \in replaced'
      BY <1>2, <1>5, <2>1 DEF Put
    <3> QED BY DEF Excused
  <2>3. t[w] = c
    BY <1>5, <2>1
  <2>4. tree'[w] = c
    BY <1>3, <2>2, <2>3
  <2>5. w \notin Doomed(commands', c)
    BY <1>5, <2>1
  <2> QED BY <2>4, <2>5 DEF Safe
<1> QED BY <1>4, <1>5

\* Deleting f, which only what is excused or doomed there can be gone with.
LEMMA DeleteSafe ==
    ASSUME ApiTypeOK, AllSafe, NEW k \in DOMAIN commands, NEW r \in Tasks,
           commands' = [commands EXCEPT ![k] = r], r.phase # "remove",
           NEW f \in Files, tree' = [tree EXCEPT ![f] = none],
           Excused \subseteq Excused',
           \A c \in Contents : tree[f] = c => c \in Excused' \/ f \in Doomed(commands, c)
    PROVE  AllSafe'
<1> SUFFICES ASSUME NEW c \in Contents, c \notin Excused' PROVE Safe(c)'
  BY DEF AllSafe
<1>1. PICK w \in Files : tree[w] = c /\ w \notin Doomed(commands, c)
  BY DEF AllSafe, Safe
<1>2. w # f
  BY <1>1
<1>3. tree'[w] = c
  BY <1>1, <1>2 DEF ApiTypeOK
<1>4. w \notin Doomed(commands', c)
  BY <1>1, DoomedByOne
<1> QED BY <1>3, <1>4 DEF Safe

\* The steps of the clients.
LEMMA SentSafe ==
    ASSUME ApiTypeOK, AllSafe, NEW c \in Clients, NEW s \in Panels, NEW kind, NEW paths,
           NEW name, NEW data, Send(c, kind, s, paths, name, data)
    PROVE  AllSafe'
<1> DEFINE r == [kind |-> kind, side |-> s, paths |-> paths, name |-> name, data |-> data,
                 meant |-> seen[c], phase |-> "sent",
                 from |-> seen[c][s][1], to |-> seen[c][Other(s)],
                 cancelled |-> FALSE, astray |-> FALSE, touched |-> {}]
<1>1. commands \in Seq(Tasks \union {r}) /\ r \in Tasks \union {r}
  BY DEF ApiTypeOK, Tasks
<1>2. commands' = Append(commands, r)
  BY DEF Send
<1>3. /\ DOMAIN commands' = DOMAIN commands \union {Len(commands) + 1}
      /\ commands'[Len(commands) + 1] = r
      /\ \A j \in DOMAIN commands : commands'[j] = commands[j]
  BY <1>1, <1>2, OneMore
<1>4. r.phase # "remove"
  OBVIOUS
<1> HIDE DEF r
<1>5. \A d : Doomed(commands', d) \subseteq Doomed(commands, d)
  <2> SUFFICES ASSUME NEW d, NEW f \in Doomed(commands', d) PROVE f \in Doomed(commands, d)
    OBVIOUS
  <2>1. PICK j \in DOMAIN commands' :
           commands'[j].phase = "remove" /\ commands'[j].data = d /\ f = Current(commands'[j])
    BY DEF Doomed
  <2>2. j \in DOMAIN commands /\ commands'[j] = commands[j]
    BY <1>3, <1>4, <2>1
  <2> QED BY <2>1, <2>2 DEF Doomed
<1> QED BY <1>5 DEF AllSafe, Excused, Safe, Send, losses

\* What a client does loses nothing.
LEMMA ClientSafe ==
    ASSUME ApiTypeOK, AllSafe, NEW c \in Clients, NEW s \in Panels, Client(c, s)
    PROVE  AllSafe'
<1>1. CASE Hear(c, s)
  BY <1>1 DEF Hear, AllSafe, Excused, Safe, losses
<1>2. CASE SendPaths(c, s)
  BY <1>2, SentSafe DEF SendPaths
<1>3. CASE SendRename(c, s)
  BY <1>3, SentSafe DEF SendRename
<1>4. CASE SendFile(c, s)
  BY <1>4, SentSafe DEF SendFile
<1> QED BY <1>1, <1>2, <1>3, <1>4 DEF Client

\* A cancellation loses nothing.
LEMMA CancelSafe ==
    ASSUME ApiTypeOK, AllSafe, NEW k \in DOMAIN commands, Cancel(k)
    PROVE  AllSafe'
<1> DEFINE r == [commands[k] EXCEPT !.cancelled = TRUE]
<1>1. commands[k] \in Underway
  BY AtWork DEF Cancel, ApiTypeOK, Tasks
<1>2. r \in Tasks
  BY <1>1 DEF Underway, Tasks
<1>3. r.phase = commands[k].phase /\ r.data = commands[k].data /\ Current(r) = Current(commands[k])
  BY <1>1 DEF Underway, Current
<1>4. commands' = [commands EXCEPT ![k] = r]
  BY DEF Cancel
<1> HIDE DEF r
<1>5. \A c : Doomed(commands', c) \subseteq Doomed(commands, c)
  <2> SUFFICES ASSUME NEW c, NEW f \in Doomed(commands', c), f \notin Doomed(commands, c)
               PROVE FALSE
    OBVIOUS
  <2>1. r.phase = "remove" /\ r.data = c /\ f = Current(r)
    BY <1>2, <1>4, DoomedByOne
  <2> QED BY <1>3, <2>1 DEF Doomed
<1> QED BY <1>5 DEF AllSafe, Excused, Safe, Cancel, losses

\* Handling a command loses nothing.
LEMMA HandleSafe ==
    ASSUME ApiTypeOK, ApiTypeOK', AllSafe, NEW k \in DOMAIN commands, Handle(k)
    PROVE  AllSafe'
<1>1. commands[k] \in Underway
  BY AtWork DEF Handle, ApiTypeOK, Tasks
<1> DEFINE s == commands[k].side
           h == [commands[k] EXCEPT !.phase = "items",
                     !.from = stand[s][1],
                     !.to = IF commands[k].kind \in Transfers THEN stand[Other(s)]
                            ELSE <<stand[s][1], Head(commands[k].paths)[1]>>,
                     !.astray = \/ stand[s] # commands[k].meant[s]
                                \/ /\ commands[k].kind \in Transfers
                                   /\ stand[Other(s)] # commands[k].meant[Other(s)]]
<1>2. PICK r : commands' = [commands EXCEPT ![k] = r] /\ r.phase = "items"
  <2>1. commands' = [commands EXCEPT ![k] = h]
    BY DEF Handle
  <2>2. h.phase = "items"
    BY <1>1 DEF Underway
  <2> HIDE DEF h
  <2> QED BY <2>1, <2>2
<1>3. r \in Tasks
  <2>1. commands'[k] = r /\ k \in DOMAIN commands'
    BY <1>2
  <2> QED BY <2>1 DEF ApiTypeOK, Tasks
<1> QED BY <1>2, <1>3, StaysSafe DEF Handle

\* The steps of the tasks.
LEMMA TransferSafe ==
    ASSUME ApiTypeOK, ApiTypeOK', ApiAssumption, AllSafe, NEW k \in DOMAIN commands,
           Transfer(k)
    PROVE  AllSafe'
<1> DEFINE r == commands[k]
<1>1. r \in Underway
  BY AtWork DEF Transfer, Stop, Read, ReadFails, Write, WriteFails, Remove, RemoveFails,
                Working, ApiTypeOK, Tasks
<1>2. /\ Ended(r) \in Tasks /\ Onward(r) \in Tasks
      /\ Empties(r) \in Underway /\ Onward(Empties(r)) \in Tasks
      /\ Fills(r) \in Underway /\ Onward(Fills(r)) \in Tasks
  BY <1>1, Ending DEF Tasks
<1>3. /\ Ended(r).phase # "remove" /\ Onward(r).phase # "remove"
      /\ Onward(Empties(r)).phase # "remove" /\ Onward(Fills(r)).phase # "remove"
  BY <1>1, <1>2, Ending DEF Ended
<1>4. Current(r) \in Files /\ Target(r) \in Files
  BY <1>1, FilesOfTask
<1>5. tree \in [Files -> Values] /\ r.data \in Values /\ {none, junk} \subseteq Values
  BY <1>1 DEF ApiTypeOK, Underway, Values
<1>6. CASE Stop(k)
  BY <1>2, <1>3, <1>6, StaysSafe DEF Stop, Becomes
<1>7. CASE Read(k)
  <2>1. PICK d : Becomes(k, [r EXCEPT !.phase = "write", !.data = d])
    BY <1>7 DEF Read
  <2> DEFINE n == [r EXCEPT !.phase = "write", !.data = d]
  <2>2. n.phase # "remove"
    BY <1>1 DEF Underway
  <2>3. commands' = [commands EXCEPT ![k] = n]
    BY <2>1 DEF Becomes
  <2> HIDE DEF n
  <2>4. n \in Tasks
    <3>1. commands'[k] = n /\ k \in DOMAIN commands'
      BY <2>3
    <3> QED BY <3>1 DEF ApiTypeOK, Tasks
  <2> QED BY <1>7, <2>2, <2>3, <2>4, StaysSafe DEF Read
<1>8. CASE ReadFails(k)
  BY <1>2, <1>3, <1>8, StaysSafe DEF ReadFails, Becomes
<1>9. CASE Write(k)
  <2> DEFINE n == IF r.kind = "move" THEN [Fills(r) EXCEPT !.phase = "remove"]
                  ELSE Onward(Fills(r))
  <2>1. n \in Tasks
    <3>1. [Fills(r) EXCEPT !.phase = "remove"] \in Tasks
      BY <1>2 DEF Underway, Tasks
    <3> QED BY <1>2, <3>1
  <2>2. n.phase = "remove" => n.data = r.data
    BY <1>1, <1>3 DEF Underway, Fills, Touch
  <2>3. commands' = [commands EXCEPT ![k] = n]
    BY <1>9 DEF Write, Becomes
  <2> HIDE DEF n
  <2>4. \A c : \A g \in Doomed(commands', c) : g \in Doomed(commands, c) \/ c = r.data
    BY <2>1, <2>2, <2>3, DoomedByOne
  <2> QED BY <1>4, <1>5, <1>9, <2>4, PutSafe DEF Write
<1>10. CASE WriteFails(k)
  <2>1. commands' = [commands EXCEPT ![k] = Onward(Fills(r))]
    BY <1>10 DEF WriteFails, Becomes
  <2>2. CASE UNCHANGED <<tree, losses>>
    BY <1>2, <1>3, <2>1, <2>2, StaysSafe
  <2>3. CASE Put(tree, Target(r), junk)
    <3>1. \A c : \A g \in Doomed(commands', c) : g \in Doomed(commands, c) \/ c = junk
      BY <1>2, <1>3, <2>1, DoomedByOne
    <3> QED BY <1>4, <1>5, <2>3, <3>1, PutSafe
  <2> QED BY <1>10, <2>2, <2>3 DEF WriteFails
<1>11. CASE Remove(k)
  <2>1. commands' = [commands EXCEPT ![k] = Onward(Empties(r))]
    BY <1>11 DEF Remove, Becomes
  <2>2. Excused \subseteq Excused'
    BY <1>11 DEF Remove, Excused
  <2>3. \A c \in Contents :
           tree[Current(r)] = c => c \in Excused' \/ Current(r) \in Doomed(commands, c)
    BY <1>11 DEF Remove, Working, Excused, Doomed, ApiAssumption
  <2> QED BY <1>2, <1>3, <1>4, <1>11, <2>1, <2>2, <2>3, DeleteSafe DEF Remove
<1>12. CASE RemoveFails(k)
  BY <1>2, <1>3, <1>12, StaysSafe DEF RemoveFails, Becomes
<1> QED BY <1>6, <1>7, <1>8, <1>9, <1>10, <1>11, <1>12 DEF Transfer

\* A deletion, a rename or a write loses nothing without an excuse.
LEMMA EditSafe ==
    ASSUME ApiTypeOK, ApiAssumption, AllSafe, NEW k \in DOMAIN commands, Edit(k)
    PROVE  AllSafe'
<1> DEFINE r == commands[k]
<1>1. r \in Underway
  BY AtWork DEF Edit, Delete, DeleteFails, Rename, Save, EditFails, Working, ApiTypeOK, Tasks
<1>2. /\ Ended(r) \in Tasks
      /\ Empties(r) \in Underway /\ Onward(Empties(r)) \in Tasks /\ Ended(Empties(r)) \in Tasks
      /\ Fills(r) \in Underway /\ Ended(Fills(r)) \in Tasks
  BY <1>1, Ending DEF Tasks
<1>3. /\ Ended(r).phase # "remove" /\ Onward(Empties(r)).phase # "remove"
      /\ Ended(Empties(r)).phase # "remove" /\ Ended(Fills(r)).phase # "remove"
  BY <1>2, Ending DEF Ended
<1>4. Current(r) \in Files /\ Target(r) \in Files
  BY <1>1, FilesOfTask
<1>5. tree \in [Files -> Values] /\ r.data \in Values /\ {none, junk} \subseteq Values
  BY <1>1 DEF ApiTypeOK, Underway, Values
<1>6. CASE Delete(k)
  <2>1. commands' = [commands EXCEPT ![k] = Onward(Empties(r))]
    BY <1>6 DEF Delete, Becomes
  <2>2. Excused \subseteq Excused'
    BY <1>6 DEF Delete, Excused
  <2>3. \A c \in Contents : tree[Current(r)] = c => c \in Excused'
    BY <1>6 DEF Delete, Excused, ApiAssumption
  <2> QED BY <1>2, <1>3, <1>4, <1>6, <2>1, <2>2, <2>3, DeleteSafe DEF Delete
<1>7. CASE DeleteFails(k)
  BY <1>2, <1>3, <1>7, StaysSafe DEF DeleteFails, Becomes
<1>8. CASE Rename(k)
  <2> DEFINE t == [tree EXCEPT ![Current(r)] = none]
             d == tree[Current(r)]
  <2>1. t \in [Files -> Values] /\ d \in Values
    BY <1>4, <1>5
  <2>2. \A g \in Files : t[g] = tree[g] \/ tree[g] = d
    BY <1>4, <1>5
  <2>3. commands' = [commands EXCEPT ![k] = Ended(Empties(r))]
    BY <1>8 DEF Rename, Becomes
  <2>4. \A c : \A g \in Doomed(commands', c) : g \in Doomed(commands, c) \/ c = d
    BY <1>2, <1>3, <2>3, DoomedByOne
  <2>5. Put(t, Target(r), d)
    BY <1>8 DEF Rename
  <2> HIDE DEF t, d
  <2> QED BY <1>4, <2>1, <2>2, <2>4, <2>5, PutSafe
<1>9. CASE Save(k)
  <2>1. commands' = [commands EXCEPT ![k] = Ended(Fills(r))]
    BY <1>9 DEF Save, Becomes
  <2>2. \A c : \A g \in Doomed(commands', c) : g \in Doomed(commands, c) \/ c = r.data
    BY <1>2, <1>3, <2>1, DoomedByOne
  <2> QED BY <1>4, <1>5, <1>9, <2>2, PutSafe DEF Save
<1>10. CASE EditFails(k)
  <2>1. commands' = [commands EXCEPT ![k] = Ended(Fills(r))]
    BY <1>10 DEF EditFails, Becomes
  <2>2. CASE UNCHANGED <<tree, losses>>
    BY <1>2, <1>3, <2>1, <2>2, StaysSafe
  <2>3. CASE Put(tree, Target(r), junk)
    <3>1. \A c : \A g \in Doomed(commands', c) : g \in Doomed(commands, c) \/ c = junk
      BY <1>2, <1>3, <2>1, DoomedByOne
    <3> QED BY <1>4, <1>5, <2>3, <3>1, PutSafe
  <2> QED BY <1>10, <2>2, <2>3 DEF EditFails
<1> QED BY <1>6, <1>7, <1>8, <1>9, <1>10 DEF Edit

\* At the start every content stands somewhere.
LEMMA SafeStart == ApiAssumption /\ ApiInit => AllSafe
BY DEF ApiAssumption, ApiInit, AllSafe, Safe, Doomed

\* No step loses one without an excuse.
LEMMA SafeStep ==
    ApiAssumption /\ ApiTypeOK /\ ApiTypeOK' /\ AllSafe /\ [ApiNext]_apiVars => AllSafe'
<1> SUFFICES ASSUME ApiAssumption, ApiTypeOK, ApiTypeOK', AllSafe, [ApiNext]_apiVars
             PROVE AllSafe'
  OBVIOUS
<1>1. CASE UNCHANGED apiVars
  BY <1>1 DEF apiVars, losses, AllSafe, Excused, Safe
<1>2. CASE \E s \in Panels, p \in Stands : Navigate(s, p)
  BY <1>2 DEF Navigate, losses, AllSafe, Excused, Safe
<1>3. CASE ApiNext
  BY <1>2, <1>3, ClientSafe, CancelSafe, HandleSafe, TransferSafe, EditSafe DEF ApiNext
<1> QED BY <1>1, <1>3

\* Whatever the tasks of any number of commands do between one another's steps, a
\* content goes only for one of the four reasons.
THEOREM NoContentLost == ApiSpec => []NothingLost
<1>1. ApiTypeOK /\ AllSafe => NothingLost
  BY DEF AllSafe, Safe, Excused, NothingLost
<1> QED BY <1>1, ApiAssumption, ApiTypesStart, ApiTypesStep, SafeStart, SafeStep, PTL
        DEF ApiSpec

-------------------------------------------------------------------------------
(* Commands stay where they were meant to work.                              *)

\* The paths of a command are of the folder its client showed; once handled, and unless
\* a panel had moved by then, it reads and writes in the folders that were meant.
Aimed(r) ==
    r.phase # "done" =>
        /\ \A i \in DOMAIN r.paths : r.paths[i][1] = r.meant[r.side][2]
        /\ r.phase = "sent" => ~r.astray
        /\ ~r.astray /\ r.phase # "sent" =>
               /\ r.from = r.meant[r.side][1]
               /\ IF r.kind \in Transfers THEN r.to = r.meant[Other(r.side)]
                  ELSE r.to = r.meant[r.side]
InPlace(r) == ~r.astray => \A t \in r.touched : t[2] = r.meant[t[1]]
Straight(r) == Aimed(r) /\ InPlace(r)
AllStraight == \A k \in DOMAIN commands : Straight(commands[k])

\* A command that goes on, or ends, stays where it is.
LEMMA StraightOnward ==
    ASSUME NEW r \in Underway, Straight(r), r.phase # "sent"
    PROVE  Straight(Ended(r)) /\ Straight(Onward(r))
<1>1. Straight(Ended(r))
  BY DEF Straight, Aimed, InPlace, Ended
<1>2. CASE Tail(r.paths) # <<>>
  <2> DEFINE n == [r EXCEPT !.phase = "items", !.paths = Tail(@), !.data = none]
  <2>1. r.paths \in Seq(Paths) /\ r.paths # <<>>
    BY DEF Underway
  <2>2. \A i \in DOMAIN Tail(r.paths) :
           Tail(r.paths)[i] = r.paths[i + 1] /\ i + 1 \in DOMAIN r.paths
    BY <2>1
  <2>3. \A i \in DOMAIN Tail(r.paths) : Tail(r.paths)[i][1] = r.meant[r.side][2]
    BY <2>2 DEF Straight, Aimed, Underway
  <2>4. /\ n.phase = "items" /\ n.paths = Tail(r.paths) /\ n.meant = r.meant
        /\ n.side = r.side /\ n.from = r.from /\ n.to = r.to /\ n.kind = r.kind
        /\ n.astray = r.astray /\ n.touched = r.touched
    BY DEF Underway
  <2>5. Onward(r) = n
    BY <1>2 DEF Onward
  <2> HIDE DEF n
  <2>6. Straight(n)
    BY <2>3, <2>4 DEF Straight, Aimed, InPlace, Underway
  <2> QED BY <1>1, <2>5, <2>6
<1> QED BY <1>1, <1>2 DEF Onward

\* What a handled command touches is where it should be.
LEMMA StraightTouch ==
    ASSUME NEW r \in Underway, Straight(r), r.phase # "sent"
    PROVE  Straight(Empties(r)) /\ Straight(Fills(r))
<1>1. r.side \in Panels /\ Other(r.side) \in Panels
  BY PanelsTwo DEF Underway
<1>2. r.meant[r.side] \in Stands /\ r.meant[Other(r.side)] \in Stands
  BY <1>1 DEF Underway
<1>3. Head(r.paths) = r.paths[1] /\ 1 \in DOMAIN r.paths
  BY DEF Underway
<1>4. ~r.astray => Stand(Current(r)) = r.meant[r.side]
  BY <1>2, <1>3 DEF Straight, Aimed, Underway, Stand, Current, Stands
<1>5. ~r.astray => Stand(Target(r)) =
                     IF r.kind \in Transfers THEN r.meant[Other(r.side)] ELSE r.meant[r.side]
  BY <1>2, <1>3 DEF Straight, Aimed, Underway, Stand, Target, Stands, Transfers
<1>6. ASSUME NEW s \in Panels, NEW f \in Files, ~r.astray => Stand(f) = r.meant[s]
      PROVE  Straight(Touch(r, s, f))
  <2> DEFINE n == [r EXCEPT !.touched = r.touched \union {<<s, Stand(f)>>}]
  <2>1. Touch(r, s, f) = n
    BY <1>6, Touching
  <2>2. /\ n.phase = r.phase /\ n.paths = r.paths /\ n.meant = r.meant
        /\ n.side = r.side /\ n.from = r.from /\ n.to = r.to /\ n.kind = r.kind
        /\ n.astray = r.astray /\ n.touched = r.touched \union {<<s, Stand(f)>>}
    BY DEF Underway
  <2> HIDE DEF n
  <2>3. Straight(n)
    BY <1>6, <2>2 DEF Straight, Aimed, InPlace
  <2> QED BY <2>1, <2>3
<1>7. Current(r) \in Files /\ Target(r) \in Files
  BY FilesOfTask
<1> QED BY <1>1, <1>4, <1>5, <1>6, <1>7 DEF Empties, Fills

\* One command that stays in place leaves the others there.
LEMMA StraightReplaced ==
    ASSUME ApiTypeOK, AllStraight, NEW k \in DOMAIN commands, NEW r \in Tasks, Straight(r),
           commands' = [commands EXCEPT ![k] = r]
    PROVE  AllStraight'
<1>1. /\ DOMAIN commands' = DOMAIN commands /\ commands'[k] = r
      /\ \A j \in DOMAIN commands \ {k} : commands'[j] = commands[j]
  BY OneReplaced DEF ApiTypeOK, Tasks
<1> QED BY <1>1 DEF AllStraight

\* What is sent is aimed at the folder that the client shows.
LEMMA SentStraight ==
    ASSUME ApiTypeOK, AllStraight, NEW c \in Clients, NEW s \in Panels, NEW kind,
           NEW paths \in Seq(Paths), NEW name, NEW data,
           Send(c, kind, s, paths, name, data),
           \A i \in DOMAIN paths : paths[i][1] = seen[c][s][2]
    PROVE  AllStraight'
<1> DEFINE r == [kind |-> kind, side |-> s, paths |-> paths, name |-> name, data |-> data,
                 meant |-> seen[c], phase |-> "sent",
                 from |-> seen[c][s][1], to |-> seen[c][Other(s)],
                 cancelled |-> FALSE, astray |-> FALSE, touched |-> {}]
<1>1. commands \in Seq(Tasks \union {r}) /\ r \in Tasks \union {r}
  BY DEF ApiTypeOK, Tasks
<1>2. commands' = Append(commands, r)
  BY DEF Send
<1>3. /\ DOMAIN commands' = DOMAIN commands \union {Len(commands) + 1}
      /\ commands'[Len(commands) + 1] = r
      /\ \A j \in DOMAIN commands : commands'[j] = commands[j]
  BY <1>1, <1>2, OneMore
<1>4. Straight(r)
  BY DEF Straight, Aimed, InPlace
<1> HIDE DEF r
<1> QED BY <1>3, <1>4 DEF AllStraight

\* A client sends commands for the folders it shows.
LEMMA ClientStraight ==
    ASSUME ApiTypeOK, AllStraight, NEW c \in Clients, NEW s \in Panels, Client(c, s)
    PROVE  AllStraight'
<1>1. seen[c][s] \in Stands
  BY DEF ApiTypeOK
<1>2. CASE Hear(c, s)
  BY <1>2 DEF Hear, AllStraight
<1>3. CASE SendPaths(c, s)
  <2>1. PICK kind \in Transfers \union {"delete"}, q \in Selections(seen[c][s]) :
           Send(c, kind, s, q, Head(q)[2], none)
    BY <1>3 DEF SendPaths
  <2>2. q \in Seq(Paths)
    BY <1>1, <2>1, Selected
  <2>3. \A i \in DOMAIN q : q[i][1] = seen[c][s][2]
    BY <2>1 DEF Selections
  <2> QED BY <2>1, <2>2, <2>3, SentStraight
<1>4. CASE SendRename(c, s)
  <2>1. PICK n \in Listed(seen[c][s]), m \in Names :
           Send(c, "rename", s, << <<seen[c][s][2], n>> >>, m, none)
    BY <1>4 DEF SendRename
  <2>2. <<seen[c][s][2], n>> \in Paths
    BY <1>1, <2>1 DEF Listed, Stands, Paths
  <2> QED BY <2>1, <2>2, SentStraight
<1>5. CASE SendFile(c, s)
  <2>1. PICK n \in Names, d \in Drafts :
           Send(c, "write", s, << <<seen[c][s][2], n>> >>, n, d)
    BY <1>5 DEF SendFile
  <2>2. <<seen[c][s][2], n>> \in Paths
    BY <1>1, <2>1 DEF Stands, Paths
  <2> QED BY <2>1, <2>2, SentStraight
<1> QED BY <1>2, <1>3, <1>4, <1>5 DEF Client

\* A cancellation moves no command.
LEMMA CancelStraight ==
    ASSUME ApiTypeOK, AllStraight, NEW k \in DOMAIN commands, Cancel(k)
    PROVE  AllStraight'
<1> DEFINE r == commands[k]
           n == [r EXCEPT !.cancelled = TRUE]
<1>1. r \in Underway
  BY AtWork DEF Cancel, ApiTypeOK, Tasks
<1>2. n \in Tasks
  BY <1>1 DEF Underway, Tasks
<1>3. /\ n.phase = r.phase /\ n.paths = r.paths /\ n.meant = r.meant
      /\ n.side = r.side /\ n.from = r.from /\ n.to = r.to /\ n.kind = r.kind
      /\ n.astray = r.astray /\ n.touched = r.touched
  BY <1>1 DEF Underway
<1>4. commands' = [commands EXCEPT ![k] = n]
  BY DEF Cancel
<1>5. Straight(r)
  BY DEF AllStraight
<1> HIDE DEF n
<1>6. Straight(n)
  BY <1>3, <1>5 DEF Straight, Aimed, InPlace
<1> QED BY <1>2, <1>4, <1>6, StraightReplaced

\* Handled, with the panels where the client showed them, it is aimed at those.
LEMMA HandleStraight ==
    ASSUME ApiTypeOK, AllStraight, NEW k \in DOMAIN commands, Handle(k)
    PROVE  AllStraight'
<1> DEFINE r == commands[k]
           s == r.side
           o == Other(s)
           h == [r EXCEPT !.phase = "items",
                     !.from = stand[s][1],
                     !.to = IF r.kind \in Transfers THEN stand[o]
                            ELSE <<stand[s][1], Head(r.paths)[1]>>,
                     !.astray = \/ stand[s] # r.meant[s]
                                \/ r.kind \in Transfers /\ stand[o] # r.meant[o]]
<1>1. r \in Underway /\ r.phase = "sent"
  BY AtWork DEF Handle, ApiTypeOK, Tasks
<1>2. s \in Panels /\ o \in Panels
  BY <1>1, PanelsTwo DEF Underway
<1>3. Straight(r)
  BY DEF AllStraight
<1>4. commands' = [commands EXCEPT ![k] = h]
  BY DEF Handle
<1>5. /\ h.phase = "items" /\ h.paths = r.paths /\ h.meant = r.meant
      /\ h.side = s /\ h.from = stand[s][1] /\ h.kind = r.kind /\ h.touched = r.touched
      /\ h.to = (IF r.kind \in Transfers THEN stand[o]
                 ELSE <<stand[s][1], Head(r.paths)[1]>>)
      /\ h.astray <=> \/ stand[s] # r.meant[s]
                      \/ r.kind \in Transfers /\ stand[o] # r.meant[o]
  BY <1>1 DEF Underway
<1>6. Head(r.paths) = r.paths[1] /\ 1 \in DOMAIN r.paths
  BY <1>1 DEF Underway
<1>7. stand[s] \in Stands
  BY <1>2 DEF ApiTypeOK
<1>8. <<stand[s][1], stand[s][2]>> = stand[s]
  BY <1>7 DEF Stands
<1>9. ApiTypeOK'
  BY HandleTyped
<1> HIDE DEF h
<1>10. h \in Tasks
  <2>1. DOMAIN commands' = DOMAIN commands /\ commands'[k] = h
    BY <1>4
  <2> QED BY <1>9, <2>1 DEF ApiTypeOK, Tasks
<1>11. Aimed(h)
  BY <1>1, <1>3, <1>5, <1>6, <1>8 DEF Straight, Aimed
<1>12. InPlace(h)
  BY <1>1, <1>3, <1>5 DEF Straight, Aimed, InPlace
<1> QED BY <1>4, <1>10, <1>11, <1>12, StraightReplaced DEF Straight

\* The steps of the tasks.
LEMMA TaskStraight ==
    ASSUME ApiTypeOK, ApiTypeOK', AllStraight, NEW k \in DOMAIN commands,
           Transfer(k) \/ Edit(k)
    PROVE  AllStraight'
<1> DEFINE r == commands[k]
<1>1. r \in Underway /\ r.phase # "sent"
  BY AtWork DEF Transfer, Stop, Read, ReadFails, Write, WriteFails, Remove, RemoveFails,
                Edit, Delete, DeleteFails, Rename, Save, EditFails, Working, ApiTypeOK, Tasks
<1>2. Straight(r)
  BY DEF AllStraight
<1>3. PICK n : commands' = [commands EXCEPT ![k] = n] /\
         \/ n \in {Ended(r), Onward(r), Onward(Empties(r)), Onward(Fills(r)),
                   Ended(Empties(r)), Ended(Fills(r))}
         \/ n = [Fills(r) EXCEPT !.phase = "remove"]
         \/ \E d : n = [r EXCEPT !.phase = "write", !.data = d]
  <2>1. CASE Read(k)
    BY <2>1 DEF Read, Becomes
  <2>2. CASE Write(k)
    BY <2>2 DEF Write, Becomes
  <2>3. CASE Stop(k) \/ ReadFails(k) \/ WriteFails(k) \/ Remove(k) \/ RemoveFails(k)
    BY <2>3 DEF Stop, ReadFails, WriteFails, Remove, RemoveFails, Becomes
  <2>4. CASE Edit(k)
    BY <2>4 DEF Edit, Delete, DeleteFails, Rename, Save, EditFails, Becomes
  <2> QED BY <2>1, <2>2, <2>3, <2>4 DEF Transfer
<1>4. n \in Tasks
  <2>1. commands'[k] = n /\ k \in DOMAIN commands'
    BY <1>3
  <2> QED BY <2>1 DEF ApiTypeOK, Tasks
<1>5. /\ Empties(r) \in Underway /\ Straight(Empties(r)) /\ Empties(r).phase # "sent"
      /\ Fills(r) \in Underway /\ Straight(Fills(r)) /\ Fills(r).phase # "sent"
  <2>1. Empties(r).phase = r.phase /\ Fills(r).phase = r.phase
    BY <1>1 DEF Empties, Fills, Touch, Underway
  <2> QED BY <1>1, <1>2, <2>1, Ending, StraightTouch
<1>6. CASE n \in {Ended(r), Onward(r), Onward(Empties(r)), Onward(Fills(r)),
                  Ended(Empties(r)), Ended(Fills(r))}
  <2>1. Straight(n)
    BY <1>1, <1>2, <1>5, <1>6, StraightOnward
  <2> QED BY <1>3, <1>4, <2>1, StraightReplaced
<1>7. ASSUME NEW q \in Underway, Straight(q), q.phase # "sent", NEW d,
             n = [q EXCEPT !.phase = "remove"] \/ n = [q EXCEPT !.phase = "write", !.data = d]
      PROVE  AllStraight'
  <2>1. /\ n.phase \notin {"sent", "done"} /\ n.paths = q.paths /\ n.meant = q.meant
        /\ n.side = q.side /\ n.from = q.from /\ n.to = q.to /\ n.kind = q.kind
        /\ n.astray = q.astray /\ n.touched = q.touched
    BY <1>7 DEF Underway
  <2>2. q.phase # "done"
    BY <1>7 DEF Underway
  <2>3. Straight(n)
    BY <1>7, <2>1, <2>2 DEF Straight, Aimed, InPlace
  <2> QED BY <1>3, <1>4, <2>3, StraightReplaced
<1> QED BY <1>1, <1>2, <1>3, <1>5, <1>6, <1>7

\* At the start there is no command.
LEMMA StraightStart == ApiInit => AllStraight
BY DEF ApiInit, AllStraight

\* Every step leaves the commands in place.
LEMMA StraightStep ==
    ApiTypeOK /\ ApiTypeOK' /\ AllStraight /\ [ApiNext]_apiVars => AllStraight'
<1> SUFFICES ASSUME ApiTypeOK, ApiTypeOK', AllStraight, [ApiNext]_apiVars
             PROVE AllStraight'
  OBVIOUS
<1>1. CASE UNCHANGED apiVars
  BY <1>1 DEF apiVars, AllStraight
<1>2. CASE \E s \in Panels, p \in Stands : Navigate(s, p)
  BY <1>2 DEF Navigate, AllStraight
<1>3. CASE ApiNext
  BY <1>2, <1>3, ClientStraight, CancelStraight, HandleStraight, TaskStraight DEF ApiNext
<1> QED BY <1>1, <1>3

\* A command works in the folders its client showed, unless a panel had left them when
\* it was handled, for any number of clients, panels' moves and commands.
THEOREM CommandsInPlace == ApiSpec => []NotAstray
<1>1. AllStraight => NotAstray
  BY DEF AllStraight, Straight, InPlace, NotAstray
<1> QED BY <1>1, ApiAssumption, ApiTypesStart, ApiTypesStep, StraightStart, StraightStep, PTL
        DEF ApiSpec

-------------------------------------------------------------------------------
(* The configuration.                                                        *)

Saving == {"open", "fill", "rename"}
Doing == [step : {"idle", "read", "save"} \union Saving, read : SUBSET (0..Made),
          change : 0..Made, saves : Int, fd : Nat]

ConfTypes ==
    /\ disk \in Seq([state : {"empty", "torn", "whole"}, has : SUBSET (0..Made)])
    /\ file \in 0..Len(disk) /\ temp \in 0..Len(disk)
    /\ store \in [Programs -> SUBSET (0..Made)]
    /\ running \subseteq Programs
    /\ lock \in [Programs -> Threads \union {free}]
    /\ thread \in [Programs -> [Threads -> Doing]]
    /\ author \in Seq([program : Programs, thread : Threads])
    /\ saved \subseteq 0..Made /\ undone \subseteq 0..Made
    /\ clash \in BOOLEAN
    /\ Made <= MaxChanges /\ failures \in 0..MaxFailures

\* The mutex of a program is held by the thread that saves, and by nobody else.
Locked ==
    \A p \in Programs, t \in Threads : thread[p][t].step \in Saving <=> lock[p] = t

Stopped ==
    \A p \in Programs \ running :
        store[p] = {} /\ lock[p] = free /\ \A t \in Threads : thread[p][t].step = "idle"

\* What is about to be saved is in memory; what was read to be changed is what is there,
\* and the change to it is the program's own.
Pending ==
    \A p \in Programs, t \in Threads :
        thread[p][t].step \in Saving \union {"save"} => thread[p][t].change \in store[p]
ReadFresh ==
    \A p \in Programs :
        thread[p]["window"].step = "read" =>
            /\ thread[p]["window"].read = {c \in store[p] : By(c).thread = "window"}
            /\ By(thread[p]["window"].change).program = p

InMemory == ConfTypes /\ Locked /\ Stopped /\ Pending /\ ReadFresh

\* Unless two programs have saved at once, one writes at a time, to the temporary file,
\* which has another name than the one that a start reads.
OneWriter == \A p \in Programs, q \in Programs : Writing(p) /\ Writing(q) => p = q
Filed == file # 0 => disk[file].state = "whole" /\ file # temp
Filling ==
    \A p \in Programs, t \in Threads :
        /\ thread[p][t].step \in {"fill", "rename"} => thread[p][t].fd = temp /\ temp # 0
        /\ thread[p][t].step = "fill" => disk[temp].state = "empty"
        /\ thread[p][t].step = "rename" => disk[temp] = Content("whole", store[p])

\* A program has its own saved changes in memory, and those of the others it found when
\* it started: unless somebody has saved over them.
Own ==
    \A p \in running : \A c \in Held : By(c).program = p => c \in store[p] \union undone
Foreign ==
    \A p \in Programs : \A c \in store[p] : By(c).program # p => c \in Held \union undone
SavedKept == saved \subseteq Held \union undone \union unsaved

Orderly == OneWriter /\ Filed /\ Filling /\ Own /\ Foreign /\ SavedKept

ConfInv == InMemory /\ (clash \/ Orderly)

\* The elements of a list.
LEMMA Elements == ASSUME NEW S, NEW q \in Seq(S), NEW i \in DOMAIN q PROVE q[i] \in S
OBVIOUS

\* A list of fewer values is one of more.
LEMMA MoreValues == ASSUME NEW S, NEW T, S \subseteq T, NEW q \in Seq(S) PROVE q \in Seq(T)
OBVIOUS

\* What a start reads was made.
LEMMA HeldTyped == ASSUME ConfTypes, ConfigAssumption PROVE Held \subseteq 0..Made
<1>1. Made \in Nat
  BY DEF ConfTypes, Made
<1>2. CASE file = 0
  BY <1>1, <1>2 DEF Held, ConfigAssumption
<1>3. CASE file # 0
  <2>1. file \in DOMAIN disk
    BY <1>3 DEF ConfTypes
  <2>2. disk[file] \in [state : {"empty", "torn", "whole"}, has : SUBSET (0..Made)]
    BY <2>1, Elements DEF ConfTypes
  <2> QED BY <1>3, <2>2 DEF Held
<1> QED BY <1>2, <1>3

\* A new change has no effect on the others.
LEMMA ChangeMade ==
    ASSUME ConfTypes, NEW p \in Programs, NEW t \in Threads, NewChange(p, t)
    PROVE  /\ author' \in Seq([program : Programs, thread : Threads])
           /\ Made \in Nat /\ Made' = Made + 1 /\ Made' <= MaxChanges
           /\ \A c : c = Made + 1 => By(c)' = [program |-> p, thread |-> t]
           /\ \A c \in 0..Made : By(c)' = By(c)
<1> DEFINE r == [program |-> p, thread |-> t]
           S == [program : Programs, thread : Threads]
<1>1. author \in Seq(S) /\ r \in S /\ author' = Append(author, r)
  BY DEF ConfTypes, NewChange
<1> HIDE DEF r, S
<1>2. author' \in Seq(S) /\ Len(author') = Len(author) + 1 /\ Len(author) \in Nat
  BY <1>1
<1>3. author'[Len(author) + 1] = r /\ \A c \in 1..Len(author) : author'[c] = author[c]
  BY <1>1
<1>4. Len(author) < MaxChanges /\ MaxChanges \in Nat
  BY ConfigAssumption DEF NewChange, Made, ConfigAssumption
<1>5. \A c \in 0..Made : By(c)' = By(c)
  BY <1>2, <1>3 DEF By, Made
<1>6. ASSUME NEW c, c = Made + 1 PROVE By(c)' = r
  BY <1>2, <1>3, <1>6 DEF By, Made
<1> QED BY <1>2, <1>4, <1>5, <1>6 DEF Made, r, S

\* One more change leaves what is being done well typed.
LEMMA DoingGrows ==
    ASSUME Made \in Nat, Made' = Made + 1
    PROVE  0..Made \subseteq 0..Made' /\ Doing \subseteq Doing'
<1>1. 0..Made \subseteq 0..Made'
  OBVIOUS
<1> QED BY <1>1 DEF Doing

\* One thread of one program is replaced.
LEMMA OneThread ==
    ASSUME NEW D, NEW F \in [Programs -> [Threads -> D]], NEW p \in Programs, NEW t \in Threads,
           NEW w \in D
    PROVE  /\ [F EXCEPT ![p][t] = w] \in [Programs -> [Threads -> D]]
           /\ [F EXCEPT ![p][t] = w][p][t] = w
           /\ \A q \in Programs, u \in Threads :
                 q # p \/ u # t => [F EXCEPT ![p][t] = w][q][u] = F[q][u]
OBVIOUS

\* One element of a list is replaced.
LEMMA AnyReplaced ==
    ASSUME NEW S, NEW q \in Seq(S), NEW k, NEW r \in S
    PROVE  /\ [q EXCEPT ![k] = r] \in Seq(S)
           /\ Len([q EXCEPT ![k] = r]) = Len(q)
           /\ \A j \in DOMAIN q : j # k => [q EXCEPT ![k] = r][j] = q[j]
<1>1. CASE k \in DOMAIN q
  BY <1>1, OneReplaced
<1>2. CASE k \notin DOMAIN q
  <2>1. [q EXCEPT ![k] = r] = q
    BY <1>2
  <2> QED BY <2>1
<1> QED BY <1>1, <1>2

\* A call is one of the things a thread can do.
LEMMA CallTyped ==
    ASSUME NEW B, NEW C, NEW s \in {"idle", "read", "save"} \union Saving,
           NEW R \in B, NEW c \in C, NEW n \in Int
    PROVE  Call(s, R, c, n) \in [step : {"idle", "read", "save"} \union Saving, read : B, change : C,
                                saves : Int, fd : Nat]
BY DEF Call

\* Doing nothing is another.
LEMMA IdleTyped == ASSUME Made \in Nat PROVE Idle \in Doing /\ Idle.step = "idle"
BY DEF Idle, Call, Doing

\* Thread t of p goes on to n and neither reads nor changes what is in memory.
GoesOn(p, t, n) ==
    /\ thread' = [thread EXCEPT ![p][t] = n]
    /\ UNCHANGED <<store, running, author>>
    /\ n.step # "read"
    /\ n.step \in Saving \union {"save"} => n.change \in store[p]
    /\ \/ lock' = lock /\ n.step \in Saving /\ thread[p][t].step \in Saving
       \/ lock[p] = free /\ lock' = [lock EXCEPT ![p] = t] /\ n.step \in Saving
       \/ thread[p][t].step \in Saving /\ lock' = [lock EXCEPT ![p] = free] /\ n.step \notin Saving

\* Such a step keeps what is said of the memory, the lock and the threads.
LEMMA ThreadMoves ==
    ASSUME InMemory, NEW p \in running, NEW t \in Threads, NEW n \in Doing, GoesOn(p, t, n)
    PROVE  /\ thread' \in [Programs -> [Threads -> Doing']]
           /\ lock' \in [Programs -> Threads \union {free}]
           /\ Locked' /\ Stopped' /\ Pending' /\ ReadFresh'
           /\ thread'[p][t] = n
           /\ \A q \in Programs, u \in Threads :
                 q # p \/ u # t => thread'[q][u] = thread[q][u]
<1> USE DEF GoesOn
<1>1. p \in Programs
  BY DEF InMemory, ConfTypes
<1>2. Doing' = Doing /\ \A c : By(c)' = By(c)
  BY DEF Doing, Made, By
<1>3. /\ thread' \in [Programs -> [Threads -> Doing]] /\ thread'[p][t] = n
      /\ \A q \in Programs, u \in Threads : q # p \/ u # t => thread'[q][u] = thread[q][u]
  BY <1>1, OneThread DEF InMemory, ConfTypes
<1>4. lock' \in [Programs -> Threads \union {free}]
  BY DEF InMemory, ConfTypes
<1>5. Locked'
  BY <1>1, <1>3 DEF InMemory, ConfTypes, Locked, Threads, free
<1>6. Stopped'
  BY <1>1, <1>3 DEF InMemory, ConfTypes, Stopped
<1>7. Pending'
  BY <1>1, <1>3 DEF InMemory, Pending
<1>8. ReadFresh'
  BY <1>1, <1>2, <1>3 DEF InMemory, ReadFresh, Threads
<1> QED BY <1>2, <1>3, <1>4, <1>5, <1>6, <1>7, <1>8

\* Saving once more is one too.
LEMMA SavesAgain ==
    ASSUME NEW B, NEW C,
           NEW w \in [step : {"idle", "read", "save"} \union Saving, read : B, change : C,
                      saves : Int, fd : Nat]
    PROVE  LET s == [w EXCEPT !.step = "save", !.saves = @ - 1] IN
           /\ s \in [step : {"idle", "read", "save"} \union Saving, read : B, change : C,
                    saves : Int, fd : Nat]
           /\ s.step = "save" /\ s.change = w.change
<1>1. w.saves \in Int /\ w.saves - 1 \in Int
  OBVIOUS
<1> QED BY <1>1

\* A thread that ends its save gives the lock back and takes nothing from the store.
LEMMA Leaving ==
    ASSUME InMemory, NEW p \in Programs, NEW t \in Threads, thread[p][t].step \in Saving, Leave(p, t),
           UNCHANGED <<store, running, author>>
    PROVE  /\ p \in running
           /\ thread' \in [Programs -> [Threads -> Doing']]
           /\ lock' \in [Programs -> Threads \union {free}]
           /\ Locked' /\ Stopped' /\ Pending' /\ ReadFresh'
           /\ thread'[p][t].step \notin Saving
           /\ \A q \in Programs, u \in Threads :
                 q # p \/ u # t => thread'[q][u] = thread[q][u]
           /\ saved' \subseteq saved \union {thread[p][t].change} /\ saved' \subseteq 0..Made
           /\ thread[p][t].change \in store[p]
<1> DEFINE w == thread[p][t]
           n == IF w.saves = 1 THEN Idle ELSE [w EXCEPT !.step = "save", !.saves = @ - 1]
<1>1. w \in Doing /\ Made \in Nat
  BY DEF InMemory, ConfTypes, Made
<1>2. p \in running
  BY DEF InMemory, Stopped, Saving
<1>3. w.change \in store[p]
  BY DEF InMemory, Pending
<1>4. n \in Doing /\ n.step \in {"idle", "save"} /\ (n.step = "save" => n.change = w.change)
  <2>1. CASE w.saves = 1
    BY <1>1, <2>1, IdleTyped
  <2>2. CASE w.saves # 1
    <3> DEFINE s == [w EXCEPT !.step = "save", !.saves = @ - 1]
    <3>1. s \in Doing /\ s.step = "save" /\ s.change = w.change
      BY <1>1, SavesAgain DEF Doing
    <3> QED BY <2>2, <3>1
  <2> QED BY <2>1, <2>2
<1>5. thread' = [thread EXCEPT ![p][t] = n] /\ lock' = [lock EXCEPT ![p] = free]
  BY DEF Leave
<1>6. saved' \subseteq saved \union {w.change} /\ w.change \in 0..Made
  BY <1>1 DEF Leave, Doing
<1> HIDE DEF n
<1>7. PICK m : /\ m \in Doing /\ m.step \in {"idle", "save"} /\ (m.step = "save" => m.change = w.change)
               /\ thread' = [thread EXCEPT ![p][t] = m]
  BY <1>4, <1>5
<1>8. m.step # "read" /\ m.step \notin Saving
  BY <1>7 DEF Saving
<1>9. m.step \in Saving \union {"save"} => m.change \in store[p]
  BY <1>3, <1>7, <1>8
<1>10. /\ thread' \in [Programs -> [Threads -> Doing']]
       /\ lock' \in [Programs -> Threads \union {free}]
       /\ Locked' /\ Stopped' /\ Pending' /\ ReadFresh'
       /\ thread'[p][t] = m
       /\ \A q \in Programs, u \in Threads : q # p \/ u # t => thread'[q][u] = thread[q][u]
  <2>1. InMemory /\ UNCHANGED <<store, running, author>> /\ lock' = [lock EXCEPT ![p] = free]
    BY <1>5
  <2>2. thread[p][t].step \in Saving /\ thread' = [thread EXCEPT ![p][t] = m]
    BY <1>7
  <2>3. GoesOn(p, t, m)
    <3> HIDE DEF w
    <3> QED BY <1>2, <1>7, <1>8, <1>9, <2>1, <2>2 DEF GoesOn
  <2> QED BY <1>2, <1>7, <2>1, <2>3, ThreadMoves
<1> QED BY <1>2, <1>3, <1>6, <1>8, <1>10 DEF InMemory, ConfTypes

\* Who writes is alone with it.
LEMMA Alone ==
    ASSUME InMemory, NEW p \in Programs, NEW t \in Threads, thread[p][t].step \in Saving,
           \A q \in Programs \ {p} : ~Writing(q)
    PROVE  \A q \in Programs, u \in Threads :
              q # p \/ u # t => thread[q][u].step \notin {"fill", "rename"}
<1>1. lock[p] = t
  BY DEF InMemory, Locked
<1>2. \A u \in Threads \ {t} : thread[p][u].step \notin Saving
  BY <1>1 DEF InMemory, Locked
<1> QED BY <1>2 DEF Writing, Saving

\* What the disk and the memory hold stays, and so does what was said of it.
LEMMA NothingMoves ==
    ASSUME Orderly, Held' = Held, UNCHANGED <<store, running, author, undone>>,
           OneWriter', Filed', Filling', saved' \subseteq Held \union undone \union unsaved'
    PROVE  Orderly'
<1>1. \A c : By(c)' = By(c)
  BY DEF By
<1> QED BY <1>1 DEF Orderly, Own, Foreign, SavedKept

\* Reading the configuration keeps the invariant.
LEMMA GetKeeps ==
    ASSUME ConfigAssumption, ConfInv, NEW p \in Programs, Get(p)
    PROVE  ConfInv'
<1> DEFINE w == Call("read", {c \in store[p] : By(c).thread = "window"}, Made + 1, 1)
<1>1. /\ author' \in Seq([program : Programs, thread : Threads])
      /\ Made \in Nat /\ Made' = Made + 1 /\ Made' <= MaxChanges
      /\ \A c : c = Made + 1 => By(c)' = [program |-> p, thread |-> "window"]
      /\ \A c \in 0..Made : By(c)' = By(c)
  BY ChangeMade DEF ConfInv, InMemory, Get, Threads
<1>2. 0..Made \subseteq 0..Made' /\ Doing \subseteq Doing'
  BY <1>1, DoingGrows
<1>3. PICK R : R = {c \in store[p] : By(c).thread = "window"}
  OBVIOUS
<1>4. R \in SUBSET (0..Made') /\ Made + 1 \in 0..Made'
  BY <1>1, <1>2, <1>3 DEF ConfInv, InMemory, ConfTypes
<1>5. w = Call("read", R, Made + 1, 1)
  BY <1>3
<1>6. w \in Doing'
  <2>1. "read" \in {"idle", "read", "save"} \union Saving /\ 1 \in Int
    OBVIOUS
  <2>2. Call("read", R, Made + 1, 1)
          \in [step : {"idle", "read", "save"} \union Saving, read : SUBSET (0..Made'),
              change : 0..Made', saves : Int, fd : Nat]
    BY <1>4, <2>1, CallTyped
  <2> HIDE DEF w
  <2> QED BY <1>5, <2>2 DEF Doing
<1>7. thread \in [Programs -> [Threads -> Doing']]
  BY <1>2 DEF ConfInv, InMemory, ConfTypes
<1>8. PICK n : n = w
  OBVIOUS
<1>9. thread' = [thread EXCEPT ![p]["window"] = n]
  BY <1>8 DEF Get
<1> HIDE DEF w
<1>10. /\ thread' \in [Programs -> [Threads -> Doing']]
       /\ thread'[p]["window"] = n
       /\ \A q \in Programs, t \in Threads :
            q # p \/ t # "window" => thread'[q][t] = thread[q][t]
  BY <1>6, <1>7, <1>8, <1>9, OneThread DEF Threads
<1>11. UNCHANGED <<file, temp, disk, store, running, lock, saved, undone, unsaved, clash, failures>>
  BY DEF Get, onDisk
<1>12. ConfTypes'
  <2>1. disk' \in Seq([state : {"empty", "torn", "whole"}, has : SUBSET (0..Made')])
    <3>1. [state : {"empty", "torn", "whole"}, has : SUBSET (0..Made)]
            \subseteq [state : {"empty", "torn", "whole"}, has : SUBSET (0..Made')]
      BY <1>2
    <3> QED BY <1>11, <3>1, MoreValues DEF ConfInv, InMemory, ConfTypes
  <2>2. /\ store' \in [Programs -> SUBSET (0..Made')]
        /\ saved' \subseteq 0..Made' /\ undone' \subseteq 0..Made'
    BY <1>2, <1>11 DEF ConfInv, InMemory, ConfTypes
  <2> QED BY <1>1, <1>10, <1>11, <2>1, <2>2 DEF ConfInv, InMemory, ConfTypes
<1>13. /\ n.step = "read" /\ n.read = {c \in store[p] : By(c).thread = "window"}
       /\ n.change = Made + 1
  BY <1>3, <1>5, <1>8 DEF Call
<1>14. thread[p]["window"].step = "idle" /\ p \in running /\ lock[p] = free
  BY DEF Get, Idle, Call
<1>15. Locked'
  BY <1>10, <1>11, <1>13, <1>14 DEF ConfInv, InMemory, Locked, Saving, Threads, free
<1>16. Stopped'
  BY <1>10, <1>11, <1>14 DEF ConfInv, InMemory, Stopped
<1>17. Pending'
  BY <1>10, <1>11, <1>13 DEF ConfInv, InMemory, Pending, Saving
<1>18. ReadFresh'
  <2>1. \A q \in Programs : {c \in store'[q] : By(c)'.thread = "window"}
                             = {c \in store[q] : By(c).thread = "window"}
    BY <1>1, <1>11 DEF ConfInv, InMemory, ConfTypes
  <2>2. By(n.change)'.program = p
    BY <1>1, <1>13
  <2>3. \A q \in Programs : thread[q]["window"].change \in 0..Made
    BY DEF ConfInv, InMemory, ConfTypes, Threads, Doing
  <2>4. ASSUME NEW q \in Programs, thread'[q]["window"].step = "read"
        PROVE  /\ thread'[q]["window"].read = {c \in store'[q] : By(c)'.thread = "window"}
               /\ (By(thread[q]["window"].change).program = q)'
    <3>1. CASE q = p
      <4>1. \A c : c = thread'[p]["window"].change => By(c)'.program = p
        BY <1>1, <1>10, <1>13
      <4> QED BY <1>10, <1>11, <1>13, <2>1, <3>1, <4>1
    <3>2. CASE q # p
      <4>1. thread'[q]["window"] = thread[q]["window"]
        BY <1>10, <3>2 DEF Threads
      <4>2. /\ thread[q]["window"].read = {c \in store[q] : By(c).thread = "window"}
            /\ By(thread[q]["window"].change).program = q
        BY <2>4, <4>1 DEF ConfInv, InMemory, ReadFresh
      <4>3. \A c : c = thread[q]["window"].change => By(c)' = By(c)
        BY <1>1, <2>3
      <4> QED BY <2>1, <4>1, <4>2, <4>3
    <3> QED BY <3>1, <3>2
  <2> QED BY <2>4 DEF ReadFresh
<1>19. ASSUME Orderly PROVE Orderly'
  <2>1. Held' = Held /\ Held \subseteq 0..Made
    BY <1>11, HeldTyped DEF Held, ConfInv, InMemory
  <2>2. \A q \in Programs, t \in Threads :
           /\ thread'[q][t].step \in {"fill", "rename"} => thread'[q][t] = thread[q][t]
    BY <1>10, <1>13
  <2>3. OneWriter' /\ Filed' /\ Filling'
    BY <1>11, <1>19, <2>2 DEF Orderly, OneWriter, Writing, Filed, Filling
  <2>4. Own' /\ Foreign' /\ SavedKept'
    BY <1>1, <1>11, <1>19, <2>1 DEF Orderly, Own, Foreign, SavedKept, ConfInv, InMemory, ConfTypes
  <2> QED BY <2>3, <2>4 DEF Orderly
<1> QED BY <1>11, <1>12, <1>15, <1>16, <1>17, <1>18, <1>19 DEF ConfInv, InMemory

\* Nobody has set the value since it was read: the change is all that is added.
LEMMA SetKeeps ==
    ASSUME ConfigAssumption, ConfInv, NEW p \in Programs, Set(p)
    PROVE  ConfInv'
<1> DEFINE w == thread[p]["window"]
<1>1. w \in Doing /\ w.step = "read" /\ lock[p] = free /\ Made \in Nat
  BY DEF ConfInv, InMemory, ConfTypes, Threads, Set, Made
<1>2. Doing' = Doing /\ (\A c : By(c)' = By(c)) /\ Made' = Made
  BY DEF Set, tally, Doing, Made, By
<1>3. PICK n : n = [w EXCEPT !.step = "save"]
  OBVIOUS
<1>4. n \in Doing /\ n.step = "save" /\ n.change = w.change
  BY <1>1, <1>3 DEF Doing
<1>5. w.change \in 0..Made /\ By(w.change).program = p
  BY <1>1 DEF Doing, ConfInv, InMemory, ReadFresh
<1>6. thread' = [thread EXCEPT ![p]["window"] = n]
  BY <1>3 DEF Set
<1>7. /\ thread' \in [Programs -> [Threads -> Doing]]
      /\ thread'[p]["window"] = n
      /\ \A q \in Programs, t \in Threads :
            q # p \/ t # "window" => thread'[q][t] = thread[q][t]
  BY <1>4, <1>6, OneThread DEF Threads, ConfInv, InMemory, ConfTypes
<1>8. store' = [store EXCEPT ![p] = store[p] \union {w.change}]
  <2>1. w.read = {c \in store[p] : By(c).thread = "window"}
    BY <1>1 DEF ConfInv, InMemory, ReadFresh
  <2>2. {c \in store[p] : By(c).thread # "window"} \union w.read \union {w.change}
          = store[p] \union {w.change}
    BY <2>1
  <2> QED BY <2>2 DEF Set
<1>9. /\ store' \in [Programs -> SUBSET (0..Made)]
      /\ store'[p] = store[p] \union {w.change}
      /\ \A q \in Programs \ {p} : store'[q] = store[q]
  BY <1>5, <1>8 DEF ConfInv, InMemory, ConfTypes
<1>10. UNCHANGED <<file, temp, disk, running, lock, author, saved, undone, unsaved, clash, failures>>
  BY DEF Set, onDisk, tally
<1>11. ConfTypes'
  BY <1>2, <1>7, <1>9, <1>10 DEF ConfInv, InMemory, ConfTypes
<1>12. Locked'
  BY <1>1, <1>4, <1>7, <1>10 DEF ConfInv, InMemory, Locked, Saving, Threads
<1>13. Stopped'
  BY <1>1, <1>7, <1>9, <1>10 DEF ConfInv, InMemory, Stopped, Threads
<1>14. Pending'
  BY <1>4, <1>7, <1>9 DEF ConfInv, InMemory, Pending
<1>15. ReadFresh'
  BY <1>2, <1>4, <1>7, <1>9 DEF ConfInv, InMemory, ReadFresh, Threads
<1>16. ASSUME Orderly PROVE Orderly'
  <2>1. \A q \in Programs, t \in Threads :
           thread'[q][t].step \in {"fill", "rename"} =>
               thread'[q][t] = thread[q][t] /\ q # p
    BY <1>1, <1>4, <1>7 DEF ConfInv, InMemory, Locked, Saving, Threads, free
  <2>2. OneWriter' /\ Filed' /\ Filling'
    BY <1>9, <1>10, <1>16, <2>1 DEF Orderly, OneWriter, Writing, Filed, Filling
  <2>3. Held' = Held
    BY <1>10 DEF Held
  <2>4. \A c : By(c)' = By(c)
    BY <1>2
  <2>5. Own'
    BY <1>9, <1>10, <1>16, <2>3, <2>4 DEF Orderly, Own, ConfInv, InMemory, ConfTypes
  <2>6. Foreign'
    BY <1>5, <1>9, <1>10, <1>16, <2>3, <2>4 DEF Orderly, Foreign
  <2>7. SavedKept'
    BY <1>10, <1>16, <2>3 DEF Orderly, SavedKept
  <2> QED BY <2>2, <2>5, <2>6, <2>7 DEF Orderly
<1> QED BY <1>10, <1>11, <1>12, <1>13, <1>14, <1>15, <1>16 DEF ConfInv, InMemory

\* An update adds a change and is about to save it.
LEMMA UpdateKeeps ==
    ASSUME ConfigAssumption, ConfInv, NEW p \in Programs, Update(p)
    PROVE  ConfInv'
<1>1. /\ author' \in Seq([program : Programs, thread : Threads])
      /\ Made \in Nat /\ Made' = Made + 1 /\ Made' <= MaxChanges
      /\ \A c : c = Made + 1 => By(c)' = [program |-> p, thread |-> "network"]
      /\ \A c \in 0..Made : By(c)' = By(c)
  BY ChangeMade DEF ConfInv, InMemory, Update, Threads
<1>2. 0..Made \subseteq 0..Made' /\ Doing \subseteq Doing' /\ Made + 1 \in 0..Made'
  BY <1>1, DoingGrows
<1>3. PICK n : n = Call("open", {}, Made + 1, 2)
  OBVIOUS
<1>4. n \in Doing' /\ n.step = "open" /\ n.change = Made + 1
  <2>1. "open" \in {"idle", "read", "save"} \union Saving /\ 2 \in Int /\ {} \in SUBSET (0..Made')
    BY DEF Saving
  <2>2. Call("open", {}, Made + 1, 2)
          \in [step : {"idle", "read", "save"} \union Saving, read : SUBSET (0..Made'),
              change : 0..Made', saves : Int, fd : Nat]
    BY <1>2, <2>1, CallTyped
  <2>3. n \in Doing'
    BY <1>3, <2>2 DEF Doing
  <2> QED BY <1>3, <2>3 DEF Call
<1>5. thread \in [Programs -> [Threads -> Doing']]
  BY <1>2 DEF ConfInv, InMemory, ConfTypes
<1>6. thread' = [thread EXCEPT ![p]["network"] = n]
  BY <1>3 DEF Update
<1>7. /\ thread' \in [Programs -> [Threads -> Doing']]
      /\ thread'[p]["network"] = n
      /\ \A q \in Programs, t \in Threads :
            q # p \/ t # "network" => thread'[q][t] = thread[q][t]
  BY <1>4, <1>5, <1>6, OneThread DEF Threads
<1>8. UNCHANGED <<file, temp, disk, running, saved, undone, unsaved, clash, failures>>
  BY DEF Update, onDisk
<1>9. /\ store' \in [Programs -> SUBSET (0..Made')]
      /\ store'[p] = store[p] \union {Made + 1}
      /\ \A q \in Programs \ {p} : store'[q] = store[q]
  BY <1>2 DEF Update, ConfInv, InMemory, ConfTypes
<1>10. /\ thread[p]["network"].step = "idle" /\ p \in running /\ lock[p] = free
       /\ lock' = [lock EXCEPT ![p] = "network"]
       /\ lock' \in [Programs -> Threads \union {free}]
  BY DEF Update, Idle, Call, ConfInv, InMemory, ConfTypes, Threads
<1>11. ConfTypes'
  <2>1. disk' \in Seq([state : {"empty", "torn", "whole"}, has : SUBSET (0..Made')])
    <3>1. [state : {"empty", "torn", "whole"}, has : SUBSET (0..Made)]
            \subseteq [state : {"empty", "torn", "whole"}, has : SUBSET (0..Made')]
      BY <1>2
    <3> QED BY <1>8, <3>1, MoreValues DEF ConfInv, InMemory, ConfTypes
  <2>2. saved' \subseteq 0..Made' /\ undone' \subseteq 0..Made'
    BY <1>2, <1>8 DEF ConfInv, InMemory, ConfTypes
  <2> QED BY <1>1, <1>7, <1>8, <1>9, <1>10, <2>1, <2>2 DEF ConfInv, InMemory, ConfTypes
<1>12. \A t \in Threads : thread[p][t].step \notin Saving
  BY <1>10 DEF ConfInv, InMemory, Locked, Threads, free
<1>13. Locked'
  <2>1. "network" \in Threads /\ lock \in [Programs -> Threads \union {free}]
    BY DEF Threads, ConfInv, InMemory, ConfTypes
  <2> QED BY <1>4, <1>7, <1>10, <1>12, <2>1 DEF ConfInv, InMemory, Locked, Saving
<1>14. Stopped'
  BY <1>7, <1>8, <1>9, <1>10 DEF ConfInv, InMemory, Stopped
<1>15. Pending'
  BY <1>4, <1>7, <1>9 DEF ConfInv, InMemory, Pending
<1>16. ReadFresh'
  <2>1. \A q \in Programs : {c \in store'[q] : By(c)'.thread = "window"}
                             = {c \in store[q] : By(c).thread = "window"}
    BY <1>1, <1>9 DEF ConfInv, InMemory, ConfTypes
  <2>2. \A q \in Programs : thread[q]["window"].change \in 0..Made
    BY DEF ConfInv, InMemory, ConfTypes, Threads, Doing
  <2>3. \A q \in Programs : thread'[q]["window"] = thread[q]["window"]
    BY <1>7 DEF Threads
  <2>4. ASSUME NEW q \in Programs, thread'[q]["window"].step = "read"
        PROVE  /\ thread'[q]["window"].read = {c \in store'[q] : By(c)'.thread = "window"}
               /\ (By(thread[q]["window"].change).program = q)'
    <3>1. /\ thread[q]["window"].read = {c \in store[q] : By(c).thread = "window"}
          /\ By(thread[q]["window"].change).program = q
      BY <2>3, <2>4 DEF ConfInv, InMemory, ReadFresh
    <3>2. \A c : c = thread[q]["window"].change => By(c)' = By(c)
      BY <1>1, <2>2
    <3> QED BY <2>1, <2>3, <3>1, <3>2
  <2> QED BY <2>4 DEF ReadFresh
<1>17. ASSUME Orderly PROVE Orderly'
  <2>1. Held' = Held /\ Held \subseteq 0..Made
    BY <1>8, HeldTyped DEF Held, ConfInv, InMemory
  <2>2. \A q \in Programs, t \in Threads :
           thread'[q][t].step \in {"fill", "rename"} =>
               thread'[q][t] = thread[q][t] /\ q # p
    BY <1>4, <1>7, <1>12 DEF Saving
  <2>3. OneWriter' /\ Filed' /\ Filling'
    BY <1>8, <1>9, <1>17, <2>2 DEF Orderly, OneWriter, Writing, Filed, Filling
  <2>4. Own'
    BY <1>1, <1>8, <1>9, <1>17, <2>1 DEF Orderly, Own, ConfInv, InMemory, ConfTypes
  <2>5. Foreign'
    <3> SUFFICES ASSUME NEW q \in Programs, NEW c \in store'[q], By(c)'.program # q
                 PROVE  c \in Held \union undone
      BY <1>8, <2>1 DEF Foreign
    <3>1. c # Made + 1 \/ q # p
      BY <1>1
    <3>2. c \in store[q]
      BY <1>9, <3>1
    <3>3. By(c)' = By(c)
      BY <1>1, <3>2 DEF ConfInv, InMemory, ConfTypes
    <3> QED BY <1>17, <3>2, <3>3 DEF Orderly, Foreign
  <2>6. SavedKept'
    BY <1>8, <1>17, <2>1 DEF Orderly, SavedKept
  <2> QED BY <2>3, <2>4, <2>5, <2>6 DEF Orderly
<1> QED BY <1>8, <1>11, <1>13, <1>14, <1>15, <1>16, <1>17 DEF ConfInv, InMemory

\* A save begins with what is in the memory of its program.
LEMMA StartSaveKeeps ==
    ASSUME ConfInv, NEW p \in Programs, NEW t \in Threads, StartSave(p, t)
    PROVE  ConfInv'
<1> DEFINE w == thread[p][t]
<1>1. w \in Doing /\ w.step = "save" /\ lock[p] = free
  BY DEF ConfInv, InMemory, ConfTypes, StartSave
<1>2. p \in running /\ w.change \in store[p]
  BY <1>1 DEF ConfInv, InMemory, Stopped, Pending
<1>3. PICK n : n = [w EXCEPT !.step = "open"]
  OBVIOUS
<1>4. n \in Doing /\ n.step = "open" /\ n.change = w.change
  BY <1>1, <1>3 DEF Doing, Saving
<1>5. /\ thread' = [thread EXCEPT ![p][t] = n] /\ lock' = [lock EXCEPT ![p] = t]
      /\ UNCHANGED <<file, temp, disk, store, running, author, saved, undone, unsaved, clash, failures>>
  BY <1>3 DEF StartSave, onDisk, tally
<1>6. n.step \in Saving /\ n.step # "read"
  BY <1>4 DEF Saving
<1>7. /\ thread' \in [Programs -> [Threads -> Doing']]
      /\ lock' \in [Programs -> Threads \union {free}]
      /\ Locked' /\ Stopped' /\ Pending' /\ ReadFresh'
      /\ thread'[p][t] = n
      /\ \A q \in Programs, u \in Threads : q # p \/ u # t => thread'[q][u] = thread[q][u]
  <2>1. InMemory /\ UNCHANGED <<store, running, author>>
    BY <1>5 DEF ConfInv
  <2>2. lock[p] = free /\ lock' = [lock EXCEPT ![p] = t] /\ thread' = [thread EXCEPT ![p][t] = n]
    BY <1>1, <1>5
  <2>3. GoesOn(p, t, n)
    <3> HIDE DEF w
    <3> QED BY <1>2, <1>4, <1>6, <2>1, <2>2 DEF GoesOn
  <2> QED BY <1>2, <1>4, <2>1, <2>3, ThreadMoves
<1>8. ConfTypes'
  BY <1>5, <1>7 DEF ConfInv, InMemory, ConfTypes, Made
<1>9. ASSUME Orderly PROVE Orderly'
  <2>1. \A q \in Programs, u \in Threads :
           thread'[q][u].step \in {"fill", "rename"} => thread'[q][u] = thread[q][u]
    BY <1>4, <1>7
  <2>2. OneWriter' /\ Filed' /\ Filling'
    BY <1>5, <1>9, <2>1 DEF Orderly, OneWriter, Writing, Filed, Filling
  <2>3. Held' = Held /\ saved' \subseteq Held \union undone \union unsaved'
    BY <1>5, <1>9 DEF Held, Orderly, SavedKept
  <2> QED BY <1>5, <1>9, <2>2, <2>3, NothingMoves
<1> QED BY <1>5, <1>7, <1>8, <1>9 DEF ConfInv, InMemory

\* Opening the temporary file empties it, and not the file a start reads.
LEMMA OpenKeeps ==
    ASSUME ConfInv, NEW p \in Programs, NEW t \in Threads, Open(p, t)
    PROVE  ConfInv'
<1> DEFINE w == thread[p][t]
           C == [state : {"empty", "torn", "whole"}, has : SUBSET (0..Made)]
<1>1. w \in Doing /\ w.step = "open" /\ disk \in Seq(C) /\ Len(disk) \in Nat
  BY DEF ConfInv, InMemory, ConfTypes, Open
<1>2. p \in running /\ w.change \in store[p]
  BY <1>1 DEF ConfInv, InMemory, Stopped, Pending, Saving
<1>3. PICK i : i = IF temp = 0 THEN Len(disk) + 1 ELSE temp
  OBVIOUS
<1>4. i \in Nat /\ i # 0
  BY <1>1, <1>3 DEF ConfInv, InMemory, ConfTypes
<1>5. PICK n : n = [w EXCEPT !.step = "fill", !.fd = i]
  OBVIOUS
<1>6. n \in Doing /\ n.step = "fill" /\ n.change = w.change /\ n.fd = i
  BY <1>1, <1>4, <1>5 DEF Doing, Saving
<1>7. /\ thread' = [thread EXCEPT ![p][t] = n]
      /\ temp' = i
      /\ disk' = IF temp = 0 THEN Append(disk, Content("empty", {}))
                 ELSE [disk EXCEPT ![i] = Content("empty", {})]
      /\ clash' = (clash \/ \E q \in Programs \ {p} : Writing(q))
      /\ UNCHANGED <<file, store, running, lock, author, saved, undone, unsaved, failures>>
  <2>1. [thread EXCEPT ![p][t].step = "fill", ![p][t].fd = i] = [thread EXCEPT ![p][t] = n]
    BY <1>1, <1>5 DEF ConfInv, InMemory, ConfTypes
  <2> QED BY <1>3, <2>1 DEF Open
<1>8. n.step \in Saving /\ n.step # "read" /\ w.step \in Saving
  BY <1>1, <1>6 DEF Saving
<1>9. /\ thread' \in [Programs -> [Threads -> Doing']]
      /\ lock' \in [Programs -> Threads \union {free}]
      /\ Locked' /\ Stopped' /\ Pending' /\ ReadFresh'
      /\ thread'[p][t] = n
      /\ \A q \in Programs, u \in Threads : q # p \/ u # t => thread'[q][u] = thread[q][u]
  <2>1. lock' = lock /\ UNCHANGED <<store, running, author>> /\ InMemory
    BY <1>7 DEF ConfInv
  <2>2. thread[p][t].step \in Saving /\ thread' = [thread EXCEPT ![p][t] = n]
    BY <1>7, <1>8
  <2>3. GoesOn(p, t, n)
    <3> HIDE DEF w
    <3> QED BY <1>2, <1>6, <1>8, <2>1, <2>2 DEF GoesOn
  <2> QED BY <1>2, <1>6, <2>1, <2>3, ThreadMoves
<1>10. /\ disk' \in Seq(C) /\ i \in DOMAIN disk' /\ disk'[i] = Content("empty", {})
       /\ Len(disk) <= Len(disk')
       /\ \A j \in DOMAIN disk : j # i => disk'[j] = disk[j]
  <2>1. Content("empty", {}) \in C
    BY DEF Content
  <2> HIDE DEF C
  <2>2. CASE temp = 0
    BY <1>1, <1>3, <1>7, <2>1, <2>2, OneMore
  <2>3. CASE temp # 0
    <3>1. i \in DOMAIN disk
      BY <1>1, <1>3, <2>3 DEF ConfInv, InMemory, ConfTypes
    <3> QED BY <1>1, <1>3, <1>7, <2>1, <2>3, <3>1, OneReplaced, AnyReplaced
  <2> QED BY <2>2, <2>3
<1>11. ConfTypes'
  <2>1. file' \in 0..Len(disk') /\ temp' \in 0..Len(disk') /\ clash' \in BOOLEAN
    BY <1>1, <1>4, <1>7, <1>10 DEF ConfInv, InMemory, ConfTypes
  <2> QED BY <1>7, <1>9, <1>10, <2>1 DEF ConfInv, InMemory, ConfTypes, Made
<1>12. ASSUME Orderly, \A q \in Programs \ {p} : ~Writing(q) PROVE Orderly'
  <2>1. \A q \in Programs, u \in Threads :
           q # p \/ u # t => thread'[q][u].step \notin {"fill", "rename"}
    BY <1>8, <1>9, <1>12, Alone DEF ConfInv
  <2>2. file # 0 => file # i /\ file \in DOMAIN disk
    BY <1>1, <1>3, <1>12 DEF Orderly, Filed, ConfInv, InMemory, ConfTypes
  <2>3. file # 0 => disk'[file] = disk[file]
    BY <1>10, <2>2
  <2>4. OneWriter'
    BY <2>1 DEF OneWriter, Writing
  <2>5. Filed'
    BY <1>7, <1>12, <2>2, <2>3 DEF Orderly, Filed
  <2>6. Filling'
    <3>1. disk'[i].state = "empty"
      BY <1>10 DEF Content
    <3> QED BY <1>4, <1>6, <1>7, <1>9, <2>1, <3>1 DEF Filling
  <2>7. Held' = Held
    <3>1. file' = file
      BY <1>7
    <3> QED BY <2>3, <3>1 DEF Held
  <2>8. saved' \subseteq Held \union undone \union unsaved'
    BY <1>7, <1>12 DEF Orderly, SavedKept
  <2> QED BY <1>7, <1>12, <2>4, <2>5, <2>6, <2>7, <2>8, NothingMoves
<1> QED BY <1>7, <1>9, <1>11, <1>12 DEF ConfInv, InMemory

\* What is written to the temporary file is what is in memory.
LEMMA FillKeeps ==
    ASSUME ConfInv, NEW p \in Programs, NEW t \in Threads, Fill(p, t)
    PROVE  ConfInv'
<1> DEFINE w == thread[p][t]
           C == [state : {"empty", "torn", "whole"}, has : SUBSET (0..Made)]
<1>1. w \in Doing /\ w.step = "fill" /\ disk \in Seq(C)
  BY DEF ConfInv, InMemory, ConfTypes, Fill
<1>2. p \in running /\ w.change \in store[p]
  BY <1>1 DEF ConfInv, InMemory, Stopped, Pending, Saving
<1>3. PICK n : n = [w EXCEPT !.step = "rename"]
  OBVIOUS
<1>4. n \in Doing /\ n.step = "rename" /\ n.change = w.change /\ n.fd = w.fd
  BY <1>1, <1>3 DEF Doing, Saving
<1>5. /\ thread' = [thread EXCEPT ![p][t] = n]
      /\ UNCHANGED <<file, temp, store, running, lock, author, saved, undone, unsaved, clash, failures>>
  BY <1>3 DEF Fill, tally
<1>6. n.step \in Saving /\ n.step # "read" /\ w.step \in Saving
  BY <1>1, <1>4 DEF Saving
<1>7. /\ thread' \in [Programs -> [Threads -> Doing']]
      /\ lock' \in [Programs -> Threads \union {free}]
      /\ Locked' /\ Stopped' /\ Pending' /\ ReadFresh'
      /\ thread'[p][t] = n
      /\ \A q \in Programs, u \in Threads : q # p \/ u # t => thread'[q][u] = thread[q][u]
  <2>1. lock' = lock /\ UNCHANGED <<store, running, author>> /\ InMemory
    BY <1>5 DEF ConfInv
  <2>2. thread[p][t].step \in Saving /\ thread' = [thread EXCEPT ![p][t] = n]
    BY <1>5, <1>6
  <2>3. GoesOn(p, t, n)
    <3> HIDE DEF w
    <3> QED BY <1>2, <1>4, <1>6, <2>1, <2>2 DEF GoesOn
  <2> QED BY <1>2, <1>4, <2>1, <2>3, ThreadMoves
<1>8. PICK s : /\ s \in C /\ disk' = [disk EXCEPT ![w.fd] = s]
               /\ disk[w.fd].state = "empty" => s = Content("whole", store[p])
  <2>1. Content("whole", store[p]) \in C /\ Content("torn", {}) \in C
    BY DEF Content, ConfInv, InMemory, ConfTypes
  <2> QED BY <2>1 DEF Fill
<1>9. ConfTypes'
  <2>1. disk' \in Seq(C) /\ Len(disk') = Len(disk)
    <3> HIDE DEF C, w
    <3>1. s \in C /\ disk' = [disk EXCEPT ![w.fd] = s] /\ disk \in Seq(C)
      BY <1>1, <1>8
    <3> QED BY <3>1, AnyReplaced
  <2> QED BY <1>5, <1>7, <2>1 DEF ConfInv, InMemory, ConfTypes, Made
<1>10. ASSUME Orderly PROVE Orderly'
  <2>1. \A q \in Programs \ {p} : ~Writing(q)
    BY <1>1, <1>10 DEF Orderly, OneWriter, Writing
  <2>2. \A q \in Programs, u \in Threads :
           q # p \/ u # t => thread'[q][u].step \notin {"fill", "rename"}
    BY <1>6, <1>7, <2>1, Alone DEF ConfInv
  <2>3. w.fd = temp /\ temp # 0 /\ disk[temp].state = "empty" /\ temp \in DOMAIN disk
    BY <1>1, <1>10 DEF Orderly, Filling, ConfInv, InMemory, ConfTypes
  <2>4. disk'[temp] = Content("whole", store[p])
    BY <1>1, <1>8, <2>3, OneReplaced
  <2>5. file # 0 => file # temp /\ disk'[file] = disk[file]
    <3>1. file # 0 => file # temp /\ file \in DOMAIN disk
      BY <1>10 DEF Orderly, Filed, ConfInv, InMemory, ConfTypes
    <3> QED BY <1>1, <1>8, <2>3, <3>1, AnyReplaced
  <2>6. OneWriter'
    BY <2>2 DEF OneWriter, Writing
  <2>7. Filed'
    BY <1>5, <1>10, <2>5 DEF Orderly, Filed
  <2>8. Filling'
    BY <1>4, <1>5, <1>7, <2>2, <2>3, <2>4 DEF Filling
  <2>9. Held' = Held
    BY <1>5, <2>5 DEF Held
  <2>10. saved' \subseteq Held \union undone \union unsaved'
    BY <1>5, <1>10 DEF Orderly, SavedKept
  <2> QED BY <1>5, <1>10, <2>6, <2>7, <2>8, <2>9, <2>10, NothingMoves
<1> QED BY <1>5, <1>7, <1>9, <1>10 DEF ConfInv, InMemory

\* A write that fails leaves what is on file.
LEMMA FillFailsKeeps ==
    ASSUME ConfInv, NEW p \in Programs, NEW t \in Threads, FillFails(p, t)
    PROVE  ConfInv'
<1> DEFINE w == thread[p][t]
           C == [state : {"empty", "torn", "whole"}, has : SUBSET (0..Made)]
<1>1. w.step = "fill" /\ w.step \in Saving /\ disk \in Seq(C) /\ w \in Doing
  BY DEF ConfInv, InMemory, ConfTypes, FillFails, Saving
<1>2. /\ failures < MaxFailures /\ failures' = failures + 1
      /\ unsaved' = unsaved \union {w.change}
      /\ disk' = [disk EXCEPT ![w.fd] = Content("torn", {})]
      /\ Leave(p, t)
      /\ UNCHANGED <<file, temp, store, running, author, undone, clash>>
  BY DEF FillFails
<1>3. /\ p \in running
      /\ thread' \in [Programs -> [Threads -> Doing']]
      /\ lock' \in [Programs -> Threads \union {free}]
      /\ Locked' /\ Stopped' /\ Pending' /\ ReadFresh'
      /\ thread'[p][t].step \notin Saving
      /\ \A q \in Programs, u \in Threads :
            q # p \/ u # t => thread'[q][u] = thread[q][u]
      /\ saved' \subseteq saved \union {w.change} /\ saved' \subseteq 0..Made
  BY <1>1, <1>2, Leaving DEF ConfInv
<1>4. disk' \in Seq(C) /\ Len(disk') = Len(disk)
      /\ \A j \in DOMAIN disk : j # w.fd => disk'[j] = disk[j]
  <2>1. Content("torn", {}) \in C
    BY DEF Content
  <2>2. PICK k : k = w.fd
    OBVIOUS
  <2>3. disk' = [disk EXCEPT ![k] = Content("torn", {})] /\ disk \in Seq(C)
    BY <1>1, <1>2, <2>2
  <2> HIDE DEF C, w
  <2> QED BY <2>1, <2>2, <2>3, AnyReplaced
<1>5. ConfTypes'
  <2>1. failures' \in 0..MaxFailures
    BY <1>2, ConfigAssumption DEF ConfInv, InMemory, ConfTypes, ConfigAssumption
  <2> QED BY <1>2, <1>3, <1>4, <2>1 DEF ConfInv, InMemory, ConfTypes, Made
<1>6. ASSUME Orderly PROVE Orderly'
  <2>1. \A q \in Programs \ {p} : ~Writing(q)
    BY <1>1, <1>6 DEF Orderly, OneWriter, Writing
  <2>2. \A q \in Programs, u \in Threads : thread'[q][u].step \notin {"fill", "rename"}
    <3>1. \A q \in Programs, u \in Threads :
             q # p \/ u # t => thread[q][u].step \notin {"fill", "rename"}
      BY <1>1, <2>1, Alone DEF ConfInv
    <3> QED BY <1>3, <3>1 DEF Saving
  <2>3. file # 0 => file # w.fd /\ disk'[file] = disk[file]
    <3>1. w.fd = temp
      BY <1>1, <1>6 DEF Orderly, Filling
    <3>2. file # 0 => file # temp /\ file \in DOMAIN disk
      BY <1>6 DEF Orderly, Filed, ConfInv, InMemory, ConfTypes
    <3> QED BY <1>4, <3>1, <3>2
  <2>4. OneWriter' /\ Filling'
    BY <2>2 DEF OneWriter, Writing, Filling
  <2>5. Filed'
    BY <1>2, <1>6, <2>3 DEF Orderly, Filed
  <2>6. Held' = Held
    <3>1. file' = file
      BY <1>2
    <3> QED BY <2>3, <3>1 DEF Held
  <2>7. saved' \subseteq Held \union undone \union unsaved'
    BY <1>2, <1>3, <1>6 DEF Orderly, SavedKept
  <2> QED BY <1>2, <1>6, <2>4, <2>5, <2>6, <2>7, NothingMoves
<1> QED BY <1>2, <1>3, <1>5, <1>6 DEF ConfInv, InMemory

\* The file then has what is in the memory of p: what was on it is there as well, or is p's
\* own to have dropped and was dropped before, or is another's and is undone now.
LEMMA ReplaceKeeps ==
    ASSUME ConfInv, NEW p \in Programs, NEW t \in Threads, Replace(p, t)
    PROVE  ConfInv'
<1> DEFINE w == thread[p][t]
<1>1. w.step = "rename" /\ w.step \in Saving
  BY DEF Replace, Saving
<1>2. /\ temp # 0 /\ file' = temp /\ temp' = 0
      /\ undone' = undone \union {c \in Held \ disk[temp].has : By(c).program # p}
      /\ Leave(p, t)
      /\ UNCHANGED <<disk, store, running, author, unsaved, clash, failures>>
  BY DEF Replace
<1>3. /\ p \in running
      /\ thread' \in [Programs -> [Threads -> Doing']]
      /\ lock' \in [Programs -> Threads \union {free}]
      /\ Locked' /\ Stopped' /\ Pending' /\ ReadFresh'
      /\ thread'[p][t].step \notin Saving
      /\ \A q \in Programs, u \in Threads :
            q # p \/ u # t => thread'[q][u] = thread[q][u]
      /\ saved' \subseteq saved \union {w.change} /\ saved' \subseteq 0..Made
      /\ w.change \in store[p]
  BY <1>1, <1>2, Leaving DEF ConfInv
<1>4. ConfTypes'
  <2>1. undone' \subseteq 0..Made
    BY <1>2, HeldTyped, ConfigAssumption DEF ConfInv, InMemory, ConfTypes
  <2>2. file' \in 0..Len(disk') /\ temp' \in 0..Len(disk')
    BY <1>2 DEF ConfInv, InMemory, ConfTypes
  <2> QED BY <1>2, <1>3, <2>1, <2>2 DEF ConfInv, InMemory, ConfTypes, Made
<1>5. ASSUME Orderly PROVE Orderly'
  <2>1. \A q \in Programs \ {p} : ~Writing(q)
    BY <1>1, <1>5 DEF Orderly, OneWriter, Writing
  <2>2. \A q \in Programs, u \in Threads : thread'[q][u].step \notin {"fill", "rename"}
    <3>1. \A q \in Programs, u \in Threads :
             q # p \/ u # t => thread[q][u].step \notin {"fill", "rename"}
      BY <1>1, <2>1, Alone DEF ConfInv
    <3> QED BY <1>3, <3>1 DEF Saving
  <2>3. OneWriter' /\ Filling'
    BY <2>2 DEF OneWriter, Writing, Filling
  <2>4. disk[temp].state = "whole" /\ disk[temp].has = store[p]
    <3>1. disk[temp] = Content("whole", store[p])
      BY <1>1, <1>5 DEF Orderly, Filling
    <3> QED BY <3>1 DEF Content
  <2>5. Filed'
    BY <1>2, <2>4 DEF Filed
  <2>6. Held' = store[p]
    BY <1>2, <2>4 DEF Held
  <2>7. \A c : By(c)' = By(c)
    BY <1>2 DEF By
  <2>8. \A c \in Held : c \in store[p] \union undone'
    <3> SUFFICES ASSUME NEW c \in Held, c \notin store[p] PROVE c \in undone'
      OBVIOUS
    <3>1. CASE By(c).program = p
      BY <1>2, <1>3, <1>5, <3>1 DEF Orderly, Own
    <3>2. CASE By(c).program # p
      BY <1>2, <2>4, <3>2
    <3> QED BY <3>1, <3>2
  <2>9. undone \subseteq undone'
    BY <1>2
  <2>10. Own'
    <3> SUFFICES ASSUME NEW q \in running, NEW c \in store[p], By(c).program = q
                 PROVE  c \in store[q] \union undone'
      BY <1>2, <2>6, <2>7 DEF Own
    <3>1. CASE q = p
      BY <3>1
    <3>2. CASE q # p
      <4>1. c \in Held \union undone
        BY <1>5, <3>2 DEF Orderly, Foreign
      <4> QED BY <1>5, <2>9, <4>1 DEF Orderly, Own
    <3> QED BY <3>1, <3>2
  <2>11. Foreign'
    <3> SUFFICES ASSUME NEW q \in Programs, NEW c \in store[q], By(c).program # q
                 PROVE  c \in store[p] \union undone'
      BY <1>2, <2>6, <2>7 DEF Foreign
    <3>1. c \in Held \union undone
      BY <1>5 DEF Orderly, Foreign
    <3> QED BY <2>8, <2>9, <3>1
  <2>12. SavedKept'
    <3>1. saved \subseteq store[p] \union undone' \union unsaved
      BY <1>5, <2>8, <2>9 DEF Orderly, SavedKept
    <3> QED BY <1>2, <1>3, <2>6, <3>1 DEF SavedKept
  <2> QED BY <2>3, <2>5, <2>10, <2>11, <2>12 DEF Orderly
<1> QED BY <1>2, <1>3, <1>4, <1>5 DEF ConfInv, InMemory

\* So does a rename that fails.
LEMMA ReplaceFailsKeeps ==
    ASSUME ConfInv, NEW p \in Programs, NEW t \in Threads, ReplaceFails(p, t)
    PROVE  ConfInv'
<1> DEFINE w == thread[p][t]
<1>1. w.step = "rename" /\ w.step \in Saving /\ temp = 0
  BY DEF ReplaceFails, Saving
<1>2. /\ Leave(p, t)
      /\ UNCHANGED <<file, temp, disk, store, running, author, undone, unsaved, clash, failures>>
  BY DEF ReplaceFails, onDisk
<1>3. /\ p \in running
      /\ thread' \in [Programs -> [Threads -> Doing']]
      /\ lock' \in [Programs -> Threads \union {free}]
      /\ Locked' /\ Stopped' /\ Pending' /\ ReadFresh'
      /\ saved' \subseteq 0..Made
  BY <1>1, <1>2, Leaving DEF ConfInv
<1>4. ConfTypes'
  BY <1>2, <1>3 DEF ConfInv, InMemory, ConfTypes, Made
<1>5. ~Orderly
  BY <1>1 DEF Orderly, Filling
<1> QED BY <1>2, <1>3, <1>4, <1>5 DEF ConfInv, InMemory

\* A start finds what is on the file, or what older versions left.
LEMMA StartKeeps ==
    ASSUME ConfigAssumption, ConfInv, NEW p \in Programs, Start(p)
    PROVE  ConfInv'
<1>1. /\ p \notin running /\ running' = running \union {p}
      /\ UNCHANGED <<file, temp, disk, author, saved, undone, unsaved, clash, failures>>
  BY DEF Start, onDisk, tally
<1>2. /\ lock[p] = free /\ store[p] = {}
      /\ \A t \in Threads : thread[p][t].step = "idle"
  BY <1>1 DEF ConfInv, InMemory, Stopped
<1>3. Doing' = Doing /\ (\A c : By(c)' = By(c)) /\ Made' = Made /\ Made \in Nat
  BY <1>1 DEF Doing, Made, By, ConfInv, InMemory, ConfTypes
<1>4. PICK S : /\ S \in SUBSET (0..Made) /\ store' = [store EXCEPT ![p] = S]
               /\ Readable => S = Held
               /\ ~Readable => S = Older
  <2>1. CASE Readable
    <3>1. store' = [store EXCEPT ![p] = Held]
      BY <2>1 DEF Start, Readable, Held
    <3>2. Held \in SUBSET (0..Made)
      BY HeldTyped DEF ConfInv, InMemory
    <3> QED BY <2>1, <3>1, <3>2
  <2>2. CASE ~Readable
    <3>1. store' = [store EXCEPT ![p] = Older] /\ Older \in SUBSET (0..Made)
      BY <1>3, <2>2 DEF Start, ConfigAssumption
    <3> QED BY <2>2, <3>1
  <2> QED BY <2>1, <2>2
<1>5. /\ store' \in [Programs -> SUBSET (0..Made)] /\ store'[p] = S
      /\ \A q \in Programs \ {p} : store'[q] = store[q]
  BY <1>4 DEF ConfInv, InMemory, ConfTypes
<1>6. /\ thread' \in [Programs -> [Threads -> Doing]] /\ lock' \in [Programs -> Threads \union {free}]
      /\ \A q \in Programs, t \in Threads :
            \/ /\ thread'[q][t] = thread[q][t]
               /\ lock'[q] = t <=> lock[q] = t
            \/ /\ q = p /\ t = "window" /\ lock'[q] = t
               /\ thread'[q][t].step = "open" /\ thread'[q][t].change \in S
  <2>1. CASE UNCHANGED <<lock, thread>>
    BY <2>1 DEF ConfInv, InMemory, ConfTypes
  <2>2. CASE /\ ~Readable /\ Older # {}
             /\ lock' = [lock EXCEPT ![p] = "window"]
             /\ thread' = [thread EXCEPT ![p]["window"] = Call("open", {}, 0, 1)]
    <3>1. PICK n : n = Call("open", {}, 0, 1)
      OBVIOUS
    <3>2. "open" \in {"idle", "read", "save"} \union Saving /\ 1 \in Int
          /\ {} \in SUBSET (0..Made) /\ 0 \in 0..Made
      BY <1>3 DEF Saving
    <3>3. n \in Doing /\ n.step = "open" /\ n.change = 0
      <4>1. n \in [step : {"idle", "read", "save"} \union Saving, read : SUBSET (0..Made),
                   change : 0..Made, saves : Int, fd : Nat]
        BY <3>1, <3>2, CallTyped
      <4> QED BY <3>1, <4>1 DEF Doing, Call
    <3>4. /\ thread' \in [Programs -> [Threads -> Doing]]
          /\ thread'[p]["window"] = n
          /\ \A q \in Programs, t \in Threads :
                q # p \/ t # "window" => thread'[q][t] = thread[q][t]
      BY <2>2, <3>1, <3>3, OneThread DEF Threads, ConfInv, InMemory, ConfTypes
    <3>5. 0 \in S
      BY <1>4, <2>2 DEF ConfigAssumption
    <3>6. lock' \in [Programs -> Threads \union {free}] /\ lock'[p] = "window"
          /\ \A q \in Programs \ {p} : lock'[q] = lock[q]
      BY <2>2 DEF Threads, ConfInv, InMemory, ConfTypes
    <3> QED BY <1>2, <3>3, <3>4, <3>5, <3>6 DEF Threads, free
  <2> QED BY <2>1, <2>2 DEF Start
<1>7. ConfTypes'
  BY <1>1, <1>3, <1>5, <1>6 DEF ConfInv, InMemory, ConfTypes
<1>8. Locked'
  BY <1>6 DEF ConfInv, InMemory, Locked, Saving
<1>9. Stopped'
  <2> SUFFICES ASSUME NEW q \in Programs \ running'
               PROVE  /\ store'[q] = {} /\ lock'[q] = free
                      /\ \A t \in Threads : thread'[q][t].step = "idle"
    BY DEF Stopped
  <2>1. q # p /\ store[q] = {} /\ lock[q] = free /\ \A t \in Threads : thread[q][t].step = "idle"
    BY <1>1 DEF ConfInv, InMemory, Stopped
  <2>2. \A t \in Threads : lock'[q] # t
    BY <1>6, <2>1 DEF Threads, free
  <2> QED BY <1>5, <1>6, <2>1, <2>2
<1>10. Pending'
  <2> SUFFICES ASSUME NEW q \in Programs, NEW t \in Threads,
                      thread'[q][t].step \in Saving \union {"save"}
               PROVE  thread'[q][t].change \in store'[q]
    BY DEF Pending
  <2>1. CASE q = p
    BY <1>2, <1>5, <1>6, <2>1 DEF Saving
  <2>2. CASE q # p
    BY <1>5, <1>6, <2>2 DEF ConfInv, InMemory, Pending
  <2> QED BY <2>1, <2>2
<1>11. ReadFresh'
  <2>1. ASSUME NEW q \in Programs, thread'[q]["window"].step = "read"
        PROVE  q # p /\ thread'[q]["window"] = thread[q]["window"]
    BY <1>2, <1>6, <2>1 DEF Threads
  <2> QED BY <1>3, <1>5, <2>1 DEF ConfInv, InMemory, ReadFresh
<1>12. ASSUME Orderly PROVE Orderly'
  <2>1. Held' = Held
    BY <1>1 DEF Held
  <2>2. S = Held
    BY <1>4, <1>12 DEF Readable, Orderly, Filed, Held
  <2>3. \A q \in Programs, t \in Threads :
           thread'[q][t].step \in {"fill", "rename"} => thread'[q][t] = thread[q][t] /\ q # p
    BY <1>2, <1>6
  <2>4. OneWriter' /\ Filed'
    BY <1>1, <1>12, <2>3 DEF Orderly, OneWriter, Writing, Filed
  <2>5. Filling'
    BY <1>1, <1>5, <1>12, <2>3 DEF Orderly, Filling
  <2>6. Own'
    BY <1>1, <1>3, <1>5, <1>12, <2>1, <2>2 DEF Orderly, Own, ConfInv, InMemory, ConfTypes
  <2>7. Foreign'
    BY <1>1, <1>3, <1>5, <1>12, <2>1, <2>2 DEF Orderly, Foreign
  <2>8. SavedKept'
    BY <1>1, <1>12, <2>1 DEF Orderly, SavedKept
  <2> QED BY <2>4, <2>5, <2>6, <2>7, <2>8 DEF Orderly
<1> QED BY <1>1, <1>7, <1>8, <1>9, <1>10, <1>11, <1>12 DEF ConfInv, InMemory

\* A program that dies leaves what is on file, and its memory is gone.
LEMMA DieKeeps ==
    ASSUME ConfigAssumption, ConfInv, NEW p \in Programs, Die(p)
    PROVE  ConfInv'
<1>1. /\ p \in running /\ running' = running \ {p}
      /\ failures < MaxFailures /\ failures' = failures + 1
      /\ UNCHANGED <<file, temp, disk, author, saved, undone, unsaved, clash>>
  BY DEF Die, onDisk
<1>2. Doing' = Doing /\ (\A c : By(c)' = By(c)) /\ Made' = Made /\ Made \in Nat
  BY <1>1 DEF Doing, Made, By, ConfInv, InMemory, ConfTypes
<1>3. /\ store' \in [Programs -> SUBSET (0..Made)] /\ store'[p] = {}
      /\ lock' \in [Programs -> Threads \union {free}] /\ lock'[p] = free
      /\ \A q \in Programs \ {p} : store'[q] = store[q] /\ lock'[q] = lock[q]
  BY DEF Die, ConfInv, InMemory, ConfTypes
<1>4. /\ thread' \in [Programs -> [Threads -> Doing]]
      /\ \A t \in Threads : thread'[p][t].step = "idle"
      /\ \A q \in Programs \ {p} : thread'[q] = thread[q]
  BY <1>2, IdleTyped DEF Die, ConfInv, InMemory, ConfTypes
<1>5. ConfTypes'
  <2>1. failures' \in 0..MaxFailures
    BY <1>1 DEF ConfInv, InMemory, ConfTypes, ConfigAssumption
  <2> QED BY <1>1, <1>2, <1>3, <1>4, <2>1 DEF ConfInv, InMemory, ConfTypes
<1>6. Locked'
  BY <1>3, <1>4 DEF ConfInv, InMemory, Locked, Saving, Threads, free
<1>7. Stopped'
  BY <1>1, <1>3, <1>4 DEF ConfInv, InMemory, Stopped
<1>8. Pending'
  BY <1>3, <1>4 DEF ConfInv, InMemory, Pending, Saving
<1>9. ReadFresh'
  BY <1>2, <1>3, <1>4 DEF ConfInv, InMemory, ReadFresh, Threads
<1>10. ASSUME Orderly PROVE Orderly'
  <2>1. Held' = Held
    BY <1>1 DEF Held
  <2>2. \A q \in Programs, t \in Threads :
           thread'[q][t].step \in {"fill", "rename"} => thread'[q][t] = thread[q][t] /\ q # p
    BY <1>4
  <2>3. OneWriter' /\ Filed' /\ Filling'
    BY <1>1, <1>3, <1>10, <2>2 DEF Orderly, OneWriter, Writing, Filed, Filling
  <2>4. Own'
    BY <1>1, <1>2, <1>3, <1>10, <2>1 DEF Orderly, Own, ConfInv, InMemory, ConfTypes
  <2>5. Foreign'
    BY <1>1, <1>2, <1>3, <1>10, <2>1 DEF Orderly, Foreign
  <2>6. SavedKept'
    BY <1>1, <1>10, <2>1 DEF Orderly, SavedKept
  <2> QED BY <2>3, <2>4, <2>5, <2>6 DEF Orderly
<1> QED BY <1>1, <1>5, <1>6, <1>7, <1>8, <1>9, <1>10 DEF ConfInv, InMemory

\* The invariant holds at the start.
LEMMA ConfStart == ASSUME ConfigAssumption, ConfigInit PROVE ConfInv
<1>1. Made = 0 /\ Made \in Nat
  BY DEF ConfigInit, Made
<1>2. Idle \in Doing /\ Idle.step = "idle"
  BY <1>1, IdleTyped
<1>3. Held = Older /\ Older \subseteq 0..Made
  BY <1>1 DEF ConfigInit, Held, ConfigAssumption
<1>4. \A p \in Programs, t \in Threads : thread[p][t] = Idle
  BY DEF ConfigInit
<1>5. ConfTypes
  <2>1. disk \in Seq([state : {"empty", "torn", "whole"}, has : SUBSET (0..Made)])
        /\ author \in Seq([program : Programs, thread : Threads]) /\ Len(disk) = 0
    BY DEF ConfigInit
  <2>2. thread \in [Programs -> [Threads -> Doing]]
    BY <1>2 DEF ConfigInit
  <2>3. /\ store \in [Programs -> SUBSET (0..Made)] /\ running \subseteq Programs
        /\ lock \in [Programs -> Threads \union {free}]
        /\ saved \subseteq 0..Made /\ undone \subseteq 0..Made /\ clash \in BOOLEAN
    BY <1>3 DEF ConfigInit, Held
  <2>4. Made <= MaxChanges /\ failures \in 0..MaxFailures /\ file \in 0..Len(disk) /\ temp \in 0..Len(disk)
    BY <1>1, <2>1 DEF ConfigInit, ConfigAssumption
  <2> QED BY <2>1, <2>2, <2>3, <2>4 DEF ConfTypes
<1>6. Locked /\ Stopped /\ Pending /\ ReadFresh
  BY <1>2, <1>4 DEF ConfigInit, Locked, Stopped, Pending, ReadFresh, Saving, Threads, free
<1>7. OneWriter /\ Filed /\ Filling
  BY <1>2, <1>4 DEF ConfigInit, OneWriter, Writing, Filed, Filling
<1>8. Own /\ Foreign /\ SavedKept
  BY <1>3 DEF ConfigInit, Own, Foreign, SavedKept
<1> QED BY <1>5, <1>6, <1>7, <1>8 DEF ConfInv, InMemory, Orderly

\* Every step keeps it.
LEMMA ConfStep == ASSUME ConfigAssumption, ConfInv, [ConfigNext]_configVars PROVE ConfInv'
<1>1. CASE UNCHANGED configVars
  <2>1. UNCHANGED <<file, temp, disk, store, running, lock, thread, author, saved, undone, unsaved,
                    clash, failures>>
    BY <1>1 DEF configVars, onDisk, inMemory, tally
  <2>2. Made' = Made /\ Doing' = Doing /\ Held' = Held /\ \A c : By(c)' = By(c)
    BY <2>1 DEF Made, Doing, Held, By
  <2>3. ConfTypes'
    BY <2>1, <2>2 DEF ConfInv, InMemory, ConfTypes
  <2>4. Locked' /\ Stopped' /\ Pending'
    BY <2>1 DEF ConfInv, InMemory, Locked, Stopped, Pending
  <2>5. ReadFresh'
    BY <2>1, <2>2 DEF ConfInv, InMemory, ReadFresh
  <2>6. ASSUME Orderly PROVE Orderly'
    <3>1. OneWriter' /\ Filed' /\ Filling'
      BY <2>1, <2>6 DEF Orderly, OneWriter, Writing, Filed, Filling
    <3>2. Own' /\ Foreign' /\ SavedKept'
      BY <2>1, <2>2, <2>6 DEF Orderly, Own, Foreign, SavedKept
    <3> QED BY <3>1, <3>2 DEF Orderly
  <2> QED BY <2>1, <2>3, <2>4, <2>5, <2>6 DEF ConfInv, InMemory
<1>2. ASSUME NEW p \in Programs, Program(p) PROVE ConfInv'
  BY <1>2, StartKeeps, DieKeeps, GetKeeps, SetKeeps, UpdateKeeps, StartSaveKeeps, OpenKeeps,
     FillKeeps, FillFailsKeeps, ReplaceKeeps, ReplaceFailsKeeps DEF Program, SaveStep
<1> QED BY <1>1, <1>2 DEF ConfigNext

\* The type invariant of the configuration and of the programs that share it.
THEOREM ConfigTypes == ConfigSpec => []ConfigTypeOK
<1>1. ConfInv => ConfigTypeOK
  <2> SUFFICES ASSUME ConfInv PROVE ConfigTypeOK
    OBVIOUS
  <2>1. Made \in Nat /\ MaxChanges \in Nat /\ Made <= MaxChanges
    BY ConfigAssumption DEF ConfInv, InMemory, ConfTypes, Made, ConfigAssumption
  <2>2. 0..Made \subseteq Changes
    BY <2>1 DEF Changes
  <2>3. \A i \in DOMAIN disk :
           disk[i].state \in {"empty", "torn", "whole"} /\ disk[i].has \subseteq 0..Made
    <3>1. \A i \in DOMAIN disk :
             disk[i] \in [state : {"empty", "torn", "whole"}, has : SUBSET (0..Made)]
      BY Elements DEF ConfInv, InMemory, ConfTypes
    <3> QED BY <3>1
  <2> QED BY <2>2, <2>3 DEF ConfInv, InMemory, ConfTypes, ConfigTypeOK
<1> QED BY <1>1, ConfigAssumption, ConfStart, ConfStep, PTL DEF ConfigSpec

\* A saved change stays on file until another program saves over it, and the file stays
\* readable, unless two programs save at once: for any number of programs, changes and
\* failures.
THEOREM SavedStays == ConfigSpec => []ConfigKept
<1>1. ConfInv => ConfigKept
  BY DEF ConfInv, Orderly, Filed, SavedKept, ConfigKept
<1> QED BY <1>1, ConfigAssumption, ConfStart, ConfStep, PTL DEF ConfigSpec

-------------------------------------------------------------------------------
(* The server.                                                               *)

\* What the server does is what its parts do, each with the others at rest.
THEOREM ServerParts == ServerSpec => Spec /\ ConfigSpec /\ ApiSpec
<1>1. ServerInit => Init /\ ConfigInit /\ ApiInit
  BY DEF ServerInit
<1>2. [ServerNext]_serverVars => [Next]_vars
  BY DEF ServerNext, serverVars
<1>3. [ServerNext]_serverVars => [ConfigNext]_configVars
  BY DEF ServerNext, serverVars
<1>4. [ServerNext]_serverVars => [ApiNext]_apiVars
  BY DEF ServerNext, serverVars
<1> QED BY <1>1, <1>2, <1>3, <1>4, PTL DEF ServerSpec, Spec, ConfigSpec, ApiSpec

\* The type invariant of the server, for any programs, secrets, clients and entries.
THEOREM ServerTypes == ServerSpec => []ServerTypeOK
<1>1. TypeOK /\ ConfigTypeOK /\ ApiTypeOK => ServerTypeOK
  BY DEF ServerTypeOK
<1> QED BY <1>1, ServerParts, SecretTypes, ConfigTypes, ApiTypes, PTL

\* What the server keeps for its user: changes that were saved, contents nobody gave up,
\* and the folders that a command was meant for.
THEOREM ServerKeeps == ServerSpec => [](ConfigKept /\ NothingLost /\ NotAstray)
BY ServerParts, SavedStays, NoContentLost, CommandsInPlace, PTL

===============================================================================
