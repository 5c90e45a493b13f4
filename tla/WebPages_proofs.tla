--------------------------- MODULE WebPages_proofs ---------------------------
(***************************************************************************)
(* Proofs about the web's pages, for every number of files, presses, jobs  *)
(* and requests under way: their types, the order the creation page sends, *)
(* and what the workspace shows once its requests are answered.            *)
(***************************************************************************)
EXTENDS Accounts_proofs

(***************************************************************************)
(* The creation page: types.                                               *)
(***************************************************************************)
LEMMA AttachTypes ==
    ASSUME CreationTypeOK, NEW a \in Attaches,
           \/ Attach(a) \/ AttachCreates(a) \/ AttachFails(a)
           \/ \E f \in Files : FileRegistered(a, f) \/ FileFails(a, f)
    PROVE  CreationTypeOK'
<1>. USE DEF CreationTypeOK, chipVars, confirmVars
<1>1. CASE Attach(a)
  BY <1>1 DEF Attach, NotesCrossing, EnsureProject, Creating
<1>2. CASE AttachCreates(a)
  BY <1>2 DEF AttachCreates, ProjectCreated
<1>3. CASE AttachFails(a)
  BY <1>3 DEF AttachFails
<1>4. ASSUME NEW f \in Files, NEW s \in {"done", "failed"}, Uploaded(a, f, s)
      PROVE  /\ chip' \in [Files -> {"absent", "pending", "done", "failed", "removed"}]
             /\ pick' \in [Attaches -> {"idle", "creating", "uploading", "over"}]
             /\ busy' \in BOOLEAN
  BY <1>4 DEF Uploaded
<1>5. ASSUME NEW f \in Files, FileRegistered(a, f) PROVE CreationTypeOK'
  <2>1. attached' \subseteq Files /\ storedIn' \in [Files -> Nat]
    BY <1>5 DEF FileRegistered
  <2>. QED
    BY <1>4, <1>5, <2>1 DEF FileRegistered, Uploaded
<1>6. ASSUME NEW f \in Files, FileFails(a, f) PROVE CreationTypeOK'
  <2>1. attached' \subseteq Files /\ storedIn' \in [Files -> Nat]
    BY <1>6 DEF FileFails
  <2>. QED
    BY <1>4, <1>6, <2>1 DEF FileFails, Uploaded
<1>. QED
  BY <1>1, <1>2, <1>3, <1>5, <1>6

LEMMA CreationType ==
    ASSUME CreationTypeOK, CreationStep
    PROVE  CreationTypeOK'
<1>1. CASE \E a \in Attaches :
              \/ Attach(a) \/ AttachCreates(a) \/ AttachFails(a)
              \/ \E f \in Files : FileRegistered(a, f) \/ FileFails(a, f)
  BY <1>1, AttachTypes
<1>. USE DEF CreationTypeOK, chipVars, confirmVars
<1>2. ASSUME NEW f \in Files, RemoveAttachment(f) PROVE CreationTypeOK'
  BY <1>2 DEF RemoveAttachment
<1>3. ASSUME NEW s \in Sends, Send(s) \/ SendCreates(s) \/ SendFails(s) PROVE CreationTypeOK'
  <2>1. CASE Send(s)
    <3>1. crossed' \in BOOLEAN
      BY <2>1 DEF Send, NotesCrossing
    <3>2. sending' \in [Sends -> {"idle", "creating", "over"}] /\ {busy', confirming'} \subseteq BOOLEAN
      BY <2>1 DEF Send
    <3>. QED
      BY <2>1, <3>1, <3>2 DEF Send
  <2>2. CASE SendCreates(s)
    <3>1. created' \in Nat /\ pageProject' \in Nat
      BY <2>2 DEF SendCreates, ProjectCreated
    <3>2. sending' \in [Sends -> {"idle", "creating", "over"}] /\ {busy', confirming'} \subseteq BOOLEAN
      BY <2>2 DEF SendCreates
    <3>. QED
      BY <2>2, <3>1, <3>2 DEF SendCreates
  <2>3. CASE SendFails(s)
    BY <2>3 DEF SendFails
  <2>. QED
    BY <1>3, <2>1, <2>2, <2>3
<1>4. ASSUME NEW c \in Confirms,
             \/ Confirm(c) \/ OrderIgnored(c) \/ OrderSent(c)
             \/ OrderAccepted(c) \/ OrderRefused(c)
      PROVE  CreationTypeOK'
  <2>1. CASE Confirm(c)
    BY <2>1 DEF Confirm, Chips
  <2>2. ASSUME Drop(c)
        PROVE  /\ press' \in [Confirms -> {"idle", "timer", "sent", "over"}]
               /\ names' \in [Confirms -> SUBSET Files] /\ seen' \in [Confirms -> SUBSET Files]
               /\ under' \in [Confirms -> Nat]
    BY <2>2 DEF Drop
  <2>3. CASE OrderSent(c)
    BY <2>3 DEF OrderSent
  <2>4. CASE OrderIgnored(c)
    BY <2>2, <2>4 DEF OrderIgnored
  <2>5. CASE OrderAccepted(c)
    BY <2>2, <2>5 DEF OrderAccepted
  <2>6. CASE OrderRefused(c)
    BY <2>2, <2>6 DEF OrderRefused
  <2>. QED
    BY <1>4, <2>1, <2>3, <2>4, <2>5, <2>6
<1>5. CASE CancelConfirm
  BY <1>5 DEF CancelConfirm
<1>. QED
  BY <1>1, <1>2, <1>3, <1>4, <1>5 DEF CreationStep

(***************************************************************************)
(* The creation page: the order.                                           *)
(***************************************************************************)
\* Files are picked once, and wait until the attach has its project.
PickInv ==
    /\ \A a \in Attaches : pick[a] # "idle" => BatchFiles(a) \cap Chips({"absent"}) = {}
    /\ \A a \in Attaches : pick[a] = "creating" => BatchFiles(a) \subseteq Chips({"pending"})
    /\ \A a, b \in Attaches :
        a # b /\ pick[a] # "idle" /\ pick[b] # "idle" => BatchFiles(a) \cap BatchFiles(b) = {}

\* Another file of its name was removed.
Shadowed(f) == \E g \in Chips({"removed"}) : g # f /\ FileName[g] = FileName[f]

\* What an order would name is shown as ready, and all that is but the shadowed.
ReadyInv ==
    /\ attached \subseteq Chips({"done"})
    /\ \A f \in Chips({"done"}) \ attached : Shadowed(f)

\* At most one order is out, behind the ref, and it keeps what was pressed.
OrderInv ==
    /\ \A c, d \in Ordered : c = d
    /\ Ordered # {} => enqueuing /\ ~left
    /\ left => enqueuing
    /\ \A c \in Confirms :
        /\ names[c] \subseteq seen[c] /\ seen[c] \subseteq Chips({"done", "removed"})
        /\ \A f \in seen[c] \ names[c] : Shadowed(f)

\* While no request for a project crossed another, there is one project, and all is
\* stored in it.
ProjectInv ==
    /\ pageProject = created
    /\ created = 0 => attached = {}
    /\ \A a \in Attaches : pick[a] = "uploading" => created # 0
    /\ ~crossed =>
        /\ created <= 1
        /\ Creating => created = 0
        /\ \A a, b \in Attaches : pick[a] = "creating" /\ pick[b] = "creating" => a = b
        /\ \A s, t \in Sends : sending[s] = "creating" /\ sending[t] = "creating" => s = t
        /\ \A a \in Attaches, s \in Sends : ~(pick[a] = "creating" /\ sending[s] = "creating")
        /\ \A a \in Attaches : pick[a] = "uploading" => into[a] = created
        /\ \A f \in attached : storedIn[f] = created
        /\ \A c \in Confirms : \A f \in names[c] : storedIn[f] = under[c]

CreationInv == PickInv /\ ReadyInv /\ OrderInv /\ ProjectInv

\* Every batch is of the user's files.
LEMMA BatchType == ASSUME NEW a \in Attaches PROVE BatchFiles(a) \subseteq Files
BY CreationAssumption DEF BatchFiles

\* A shadowed file stays so while nothing that was removed comes back.
LEMMA ShadowStays ==
    ASSUME Chips({"removed"}) \subseteq Chips({"removed"})', NEW f, Shadowed(f)
    PROVE  Shadowed(f)'
BY DEF Shadowed

LEMMA PickKept ==
    ASSUME PickInv, UNCHANGED <<chip, pick>>
    PROVE  PickInv'
BY DEF PickInv, Chips, BatchFiles

LEMMA ReadyKept ==
    ASSUME ReadyInv, UNCHANGED attached,
           Chips({"done"})' = Chips({"done"}), Chips({"removed"}) \subseteq Chips({"removed"})'
    PROVE  ReadyInv'
BY ShadowStays DEF ReadyInv

\* What becomes of other files is nothing to an order.
LEMMA OrderKept ==
    ASSUME OrderInv, UNCHANGED <<press, names, seen, left, enqueuing>>,
           Chips({"removed"}) \subseteq Chips({"removed"})',
           Chips({"done", "removed"}) \subseteq Chips({"done", "removed"})'
    PROVE  OrderInv'
<1>1. \A f : Shadowed(f) => Shadowed(f)'
  BY ShadowStays
<1>. QED
  BY <1>1 DEF OrderInv, Ordered

LEMMA ProjectKept ==
    ASSUME ProjectInv,
           UNCHANGED <<pageProject, created, attached, storedIn, pick, into, sending, names, under, crossed>>
    PROVE  ProjectInv'
BY DEF ProjectInv, Creating

LEMMA AttachKeeps ==
    ASSUME CreationTypeOK, CreationInv, NEW a \in Attaches, Attach(a)
    PROVE  CreationInv'
<1>. USE DEF CreationInv
<1>1. /\ BatchFiles(a) \subseteq Chips({"absent"})
      /\ chip' = [f \in Files |-> IF f \in BatchFiles(a) THEN "pending" ELSE chip[f]]
      /\ pick' = [pick EXCEPT ![a] = IF EnsureProject THEN "creating" ELSE "uploading"]
      /\ pick[a] = "idle"
  BY DEF Attach
<1>2. /\ \A s \in {"done", "removed"} : \A f \in Files : chip'[f] = s <=> chip[f] = s
      /\ \A f \in BatchFiles(a) : f \in Files /\ chip[f] = "absent" /\ chip'[f] = "pending"
      /\ \A f \in Files \ BatchFiles(a) : chip'[f] = chip[f]
  BY <1>1, BatchType DEF Chips, CreationTypeOK
<1>3. PickInv'
  <2>1. \A b \in Attaches \ {a} : pick'[b] = pick[b]
    BY <1>1 DEF CreationTypeOK
  <2>2. \A b \in Attaches \ {a} : pick[b] # "idle" => BatchFiles(a) \cap BatchFiles(b) = {}
    BY <1>1 DEF PickInv
  <2>3. pick'[a] \in {"creating", "uploading"}
    BY <1>1 DEF CreationTypeOK
  <2>4. \A b \in Attaches : pick'[b] # "idle" => BatchFiles(b) \cap Chips({"absent"})' = {}
    BY <1>2, <2>1, <2>2, <2>3 DEF PickInv, Chips
  <2>5. \A b \in Attaches : pick'[b] = "creating" => BatchFiles(b) \subseteq Chips({"pending"})'
    BY <1>2, <2>1, <2>2, <2>3 DEF PickInv, Chips
  <2>6. ASSUME NEW b \in Attaches, NEW d \in Attaches, b # d, pick'[b] # "idle", pick'[d] # "idle"
        PROVE  BatchFiles(b) \cap BatchFiles(d) = {}
    <3>1. CASE b = a
      BY <2>1, <2>2, <2>6, <3>1
    <3>2. CASE d = a
      BY <2>1, <2>2, <2>6, <3>2
    <3>3. CASE b # a /\ d # a
      BY <2>1, <2>6, <3>3 DEF PickInv
    <3>. QED
      BY <3>1, <3>2, <3>3
  <2>. QED
    BY <2>4, <2>5, <2>6 DEF PickInv, BatchFiles
<1>4. /\ Chips({"done"})' = Chips({"done"}) /\ Chips({"removed"})' = Chips({"removed"})
      /\ Chips({"done", "removed"})' = Chips({"done", "removed"})
  BY <1>2 DEF Chips
<1>5. ReadyInv' /\ OrderInv'
  BY <1>4, ReadyKept, OrderKept DEF Attach, confirmVars
<1>6. ProjectInv'
  BY DEF Attach, ProjectInv, NotesCrossing, EnsureProject, Creating, CreationTypeOK, confirmVars
<1>. QED
  BY <1>3, <1>5, <1>6

LEMMA AttachAnswerKeeps ==
    ASSUME CreationTypeOK, CreationInv, NEW a \in Attaches, AttachCreates(a) \/ AttachFails(a)
    PROVE  CreationInv'
<1>. USE DEF CreationInv
<1>1. pick[a] = "creating" /\ BatchFiles(a) \subseteq Chips({"pending"})
  BY DEF AttachCreates, AttachFails, PickInv
<1>2. CASE AttachCreates(a)
  <2>1. PickInv'
    <3>1. \A b \in Attaches : /\ pick'[b] # "idle" => pick[b] # "idle"
                              /\ pick'[b] = "creating" => pick[b] = "creating"
      BY <1>1, <1>2 DEF AttachCreates, CreationTypeOK
    <3>2. /\ Chips({"absent"})' = Chips({"absent"}) /\ Chips({"pending"})' = Chips({"pending"})
          /\ \A b : BatchFiles(b)' = BatchFiles(b)
      BY <1>2 DEF AttachCreates, chipVars, Chips, BatchFiles
    <3>. QED
      BY <3>1, <3>2 DEF PickInv
  <2>2. Chips({"done"})' = Chips({"done"}) /\ Chips({"removed"})' = Chips({"removed"})
        /\ Chips({"done", "removed"})' = Chips({"done", "removed"})
    BY <1>2 DEF AttachCreates, chipVars, Chips
  <2>3. ReadyInv' /\ OrderInv'
    BY <1>2, <2>2, ReadyKept, OrderKept DEF AttachCreates, chipVars, confirmVars
  <2>4. ProjectInv'
    <3>1. Creating
      BY <1>1 DEF Creating
    <3>. QED
      BY <1>1, <1>2, <3>1 DEF AttachCreates, ProjectCreated, ProjectInv, Creating, CreationTypeOK,
                              chipVars, confirmVars
  <2>. QED
    BY <2>1, <2>3, <2>4
<1>3. CASE AttachFails(a)
  <2>1. /\ pick' = [pick EXCEPT ![a] = "over"]
        /\ \A f \in BatchFiles(a) : f \in Files /\ chip[f] = "pending" /\ chip'[f] = "failed"
        /\ \A f \in Files \ BatchFiles(a) : chip'[f] = chip[f]
    BY <1>1, <1>3, BatchType DEF AttachFails, Chips
  <2>2. PickInv'
    <3>1. \A b \in Attaches \ {a} : pick'[b] = pick[b]
      BY <2>1 DEF CreationTypeOK
    <3>2. pick'[a] = "over"
      BY <2>1 DEF CreationTypeOK
    <3>3. \A b \in Attaches \ {a} : pick[b] # "idle" => BatchFiles(a) \cap BatchFiles(b) = {}
      BY <1>1 DEF PickInv
    <3>4. \A b \in Attaches : pick'[b] # "idle" => BatchFiles(b) \cap Chips({"absent"})' = {}
      BY <1>1, <2>1, <3>1, <3>2 DEF PickInv, Chips
    <3>5. \A b \in Attaches : pick'[b] = "creating" => BatchFiles(b) \subseteq Chips({"pending"})'
      BY <2>1, <3>1, <3>2, <3>3 DEF PickInv, Chips
    <3>. QED
      BY <1>1, <3>1, <3>4, <3>5 DEF PickInv, BatchFiles
  <2>3. Chips({"done"})' = Chips({"done"}) /\ Chips({"removed"})' = Chips({"removed"})
        /\ Chips({"done", "removed"})' = Chips({"done", "removed"})
    BY <2>1 DEF Chips
  <2>4. ReadyInv' /\ OrderInv'
    BY <1>3, <2>3, ReadyKept, OrderKept DEF AttachFails, confirmVars
  <2>5. ProjectInv'
    BY <1>3 DEF AttachFails, ProjectInv, Creating, CreationTypeOK, confirmVars
  <2>. QED
    BY <2>2, <2>4, <2>5
<1>. QED
  BY <1>2, <1>3

LEMMA FileKeeps ==
    ASSUME CreationTypeOK, CreationInv, NEW a \in Attaches, NEW f \in Files,
           FileRegistered(a, f) \/ FileFails(a, f)
    PROVE  CreationInv'
<1>. USE DEF CreationInv
<1>1. PICK s \in {"done", "failed"} :
        /\ Uploaded(a, f, s)
        /\ s = "done" => attached' = attached \cup {f} /\ storedIn' = [storedIn EXCEPT ![f] = into[a]]
        /\ s = "failed" => /\ attached' = attached
                           /\ storedIn' \in {storedIn, [storedIn EXCEPT ![f] = into[a]]}
  BY DEF FileRegistered, FileFails
<1>2. /\ pick[a] = "uploading" /\ chip[f] = "pending" /\ f \in BatchFiles(a)
      /\ chip'[f] = s /\ \A g \in Files \ {f} : chip'[g] = chip[g]
      /\ \A b \in Attaches \ {a} : pick'[b] = pick[b]
      /\ pick'[a] \in {"uploading", "over"}
      /\ \A g \in Files \ {f} : storedIn'[g] = storedIn[g]
      /\ s = "done" => storedIn'[f] = into[a]
  BY <1>1 DEF Uploaded, IsNextFile, BatchFiles, CreationTypeOK
<1>3. PickInv'
  <2>1. \A b \in Attaches : pick'[b] # "idle" => BatchFiles(b) \cap Chips({"absent"})' = {}
    BY <1>2 DEF PickInv, Chips
  <2>2. \A b \in Attaches : pick'[b] = "creating" => BatchFiles(b) \subseteq Chips({"pending"})'
    <3>1. ASSUME NEW b \in Attaches, pick'[b] = "creating" PROVE BatchFiles(b) \subseteq Chips({"pending"})'
      <4>1. b # a /\ pick[b] = "creating" /\ f \notin BatchFiles(b)
        BY <1>2, <3>1 DEF PickInv
      <4>. QED
        BY <1>2, <4>1 DEF PickInv, Chips
    <3>. QED
      BY <3>1
  <2>. QED
    BY <1>2, <2>1, <2>2 DEF PickInv, BatchFiles
<1>4. Chips({"removed"})' = Chips({"removed"}) /\ f \notin Chips({"done"})
  BY <1>2 DEF Chips
<1>5. ReadyInv'
  <2>1. CASE s = "done"
    <3>1. Chips({"done"})' = Chips({"done"}) \cup {f}
      BY <1>2, <2>1 DEF Chips
    <3>. QED
      BY <1>1, <1>4, <2>1, <3>1, ShadowStays DEF ReadyInv
  <2>2. CASE s = "failed"
    <3>1. Chips({"done"})' = Chips({"done"})
      BY <1>2, <2>2 DEF Chips
    <3>. QED
      BY <1>1, <1>4, <2>2, <3>1, ReadyKept
  <2>. QED
    BY <2>1, <2>2
<1>6. OrderInv'
  <2>1. Chips({"done", "removed"}) \subseteq Chips({"done", "removed"})'
    BY <1>2 DEF Chips
  <2>. QED
    BY <1>1, <1>4, <2>1, OrderKept DEF Uploaded, confirmVars
<1>7. ProjectInv'
  <2>1. UNCHANGED <<pageProject, created, into, sending, names, under, crossed>>
    BY <1>1 DEF Uploaded, confirmVars
  <2>2. Creating' => Creating
    BY <1>2, <2>1 DEF Creating
  <2>3. f \notin attached /\ \A c \in Confirms : f \notin names[c]
    BY <1>2 DEF ReadyInv, OrderInv, Chips
  <2>4. attached' \subseteq attached \cup {f} /\ (f \in attached' => s = "done")
    BY <1>1, <2>3
  <2>5. created # 0
    BY <1>2 DEF ProjectInv
  <2>6. ~crossed => \A g \in attached' : storedIn'[g] = created
    BY <1>2, <2>4 DEF ProjectInv, ReadyInv, Chips
  <2>7. ~crossed => \A c \in Confirms : \A g \in names[c] : storedIn'[g] = under[c]
    BY <1>2, <2>3 DEF ProjectInv, OrderInv, Chips
  <2>. QED
    BY <1>2, <2>1, <2>2, <2>5, <2>6, <2>7 DEF ProjectInv
<1>. QED
  BY <1>3, <1>5, <1>6, <1>7

LEMMA RemoveKeeps ==
    ASSUME CreationTypeOK, CreationInv, NEW f \in Files, RemoveAttachment(f)
    PROVE  CreationInv'
<1>. USE DEF CreationInv
<1>1. /\ chip[f] \in {"done", "failed"} /\ chip'[f] = "removed"
      /\ \A g \in Files \ {f} : chip'[g] = chip[g]
      /\ attached' = {g \in attached : FileName[g] # FileName[f]}
      /\ UNCHANGED <<storedIn, pageProject, created, pick, into, sending, busy, confirmVars, crossed>>
  BY DEF RemoveAttachment, CreationTypeOK
<1>2. PickInv'
  BY <1>1 DEF PickInv, Chips, BatchFiles
<1>3. /\ Chips({"removed"})' = Chips({"removed"}) \cup {f}
      /\ Chips({"done", "removed"}) \subseteq Chips({"done", "removed"})'
      /\ Chips({"done"})' = Chips({"done"}) \ {f}
  BY <1>1 DEF Chips
<1>4. ReadyInv'
  <2>1. ASSUME NEW g \in Chips({"done"})' \ attached' PROVE Shadowed(g)'
    <3>1. CASE g \in attached
      BY <1>1, <1>3, <2>1, <3>1 DEF Shadowed
    <3>2. CASE g \notin attached
      BY <1>3, <2>1, <3>2, ShadowStays DEF ReadyInv
    <3>. QED
      BY <3>1, <3>2
  <2>2. attached' \subseteq Chips({"done"})'
    BY <1>1, <1>3 DEF ReadyInv
  <2>. QED
    BY <2>1, <2>2 DEF ReadyInv
<1>5. OrderInv'
  BY <1>1, <1>3, OrderKept DEF confirmVars
<1>6. ProjectInv'
  BY <1>1 DEF ProjectInv, Creating, confirmVars
<1>. QED
  BY <1>2, <1>4, <1>5, <1>6

LEMMA SendKeeps ==
    ASSUME CreationTypeOK, CreationInv, NEW s \in Sends, Send(s) \/ SendCreates(s) \/ SendFails(s)
    PROVE  CreationInv'
<1>. USE DEF CreationInv
<1>1. UNCHANGED <<chipVars, pick, into, press, names, under, seen, left, enqueuing>>
  BY DEF Send, SendCreates, SendFails, confirmVars
<1>2. PickInv' /\ ReadyInv' /\ OrderInv'
  <2>1. \A S : Chips(S)' = Chips(S)
    BY <1>1 DEF chipVars, Chips
  <2>. QED
    BY <1>1, <2>1, PickKept, ReadyKept, OrderKept DEF chipVars
<1>3. ProjectInv'
  <2>1. CASE Send(s)
    <3>1. /\ UNCHANGED <<pageProject, created, attached, storedIn, pick, into, names, under>>
          /\ crossed' = (crossed \/ (pageProject = 0 /\ Creating))
      BY <1>1, <2>1 DEF Send, NotesCrossing, EnsureProject, chipVars
    <3>2. CASE pageProject = 0
      <4>1. sending' = [sending EXCEPT ![s] = "creating"]
        BY <2>1, <3>2 DEF Send, EnsureProject
      <4>2. ~crossed' => ~crossed /\ ~Creating
        BY <3>1, <3>2
      <4>. QED
        BY <3>1, <3>2, <4>1, <4>2 DEF ProjectInv, Creating, CreationTypeOK
    <3>3. CASE pageProject # 0
      <4>1. sending' = [sending EXCEPT ![s] = "over"]
        BY <2>1, <3>3 DEF Send, EnsureProject
      <4>2. crossed' = crossed
        BY <2>1, <3>3 DEF Send, NotesCrossing, EnsureProject, CreationTypeOK
      <4>. QED
        BY <3>1, <3>3, <4>1, <4>2 DEF ProjectInv, Creating, CreationTypeOK
    <3>. QED
      BY <3>2, <3>3
  <2>2. CASE SendCreates(s)
    <3>1. sending[s] = "creating" /\ Creating
      BY <2>2 DEF SendCreates, Creating
    <3>. QED
      BY <1>1, <2>2, <3>1 DEF SendCreates, ProjectCreated, ProjectInv, Creating, CreationTypeOK, chipVars
  <2>3. CASE SendFails(s)
    BY <1>1, <2>3 DEF SendFails, ProjectInv, Creating, CreationTypeOK, chipVars, confirmVars
  <2>. QED
    BY <2>1, <2>2, <2>3
<1>. QED
  BY <1>2, <1>3

LEMMA ConfirmKeeps ==
    ASSUME CreationTypeOK, CreationInv, NEW c \in Confirms,
           \/ Confirm(c) \/ OrderIgnored(c) \/ OrderSent(c)
           \/ OrderAccepted(c) \/ OrderRefused(c)
    PROVE  CreationInv'
<1>. USE DEF CreationInv
<1>1. UNCHANGED <<chipVars, pageProject, created, pick, into, sending, crossed>>
  BY DEF Confirm, OrderIgnored, OrderSent, OrderAccepted, OrderRefused
<1>2. PickInv' /\ ReadyInv'
  <2>1. \A S : Chips(S)' = Chips(S)
    BY <1>1 DEF chipVars, Chips
  <2>. QED
    BY <1>1, <2>1, PickKept, ReadyKept DEF chipVars
<1>3. Chips({"done"}) \subseteq Chips({"done", "removed"}) /\ \A f : Shadowed(f)' = Shadowed(f)
      /\ Chips({"done", "removed"})' = Chips({"done", "removed"})
  BY <1>1 DEF chipVars, Chips, Shadowed
<1>4. /\ \A d \in Confirms \ {c} : press'[d] = press[d] /\ names'[d] = names[d] /\ seen'[d] = seen[d]
                                   /\ under'[d] = under[d]
      /\ \/ names'[c] = names[c] /\ seen'[c] = seen[c] /\ under'[c] = under[c]
         \/ names'[c] = {} /\ seen'[c] = {}
         \/ names'[c] = attached /\ seen'[c] = Chips({"done"}) /\ under'[c] = created
  BY DEF Confirm, OrderIgnored, OrderSent, OrderAccepted, OrderRefused, Drop, ProjectInv, CreationTypeOK
<1>5. \A d \in Confirms :
        /\ names'[d] \subseteq seen'[d] /\ seen'[d] \subseteq Chips({"done", "removed"})'
        /\ \A f \in seen'[d] \ names'[d] : Shadowed(f)'
  <2>1. ASSUME NEW d \in Confirms, d # c
        PROVE  /\ names'[d] \subseteq seen'[d] /\ seen'[d] \subseteq Chips({"done", "removed"})'
               /\ \A f \in seen'[d] \ names'[d] : Shadowed(f)'
    BY <1>3, <1>4, <2>1 DEF OrderInv
  <2>2. /\ names'[c] \subseteq seen'[c] /\ seen'[c] \subseteq Chips({"done", "removed"})'
        /\ \A f \in seen'[c] \ names'[c] : Shadowed(f)'
    BY <1>3, <1>4 DEF OrderInv, ReadyInv
  <2>. QED
    BY <2>1, <2>2
<1>6. OrderInv'
  <2>1. CASE Confirm(c) \/ OrderIgnored(c)
    <3>1. Ordered' = Ordered /\ UNCHANGED <<enqueuing, left>>
      BY <2>1 DEF Confirm, OrderIgnored, Drop, Ordered, CreationTypeOK
    <3>. QED
      BY <1>5, <3>1 DEF OrderInv
  <2>2. CASE OrderSent(c)
    <3>1. Ordered' = {c} /\ enqueuing' /\ left' = left /\ ~left
      BY <2>2 DEF OrderSent, Ordered, OrderInv, CreationTypeOK
    <3>. QED
      BY <1>5, <3>1 DEF OrderInv
  <2>3. CASE OrderAccepted(c)
    <3>1. Ordered' = {} /\ enqueuing' = enqueuing /\ left' /\ enqueuing
      BY <2>3 DEF OrderAccepted, Drop, Ordered, OrderInv, CreationTypeOK
    <3>. QED
      BY <1>5, <3>1 DEF OrderInv
  <2>4. CASE OrderRefused(c)
    <3>1. Ordered' = {} /\ left' = left /\ ~left
      BY <2>4 DEF OrderRefused, Drop, Ordered, OrderInv, CreationTypeOK
    <3>. QED
      BY <1>5, <3>1 DEF OrderInv
  <2>. QED
    BY <2>1, <2>2, <2>3, <2>4
<1>7. ProjectInv'
  <2>1. ~crossed => \A d \in Confirms : \A f \in names'[d] : storedIn[f] = under'[d]
    <3>1. ASSUME ~crossed, NEW d \in Confirms, d # c
          PROVE  \A f \in names'[d] : storedIn[f] = under'[d]
      BY <1>4, <3>1 DEF ProjectInv
    <3>2. ASSUME ~crossed
          PROVE  \A f \in names'[c] : storedIn[f] = under'[c]
      BY <1>4, <3>2 DEF ProjectInv
    <3>. QED
      BY <3>1, <3>2
  <2>. QED
    BY <1>1, <2>1 DEF ProjectInv, Creating, chipVars
<1>. QED
  BY <1>2, <1>6, <1>7

LEMMA CreationNext ==
    ASSUME CreationTypeOK, CreationInv, [CreationStep]_creationVars
    PROVE  CreationInv'
<1>1. CASE \E a \in Attaches :
              \/ Attach(a) \/ AttachCreates(a) \/ AttachFails(a)
              \/ \E f \in Files : FileRegistered(a, f) \/ FileFails(a, f)
  BY <1>1, AttachKeeps, AttachAnswerKeeps, FileKeeps
<1>2. CASE \E f \in Files : RemoveAttachment(f)
  BY <1>2, RemoveKeeps
<1>3. CASE \E s \in Sends : Send(s) \/ SendCreates(s) \/ SendFails(s)
  BY <1>3, SendKeeps
<1>4. CASE \E c \in Confirms : \/ Confirm(c) \/ OrderIgnored(c) \/ OrderSent(c)
                               \/ OrderAccepted(c) \/ OrderRefused(c)
  BY <1>4, ConfirmKeeps
<1>5. CASE CancelConfirm \/ UNCHANGED creationVars
  <2>1. UNCHANGED <<chipVars, pageProject, created, pick, into, sending, crossed, enqueuing, press,
                    names, under, seen, left>>
    BY <1>5 DEF CancelConfirm, creationVars, chipVars
  <2>2. Chips({"done"})' = Chips({"done"}) /\ Chips({"removed"})' = Chips({"removed"})
        /\ Chips({"done", "removed"})' = Chips({"done", "removed"})
    BY <2>1 DEF chipVars, Chips
  <2>. QED
    BY <2>1, <2>2, PickKept, ReadyKept, OrderKept, ProjectKept DEF chipVars, CreationInv
<1>. QED
  BY <1>1, <1>2, <1>3, <1>4, <1>5 DEF CreationStep

LEMMA CreationStart == CreationInit => CreationTypeOK /\ CreationInv
<1>. SUFFICES ASSUME CreationInit PROVE CreationTypeOK /\ CreationInv
  OBVIOUS
<1>1. CreationTypeOK
  BY DEF CreationInit, CreationTypeOK
<1>2. Chips({"done"}) = {} /\ Ordered = {} /\ ~Creating
  BY DEF CreationInit, Chips, Ordered, Creating
<1>. QED
  BY <1>1, <1>2 DEF CreationInit, CreationInv, PickInv, ReadyInv, OrderInv, ProjectInv

\* The page, whatever else the site does.
LEMMA CreationHolds == SiteSpec => [](CreationTypeOK /\ CreationInv)
<1>1. SiteInit => CreationTypeOK /\ CreationInv
  BY CreationStart DEF SiteInit
<1>2. CreationTypeOK /\ CreationInv /\ [SiteNext]_siteVars => (CreationTypeOK /\ CreationInv)'
  <2>. SUFFICES ASSUME CreationTypeOK, CreationInv, [SiteNext]_siteVars
                PROVE  CreationTypeOK' /\ CreationInv'
    OBVIOUS
  <2>1. [CreationStep]_creationVars
    BY DEF SiteNext, siteVars, OnAccounts, OnCreation, OnWorkspace
  <2>2. CASE CreationStep
    BY <2>2, CreationType, CreationNext
  <2>3. CASE UNCHANGED creationVars
    BY <2>3, CreationNext DEF creationVars, CreationTypeOK
  <2>. QED
    BY <2>1, <2>2, <2>3
<1>. QED
  BY <1>1, <1>2, PTL DEF SiteSpec

\* However uploads, removals, sends and confirms interleave on the values of earlier
\* renders, at most one order is out or accepted, it names what was shown as ready when
\* it was confirmed, and while no request for a project crossed another it and its
\* files belong to one project (ensureProject, onAttach, onConfirm).
THEOREM OrderConfirmed == SiteSpec => []OrderIsWhatWasConfirmed
<1>1. CreationTypeOK /\ CreationInv => OrderIsWhatWasConfirmed
  <2>. SUFFICES ASSUME CreationTypeOK, CreationInv PROVE OrderIsWhatWasConfirmed
    OBVIOUS
  <2>. USE DEF CreationInv
  <2>1. Cardinality(Ordered) + (IF left THEN 1 ELSE 0) <= 1
    <3>1. CASE Ordered = {}
      <4>1. Cardinality(Ordered) = 0
        BY <3>1, FS_EmptySet
      <4>. QED
        BY <4>1
    <3>2. CASE Ordered # {}
      <4>1. PICK c : Ordered = {c}
        BY <3>2 DEF OrderInv
      <4>2. Cardinality(Ordered) = 1 /\ ~left
        BY <3>2, <4>1, FS_Singleton DEF OrderInv
      <4>. QED
        BY <4>2
    <3>. QED
      BY <3>1, <3>2
  <2>2. ASSUME NEW c \in Ordered
        PROVE  /\ names[c] \subseteq seen[c]
               /\ \A f \in seen[c] \ names[c] :
                    \E g \in Chips({"removed"}) : g # f /\ FileName[g] = FileName[f]
               /\ ~crossed => \A f \in names[c] : storedIn[f] = under[c]
    BY <2>2 DEF Ordered, OrderInv, ProjectInv, Shadowed
  <2>. QED
    BY <2>1, <2>2 DEF OrderIsWhatWasConfirmed, ProjectInv
<1>. QED
  BY <1>1, CreationHolds, PTL

(***************************************************************************)
(* The workspace: types.                                                   *)
(***************************************************************************)
LEMMA TopicOf ==
    /\ DOMAIN Topic = {"project", "share", "sources", "upload", "order", "poll", "deck"}
    /\ Topic["project"] = "link" /\ Topic["share"] = "link"
    /\ Topic["sources"] = "sources" /\ Topic["upload"] = "sources"
    /\ Topic["order"] = "job" /\ Topic["poll"] = "job" /\ Topic["deck"] = "deck"
BY DEF Topic

\* Who may have asked, and that a poll names a job.
MayAsk(c) ==
    /\ c.what \in {"project", "share", "sources", "upload", "order", "poll", "deck"}
    /\ c.what = "upload" => c.by \in Uploads
    /\ c.what = "order" => c.by \in Orders
    /\ c.what = "share" => c.by \in Shares
    /\ c.what \in {"poll", "deck"} => c.by \in Orders \cup {Mount}
    /\ c.what = "sources" => c.by \in Uploads \cup {Mount}
    /\ c.what = "project" => c.by = Mount
    /\ c.what = "poll" => c.job \in Jobs

\* An answer about an order is an active job, one to a poll is about the job it names.
AnswersAsAsked(a) ==
    /\ MayAsk(a.call)
    /\ a.call.what = "order" => a.says.view.job \in Jobs /\ a.says.view.status \in Active
    /\ a.call.what = "poll" => /\ a.says.view.job = a.call.job
                               /\ a.says.view.status = "completed" => work[a.call.job] = "completed"

WireInv == (\A c \in calls : MayAsk(c)) /\ \A a \in answers : AnswersAsAsked(a)

LEMMA RequestType ==
    ASSUME NEW what, NEW by, NEW j \in 0..MaxJobs, MayAsk(Request(what, by, j))
    PROVE  Request(what, by, j) \in Call /\ Topic[what] \in Topics
BY TopicOf DEF MayAsk, Request, Call, Topics

LEMMA SilentType ==
    ASSUME NEW s \in SUBSET Uploads, NEW l \in Nat, NEW v \in JobView, NEW d \in BOOLEAN
    PROVE  /\ Silent \in Says /\ [Silent EXCEPT !.sources = s] \in Says
           /\ [Silent EXCEPT !.link = l] \in Says /\ [Silent EXCEPT !.view = v] \in Says
           /\ [Silent EXCEPT !.deck = d] \in Says
<1>1. NoJob \in JobView
  BY WorkspaceAssumption DEF NoJob, JobView, Statuses
<1>2. \A x \in SUBSET Uploads, l2 \in Nat, v2 \in JobView, d2 \in BOOLEAN :
        [sources |-> x, link |-> l2, view |-> v2, deck |-> d2] \in Says
  BY DEF Says
<1>3. Silent \in Says
  BY <1>1, <1>2 DEF Silent
<1>4. [Silent EXCEPT !.sources = s] \in Says
  BY <1>3 DEF Says
<1>5. [Silent EXCEPT !.link = l] \in Says
  BY <1>3 DEF Says
<1>6. [Silent EXCEPT !.view = v] \in Says
  BY <1>3 DEF Says
<1>7. [Silent EXCEPT !.deck = d] \in Says
  BY <1>3 DEF Says
<1>. QED
  BY <1>3, <1>4, <1>5, <1>6, <1>7

WorkspaceTypes == WorkspaceTypeOK /\ WireInv

\* A completed job stays so.
CompletedStays == \A j \in Jobs : work[j] = "completed" => work'[j] = "completed"

LEMMA WireKept ==
    ASSUME WireInv, CompletedStays, WorkspaceTypeOK,
           \A c \in calls' \ calls : MayAsk(c), answers' \subseteq answers
    PROVE  WireInv'
<1>1. ASSUME NEW a \in answers' PROVE AnswersAsAsked(a)'
  <2>1. AnswersAsAsked(a)
    BY <1>1 DEF WireInv
  <2>. QED
    BY <2>1 DEF AnswersAsAsked, CompletedStays, MayAsk, Jobs
<1>. QED
  BY <1>1 DEF WireInv, MayAsk

\* A call that is served.
LEMMA ServeTypes ==
    ASSUME WorkspaceTypes, NEW c \in calls, Serve(c)
    PROVE  WorkspaceTypes' /\ CompletedStays
<1>. USE DEF WorkspaceTypes
<1>1. c \in Call /\ MayAsk(c)
  BY DEF WorkspaceTypeOK, WireInv
<1>2. ASSUME NEW s \in Says, Answers(c, s), CompletedStays,
             c.what = "order" => s.view.job \in Jobs /\ s.view.status \in Active,
             c.what = "poll" => s.view.job = c.job /\ (s.view.status = "completed" => work[c.job] = "completed"),
             kept' \subseteq Uploads, link' \in Nat, minted' \in Nat, work' \in [Jobs -> Statuses]
      PROVE  WorkspaceTypes' /\ CompletedStays
  <2>1. /\ calls' = calls \ {c} /\ answers' = answers \cup {[call |-> c, says |-> s]}
        /\ UNCHANGED <<timers, pageVars, asked, lost, doubled>>
    BY <1>2 DEF Answers
  <2>2. WorkspaceTypeOK'
    BY <1>1, <1>2, <2>1 DEF WorkspaceTypeOK, pageVars
  <2>3. ASSUME NEW a \in answers' PROVE AnswersAsAsked(a)'
    <3>1. CASE a \in answers
      <4>1. AnswersAsAsked(a)
        BY <3>1 DEF WireInv
      <4>. QED
        BY <1>2, <4>1 DEF AnswersAsAsked, CompletedStays, MayAsk, Jobs
    <3>2. CASE a = [call |-> c, says |-> s]
      BY <1>1, <1>2, <3>2 DEF AnswersAsAsked, CompletedStays, MayAsk, Jobs
    <3>. QED
      BY <2>1, <3>1, <3>2
  <2>4. WireInv'
    BY <2>1, <2>3 DEF WireInv, MayAsk
  <2>. QED
    BY <1>2, <2>2, <2>4
<1>3. \A s : [Silent EXCEPT !.sources = s].view = NoJob /\ [Silent EXCEPT !.link = s].view = NoJob
             /\ [Silent EXCEPT !.deck = s].view = NoJob /\ [Silent EXCEPT !.view = s].view = s
  BY DEF Silent
<1>4. NoJob \in JobView /\ Silent.view = NoJob /\ NoJob.status # "completed"
  BY WorkspaceAssumption DEF NoJob, JobView, Silent, Statuses
<1>5. CASE ServeProject(c)
  <2>1. [Silent EXCEPT !.link = link] \in Says
    BY <1>4, SilentType DEF WorkspaceTypeOK
  <2>. QED
    BY <1>2, <1>5, <2>1 DEF ServeProject, serverVars, WorkspaceTypeOK, CompletedStays
<1>6. CASE ServeSources(c)
  <2>1. [Silent EXCEPT !.sources = kept] \in Says
    BY <1>4, SilentType DEF WorkspaceTypeOK
  <2>. QED
    BY <1>2, <1>6, <2>1 DEF ServeSources, serverVars, WorkspaceTypeOK, CompletedStays
<1>7. CASE ServeDeck(c)
  <2>1. [Silent EXCEPT !.deck = HasDeck] \in Says
    BY <1>4, SilentType DEF WorkspaceTypeOK, HasDeck
  <2>. QED
    BY <1>2, <1>7, <2>1 DEF ServeDeck, serverVars, WorkspaceTypeOK, CompletedStays
<1>8. CASE ServePoll(c)
  <2>. DEFINE v == [job |-> c.job, status |-> work[c.job]]
              s == [Silent EXCEPT !.view = v]
  <2>1. c.job \in Jobs /\ v \in JobView
    BY <1>1, <1>8, WorkspaceAssumption DEF ServePoll, MayAsk, Jobs, JobView, WorkspaceTypeOK
  <2>2. s \in Says /\ s.view = v
    BY <1>3, <1>4, <2>1, SilentType
  <2>3. v.job = c.job /\ v.status = work[c.job]
    OBVIOUS
  <2>4. Answers(c, s) /\ c.what = "poll" /\ UNCHANGED serverVars
    BY <1>8 DEF ServePoll
  <2>. HIDE DEF s, v
  <2>. QED
    BY <1>2, <2>2, <2>3, <2>4 DEF serverVars, WorkspaceTypeOK, CompletedStays
<1>9. CASE ServeUpload(c)
  <2>1. Silent \in Says
    BY <1>4, SilentType
  <2>. QED
    BY <1>1, <1>2, <1>9, <2>1 DEF ServeUpload, MayAsk, WorkspaceTypeOK, CompletedStays
<1>10. CASE ServeOrder(c)
  <2>1. PICK j \in Jobs :
          /\ IF ActiveJobs # {} THEN j \in ActiveJobs /\ UNCHANGED work
             ELSE NextJob(j) /\ work' = [work EXCEPT ![j] = "queued"]
          /\ Answers(c, [Silent EXCEPT !.view = [job |-> j, status |-> work'[j]]])
    BY <1>10 DEF ServeOrder
  <2>. DEFINE v == [job |-> j, status |-> work'[j]]
              s == [Silent EXCEPT !.view = v]
  <2>2. /\ work' \in [Jobs -> Statuses] /\ work'[j] \in Active
        /\ \A i \in Jobs \ {j} : work'[i] = work[i]
        /\ work[j] # "completed"
    BY <2>1 DEF ActiveJobs, NextJob, Active, Statuses, WorkspaceTypeOK
  <2>3. v \in JobView /\ CompletedStays
    BY <2>2, WorkspaceAssumption DEF JobView, Jobs, Active, Statuses, CompletedStays
  <2>4. s \in Says /\ s.view = v
    BY <1>3, <1>4, <2>3, SilentType
  <2>5. v.job = j /\ v.status = work'[j]
    OBVIOUS
  <2>6. Answers(c, s) /\ c.what = "order" /\ UNCHANGED <<kept, link, minted>>
    BY <1>10, <2>1 DEF ServeOrder
  <2>. HIDE DEF s, v
  <2>. QED
    BY <1>2, <2>2, <2>3, <2>4, <2>5, <2>6 DEF WorkspaceTypeOK
<1>11. CASE ServeShare(c)
  <2>1. link' \in Nat /\ minted' \in Nat /\ UNCHANGED <<kept, work>>
    BY <1>11 DEF ServeShare, WorkspaceTypeOK
  <2>2. [Silent EXCEPT !.link = link'] \in Says
    BY <1>4, <2>1, SilentType
  <2>. QED
    BY <1>2, <1>11, <2>1, <2>2 DEF ServeShare, WorkspaceTypeOK, CompletedStays
<1>. QED
  BY <1>5, <1>6, <1>7, <1>8, <1>9, <1>10, <1>11 DEF Serve

LEMMA PressTypes ==
    ASSUME WorkspaceTypes, NEW what, NEW by, MayAsk(Request(what, by, 0)), what # "poll",
           by \in Uploads \cup Orders \cup Shares, Press(what, by)
    PROVE  WorkspaceTypes'
<1>. USE DEF WorkspaceTypes
<1>1. Request(what, by, 0) \in Call /\ Topic[what] \in Topics
  BY RequestType, WorkspaceAssumption
<1>2. WorkspaceTypeOK'
  BY <1>1 DEF Press, WorkspaceTypeOK, serverVars, pageVars
<1>3. CompletedStays
  BY DEF Press, serverVars, CompletedStays
<1>. QED
  BY <1>2, <1>3, WireKept DEF Press

\* The answer lands.
LEMMA ShowTypes ==
    ASSUME WorkspaceTypes, NEW a \in answers,
           \/ ShowLink(a) \/ ShowSources(a) \/ ShowDeck(a)
           \/ UploadDone(a) \/ OrderDone(a) \/ PollDone(a) \/ AnswerFails(a)
    PROVE  WorkspaceTypes' /\ CompletedStays
<1>. USE DEF WorkspaceTypes, AsksNothing, Asks, Lands
<1>1. /\ a \in [call : Call, says : Says] /\ AnswersAsAsked(a)
      /\ a.call \in Call /\ a.says \in Says
      /\ a.says.sources \in SUBSET Uploads /\ a.says.link \in Nat
      /\ a.says.view \in JobView /\ a.says.deck \in BOOLEAN
      /\ a.says.view.job \in 0..MaxJobs /\ Topic[a.call.what] \in Topics
  <2>1. a \in [call : Call, says : Says] /\ AnswersAsAsked(a)
    BY DEF WorkspaceTypeOK, WireInv
  <2>. QED
    BY <2>1, TopicOf DEF Call, Says, JobView, Topics
<1>2. UNCHANGED serverVars /\ CompletedStays
  BY DEF ShowLink, ShowSources, ShowDeck, UploadDone, OrderDone, PollDone, AnswerFails, serverVars, CompletedStays
<1>3. ASSUME \A c \in calls' \ calls : MayAsk(c) /\ c \in Call, answers' = answers \ {a}, timers' \subseteq [by : Orders \cup {Mount}, job : Jobs],
             pageSources' \subseteq Uploads, pageReady' \in BOOLEAN, pageDeck' \in BOOLEAN,
             pageLink' \in Nat, pageJob' \in JobView, asked' = asked, lost' \subseteq Topics,
             doubled' = doubled
      PROVE  WorkspaceTypes'
  <2>1. WorkspaceTypeOK'
    BY <1>2, <1>3 DEF WorkspaceTypeOK, serverVars
  <2>. QED
    BY <1>2, <1>3, <2>1, WireKept
<1>. HIDE DEF WorkspaceTypes
<1>kept. /\ timers \subseteq [by : Orders \cup {Mount}, job : Jobs]
      /\ pageSources \subseteq Uploads /\ pageReady \in BOOLEAN /\ pageDeck \in BOOLEAN
      /\ pageLink \in Nat /\ pageJob \in JobView /\ lost \subseteq Topics
  BY DEF WorkspaceTypes, WorkspaceTypeOK
<1>4. CASE ShowLink(a)
  BY <1>1, <1>2, <1>3, <1>kept, <1>4 DEF ShowLink
<1>5. CASE ShowSources(a)
  BY <1>1, <1>2, <1>3, <1>kept, <1>5 DEF ShowSources
<1>6. CASE ShowDeck(a)
  BY <1>1, <1>2, <1>3, <1>kept, <1>6 DEF ShowDeck
<1>7. CASE UploadDone(a)
  <2>1. MayAsk(Request("sources", a.call.by, 0))
    BY <1>1, <1>7 DEF UploadDone, AnswersAsAsked, MayAsk, Request
  <2>2. Request("sources", a.call.by, 0) \in Call
    BY <2>1, RequestType, WorkspaceAssumption
  <2>. QED
    BY <1>1, <1>2, <1>3, <1>kept, <1>7, <2>1, <2>2 DEF UploadDone, pageVars
<1>8. CASE OrderDone(a)
  <2>. DEFINE q == Request("poll", a.call.by, a.says.view.job)
  <2>1. MayAsk(q)
    BY <1>1, <1>8 DEF OrderDone, AnswersAsAsked, MayAsk, Request
  <2>2. q \in Call
    BY <1>1, <2>1, RequestType
  <2>. QED
    BY <1>1, <1>2, <1>3, <1>kept, <1>8, <2>1, <2>2 DEF OrderDone
<1>9. CASE PollDone(a)
  <2>1. MayAsk(Request("deck", a.call.by, 0)) /\ a.call.by \in Orders \cup {Mount} /\ a.call.job \in Jobs
    BY <1>1, <1>9 DEF PollDone, AnswersAsAsked, MayAsk, Request
  <2>2. Request("deck", a.call.by, 0) \in Call
    BY <2>1, RequestType, WorkspaceAssumption
  <2>3. timers' \subseteq [by : Orders \cup {Mount}, job : Jobs]
    BY <1>9, <1>kept, <2>1 DEF PollDone
  <2>4. \A c \in calls' \ calls : MayAsk(c) /\ c \in Call
    BY <1>9, <2>1, <2>2 DEF PollDone
  <2>5. UNCHANGED <<doubled, pageSources, pageReady, pageLink, pageDeck, asked, lost>> /\ pageJob' \in JobView
        /\ answers' = answers \ {a}
    BY <1>1, <1>9 DEF PollDone
  <2>. QED
    BY <1>2, <1>3, <1>kept, <2>3, <2>4, <2>5
<1>10. CASE AnswerFails(a)
  BY <1>1, <1>2, <1>3, <1>kept, <1>10 DEF AnswerFails, pageVars
<1>. QED
  BY <1>2, <1>4, <1>5, <1>6, <1>7, <1>8, <1>9, <1>10

LEMMA WorkspaceType ==
    ASSUME WorkspaceTypes, [WorkspaceStep]_workspaceVars
    PROVE  WorkspaceTypes' /\ CompletedStays
<1>. USE DEF WorkspaceTypes
<1>1. ASSUME NEW c \in calls, CallFails(c) PROVE WorkspaceTypes' /\ CompletedStays
  <2>1. Topic[c.what] \in Topics
    BY TopicOf DEF WireInv, MayAsk, Topics
  <2>2. WorkspaceTypeOK' /\ CompletedStays
    BY <1>1, <2>1 DEF CallFails, WorkspaceTypeOK, serverVars, pageVars, CompletedStays
  <2>. QED
    BY <1>1, <2>2, WireKept DEF CallFails
<1>2. ASSUME NEW t \in timers, Tick(t) PROVE WorkspaceTypes' /\ CompletedStays
  <2>1. t.by \in Orders \cup {Mount} /\ t.job \in Jobs
    BY DEF WorkspaceTypeOK
  <2>2. MayAsk(Request("poll", t.by, t.job))
    BY <2>1 DEF MayAsk, Request
  <2>3. Request("poll", t.by, t.job) \in Call
    BY <2>1, <2>2, RequestType DEF Jobs
  <2>4. WorkspaceTypeOK' /\ CompletedStays
    BY <1>2, <2>3 DEF Tick, Asks, WorkspaceTypeOK, serverVars, pageVars, CompletedStays
  <2>. QED
    BY <1>2, <2>2, <2>4, WireKept DEF Tick, Asks
<1>3. ASSUME NEW j \in Jobs,
             \/ WorkerMoves(j, "queued", "processing")
             \/ WorkerMoves(j, "processing", "completed") \/ WorkerMoves(j, "processing", "failed")
      PROVE  WorkspaceTypes' /\ CompletedStays
  <2>1. /\ \E s \in {"processing", "completed", "failed"} : work' = [work EXCEPT ![j] = s]
        /\ work[j] # "completed" /\ UNCHANGED <<kept, link, minted, wireVars, pageVars, asked>>
    BY <1>3 DEF WorkerMoves
  <2>2. work' \in [Jobs -> Statuses] /\ CompletedStays
    BY <2>1 DEF WorkspaceTypeOK, CompletedStays, Statuses, Active
  <2>3. WorkspaceTypeOK'
    BY <2>1, <2>2 DEF WorkspaceTypeOK, wireVars, pageVars
  <2>. QED
    BY <2>1, <2>2, <2>3, WireKept DEF wireVars
<1>4. ASSUME NEW u \in Uploads, OnUpload(u) PROVE WorkspaceTypes'
  BY <1>4, PressTypes DEF OnUpload, MayAsk, Request
<1>5. ASSUME NEW o \in Orders, OnEnqueue(o) PROVE WorkspaceTypes'
  BY <1>5, PressTypes DEF OnEnqueue, MayAsk, Request
<1>6. ASSUME NEW s \in Shares, OnShare(s) PROVE WorkspaceTypes'
  BY <1>6, PressTypes DEF OnShare, MayAsk, Request
<1>7. ASSUME NEW what, NEW by, Press(what, by) PROVE CompletedStays
  BY <1>7 DEF Press, serverVars, CompletedStays
<1>8. CASE UNCHANGED workspaceVars
  <2>1. WorkspaceTypeOK' /\ CompletedStays
    BY <1>8 DEF workspaceVars, serverVars, wireVars, pageVars, WorkspaceTypeOK, CompletedStays
  <2>. QED
    BY <1>8, <2>1, WireKept DEF workspaceVars, wireVars
<1>. QED
  BY <1>1, <1>2, <1>3, <1>4, <1>5, <1>6, <1>7, <1>8, ServeTypes, ShowTypes
     DEF WorkspaceStep, OnUpload, OnEnqueue, OnShare

(***************************************************************************)
(* The workspace: what it shows once nothing is under way.                 *)
(***************************************************************************)
\* No call about it failed, and no two were on their way together.
Clear(t) == t \notin lost \cup doubled

Lone(t) ==
    /\ \A c, d \in CallsAbout(t) : c = d
    /\ \A a, b \in AnswersAbout(t) : a = b
    /\ CallsAbout(t) = {} \/ AnswersAbout(t) = {}
    /\ t = "job" /\ timers # {} =>
        CallsAbout(t) = {} /\ AnswersAbout(t) = {} /\ \A x, y \in timers : x = y

LoneInv == \A t \in {"sources", "link", "job"} : Clear(t) => Lone(t)

\* An answer on its way says what is stored, and what it said is shown.
SourcesInv ==
    Clear("sources") =>
        /\ \A a \in AnswersAbout("sources") : a.call.what = "sources" => a.says.sources = kept
        /\ ~Pending("sources") => pageReady /\ pageSources = kept

TokenInv ==
    Clear("link") =>
        /\ \A a \in AnswersAbout("link") : a.says.link = link
        /\ ~Pending("link") => pageLink = link

\* Jobs come one after another.
QueueInv ==
    \A i, j \in Jobs : i < j /\ work[j] # "none" => work[i] \in {"completed", "failed"}

\* The last that was ordered.
IsLast(j) == j \in Jobs /\ work[j] # "none" /\ \A k \in Jobs : k > j => work[k] = "none"

\* Whatever asks about a job asks about the last, and an outcome is reported once
\* there is one.
JobInv ==
    Clear("job") =>
        /\ \A c \in CallsAbout("job") : c.what = "poll" => IsLast(c.job)
        /\ \A x \in timers : IsLast(x.job)
        /\ \A a \in AnswersAbout("job") :
            /\ IsLast(a.says.view.job)
            /\ a.says.view.status \notin Active => a.says.view.status = work[a.says.view.job]
        /\ ~Pending("job") /\ pageJob.job # 0 =>
            /\ IsLast(pageJob.job)
            /\ pageJob.status = work[pageJob.job] /\ pageJob.status \notin Active

\* A completed job that is shown has its deck shown, asked for, or on its way.
DeckInv ==
    "deck" \notin lost /\ pageJob.status = "completed" =>
        /\ HasDeck
        /\ \/ pageDeck
           \/ \E c \in calls : c.what = "deck"
           \/ \E a \in answers : a.call.what = "deck" /\ a.says.deck

ShownInv == LoneInv /\ SourcesInv /\ TokenInv /\ QueueInv /\ JobInv /\ DeckInv

\* What a step does to what is on its way about a topic.
Serves(c, s) ==
    /\ c \in calls
    /\ calls' = calls \ {c} /\ answers' = answers \cup {[call |-> c, says |-> s]}
    /\ UNCHANGED <<timers, lost, doubled>>

Lost(t) == calls' \subseteq calls /\ answers' \subseteq answers /\ lost' = lost \cup {t} /\ doubled' = doubled
           /\ timers' = timers

\* An answer lands, and leads to a call about the same topic or for the deck, or to a
\* timer.
LandsAs(a, new, more) ==
    /\ a \in answers /\ answers' = answers \ {a}
    /\ calls' = calls \cup new /\ timers' = timers \cup more
    /\ UNCHANGED <<lost, doubled>>
    /\ \A c, d \in new : c = d
    /\ \A c \in new : Topic[c.what] \in {Topic[a.call.what], "deck"}
    /\ \A x, y \in more : x = y
    /\ more # {} => Topic[a.call.what] = "job" /\ new = {}

LEMMA ServeAbout ==
    ASSUME NEW c, NEW s, Serves(c, s), NEW t
    PROVE  /\ Clear(t)' = Clear(t) /\ CallsAbout(t)' = CallsAbout(t) \ {c}
           /\ Topic[c.what] = t => /\ c \in CallsAbout(t)
                                   /\ AnswersAbout(t)' = AnswersAbout(t) \cup {[call |-> c, says |-> s]}
           /\ Topic[c.what] # t => AnswersAbout(t)' = AnswersAbout(t) /\ CallsAbout(t)' = CallsAbout(t)
BY DEF Serves, Clear, CallsAbout, AnswersAbout

LEMMA ServeLone ==
    ASSUME LoneInv, NEW c, NEW s, Serves(c, s)
    PROVE  LoneInv'
<1>. SUFFICES ASSUME NEW t \in {"sources", "link", "job"}, Clear(t)' PROVE Lone(t)'
  BY DEF LoneInv
<1>1. Clear(t) /\ Lone(t)
  BY ServeAbout DEF LoneInv
<1>2. timers' = timers
  BY DEF Serves
<1>3. CASE Topic[c.what] = t
  <2>1. CallsAbout(t) = {c} /\ AnswersAbout(t) = {}
    BY <1>1, <1>3, ServeAbout DEF Lone
  <2>2. CallsAbout(t)' = {} /\ AnswersAbout(t)' = {[call |-> c, says |-> s]}
    BY <1>3, <2>1, ServeAbout
  <2>. QED
    BY <1>1, <1>2, <2>1, <2>2 DEF Lone
<1>4. CASE Topic[c.what] # t
  <2>1. CallsAbout(t)' = CallsAbout(t) /\ AnswersAbout(t)' = AnswersAbout(t)
    BY <1>4, ServeAbout
  <2>. QED
    BY <1>1, <1>2, <2>1 DEF Lone
<1>. QED
  BY <1>3, <1>4

LEMMA LandAbout ==
    ASSUME NEW a, NEW new, NEW more, LandsAs(a, new, more), NEW t, t # "deck"
    PROVE  /\ Clear(t)' = Clear(t)
           /\ Topic[a.call.what] = t => /\ a \in AnswersAbout(t)
                                        /\ AnswersAbout(t)' = AnswersAbout(t) \ {a}
                                        /\ CallsAbout(t)' \subseteq CallsAbout(t) \cup new
                                        /\ CallsAbout(t) \subseteq CallsAbout(t)'
           /\ Topic[a.call.what] # t => AnswersAbout(t)' = AnswersAbout(t) /\ CallsAbout(t)' = CallsAbout(t)
BY DEF LandsAs, Clear, CallsAbout, AnswersAbout

LEMMA LandLone ==
    ASSUME LoneInv, NEW a, NEW new, NEW more, LandsAs(a, new, more)
    PROVE  LoneInv'
<1>. SUFFICES ASSUME NEW t \in {"sources", "link", "job"}, Clear(t)' PROVE Lone(t)'
  BY DEF LoneInv
<1>1. Clear(t) /\ Lone(t)
  BY LandAbout DEF LoneInv
<1>2. CASE Topic[a.call.what] = t
  <2>1. CallsAbout(t) = {} /\ AnswersAbout(t) = {a} /\ (t = "job" => timers = {})
    BY <1>1, <1>2, LandAbout DEF Lone
  <2>2. CallsAbout(t)' \subseteq new /\ AnswersAbout(t)' = {}
    BY <1>2, <2>1, LandAbout
  <2>3. t = "job" => timers' = more
    BY <2>1 DEF LandsAs
  <2>. QED
    BY <2>2, <2>3 DEF Lone, LandsAs
<1>3. CASE Topic[a.call.what] # t
  <2>1. CallsAbout(t)' = CallsAbout(t) /\ AnswersAbout(t)' = AnswersAbout(t)
    BY <1>3, LandAbout
  <2>2. t = "job" => timers' = timers
    BY <1>3 DEF LandsAs
  <2>. QED
    BY <1>1, <2>1, <2>2 DEF Lone
<1>. QED
  BY <1>2, <1>3

LEMMA PressLone ==
    ASSUME LoneInv, NEW what, NEW by, Press(what, by)
    PROVE  LoneInv'
<1>. DEFINE q == Request(what, by, 0)
<1>. SUFFICES ASSUME NEW t \in {"sources", "link", "job"}, Clear(t)' PROVE Lone(t)'
  BY DEF LoneInv
<1>1. q.what = what
  BY DEF Request
<1>2. /\ Clear(t) /\ (Topic[what] = t => ~Pending(t))
      /\ calls' = calls \cup {q} /\ UNCHANGED <<answers, timers>>
  BY DEF Press, Clear
<1>. HIDE DEF q
<1>3. AnswersAbout(t)' = AnswersAbout(t)
  BY <1>2 DEF AnswersAbout
<1>4. Lone(t)
  BY <1>2 DEF LoneInv
<1>5. CASE Topic[what] = t
  <2>1. CallsAbout(t)' = CallsAbout(t) \cup {q}
    BY <1>1, <1>2, <1>5 DEF CallsAbout
  <2>. QED
    BY <1>2, <1>3, <1>5, <2>1 DEF Lone, Pending
<1>6. CASE Topic[what] # t
  <2>1. CallsAbout(t)' = CallsAbout(t)
    BY <1>1, <1>2, <1>6 DEF CallsAbout
  <2>. QED
    BY <1>2, <1>3, <1>4, <2>1 DEF Lone
<1>. QED
  BY <1>5, <1>6

LEMMA TickLone ==
    ASSUME LoneInv, NEW x \in timers, Tick(x)
    PROVE  LoneInv'
<1>. DEFINE q == Request("poll", x.by, x.job)
<1>. SUFFICES ASSUME NEW t \in {"sources", "link", "job"}, Clear(t)' PROVE Lone(t)'
  BY DEF LoneInv
<1>1. q.what = "poll" /\ calls' = calls \cup {q} /\ timers' = timers \ {x}
      /\ UNCHANGED <<answers, lost, doubled>>
  BY DEF Tick, Asks, Request
<1>. HIDE DEF q
<1>2. Lone(t) /\ AnswersAbout(t)' = AnswersAbout(t)
  BY <1>1 DEF LoneInv, Clear, AnswersAbout
<1>3. CASE t = "job"
  <2>1. CallsAbout(t)' = CallsAbout(t) \cup {q}
    BY <1>1, <1>3, TopicOf DEF CallsAbout
  <2>2. CallsAbout(t) = {} /\ AnswersAbout(t) = {} /\ timers = {x}
    BY <1>2, <1>3 DEF Lone
  <2>. QED
    BY <1>1, <1>2, <2>1, <2>2 DEF Lone
<1>4. CASE t # "job"
  <2>1. CallsAbout(t)' = CallsAbout(t)
    BY <1>1, <1>4, TopicOf DEF CallsAbout
  <2>. QED
    BY <1>2, <1>4, <2>1 DEF Lone
<1>. QED
  BY <1>3, <1>4

LEMMA LostLone ==
    ASSUME LoneInv, NEW t, Lost(t)
    PROVE  LoneInv'
<1>. SUFFICES ASSUME NEW u \in {"sources", "link", "job"}, Clear(u)' PROVE Lone(u)'
  BY DEF LoneInv
<1>1. Lone(u) /\ CallsAbout(u)' \subseteq CallsAbout(u) /\ AnswersAbout(u)' \subseteq AnswersAbout(u)
      /\ timers' = timers
  BY DEF LoneInv, Lost, Clear, CallsAbout, AnswersAbout
<1>. QED
  BY <1>1 DEF Lone

\* A step that changes nothing on its way about a topic.
Quiet(t) ==
    Clear(t)' =>
        /\ Clear(t)
        /\ CallsAbout(t)' = CallsAbout(t) /\ AnswersAbout(t)' = AnswersAbout(t)
        /\ t = "job" => timers' = timers

LEMMA SourcesKept ==
    ASSUME SourcesInv, Quiet("sources"), UNCHANGED <<kept, pageReady, pageSources>>
    PROVE  SourcesInv'
BY DEF SourcesInv, Quiet, Pending

LEMMA TokenKept ==
    ASSUME TokenInv, Quiet("link"), UNCHANGED <<link, pageLink>>
    PROVE  TokenInv'
BY DEF TokenInv, Quiet, Pending

LEMMA JobKept ==
    ASSUME JobInv, Quiet("job"), UNCHANGED <<work, pageJob>>
    PROVE  JobInv'
BY DEF JobInv, Quiet, Pending, IsLast, Jobs

LEMMA QueueKept ==
    ASSUME QueueInv, UNCHANGED work
    PROVE  QueueInv'
BY DEF QueueInv, Jobs

LEMMA HasDeckStays ==
    ASSUME CompletedStays, HasDeck
    PROVE  HasDeck'
BY DEF CompletedStays, HasDeck, Jobs

LEMMA DeckKept ==
    ASSUME DeckInv, CompletedStays, UNCHANGED <<pageJob, pageDeck>>, lost \subseteq lost',
           \A c \in calls : c.what = "deck" => c \in calls' \/ "deck" \in lost',
           \A a \in answers : a.call.what = "deck" => a \in answers' \/ "deck" \in lost'
    PROVE  DeckInv'
BY HasDeckStays DEF DeckInv

\* A call that is served: nothing else about its topic is under way.
LEMMA ServeOwn ==
    ASSUME ShownInv, NEW c, NEW s, Serves(c, s), NEW t \in {"sources", "link", "job"}, Clear(t)',
           Topic[c.what] = t
    PROVE  /\ Clear(t) /\ AnswersAbout(t)' = {[call |-> c, says |-> s]} /\ CallsAbout(t)' = {}
           /\ Pending(t)'
           /\ t = "job" => timers' = {} /\ (c.what = "poll" => IsLast(c.job))
<1>1. Clear(t) /\ c \in CallsAbout(t) /\ Lone(t)
  BY ServeAbout DEF LoneInv, ShownInv
<1>2. CallsAbout(t) = {c} /\ AnswersAbout(t) = {} /\ (t = "job" => timers = {})
  BY <1>1 DEF Lone
<1>3. t = "job" => timers' = {} /\ (c.what = "poll" => IsLast(c.job))
  BY <1>1, <1>2 DEF Serves, JobInv, ShownInv
<1>4. AnswersAbout(t)' = {[call |-> c, says |-> s]} /\ CallsAbout(t)' = {}
  BY <1>2, ServeAbout
<1>. QED
  BY <1>1, <1>3, <1>4 DEF Pending

LEMMA ServeQuiet ==
    ASSUME NEW c, NEW s, Serves(c, s), NEW t, Topic[c.what] # t
    PROVE  Quiet(t)
BY ServeAbout DEF Quiet, Serves

LEMMA ServeDeckKept ==
    ASSUME DeckInv, CompletedStays, NEW c, NEW s, Serves(c, s), UNCHANGED <<pageJob, pageDeck>>,
           c.what # "deck"
    PROVE  DeckInv'
BY DeckKept DEF Serves

LEMMA AnswersServes ==
    ASSUME NEW c \in calls, NEW s, Answers(c, s)
    PROVE  Serves(c, s) /\ UNCHANGED <<pageSources, pageReady, pageLink, pageJob, pageDeck>>
BY DEF Answers, Serves, pageVars

\* The new answer tells what is stored.
LEMMA ServeReadShown ==
    ASSUME WorkspaceTypes, ShownInv, NEW c \in calls,
           ServeProject(c) \/ ServeSources(c) \/ ServeDeck(c) \/ ServePoll(c)
    PROVE  ShownInv'
<1>. USE DEF ShownInv
<1>1. MayAsk(c) /\ CompletedStays
  BY ServeTypes DEF WorkspaceTypes, WireInv, Serve
<1>2. UNCHANGED <<kept, link, work>>
  BY DEF ServeProject, ServeSources, ServeDeck, ServePoll, serverVars
<1>3. QueueInv'
  BY <1>2, QueueKept
<1>4. CASE ServeProject(c)
  <2>. DEFINE s == [Silent EXCEPT !.link = link]
  <2>1. Serves(c, s) /\ UNCHANGED <<pageSources, pageReady, pageLink, pageJob, pageDeck>> /\ c.what = "project"
    BY <1>4, AnswersServes DEF ServeProject
  <2>2. s.link = link
    BY DEF Silent
  <2>. HIDE DEF s
  <2>3. SourcesInv' /\ JobInv'
    BY <1>2, <2>1, ServeQuiet, SourcesKept, JobKept, TopicOf
  <2>4. TokenInv'
    BY <1>2, <2>1, <2>2, ServeOwn, TopicOf DEF TokenInv
  <2>. QED
    BY <1>1, <1>3, <2>1, <2>3, <2>4, ServeLone, ServeDeckKept
<1>5. CASE ServeSources(c)
  <2>. DEFINE s == [Silent EXCEPT !.sources = kept]
  <2>1. Serves(c, s) /\ UNCHANGED <<pageSources, pageReady, pageLink, pageJob, pageDeck>> /\ c.what = "sources"
    BY <1>5, AnswersServes DEF ServeSources
  <2>2. s.sources = kept
    BY DEF Silent
  <2>. HIDE DEF s
  <2>3. TokenInv' /\ JobInv'
    BY <1>2, <2>1, ServeQuiet, TokenKept, JobKept, TopicOf
  <2>4. SourcesInv'
    BY <1>2, <2>1, <2>2, ServeOwn, TopicOf DEF SourcesInv
  <2>. QED
    BY <1>1, <1>3, <2>1, <2>3, <2>4, ServeLone, ServeDeckKept
<1>6. CASE ServeDeck(c)
  <2>. DEFINE s == [Silent EXCEPT !.deck = HasDeck]
  <2>1. Serves(c, s) /\ UNCHANGED <<pageSources, pageReady, pageLink, pageJob, pageDeck>> /\ c.what = "deck"
    BY <1>6, AnswersServes DEF ServeDeck
  <2>2. s.deck = HasDeck
    BY DEF Silent
  <2>. HIDE DEF s
  <2>3. SourcesInv' /\ TokenInv' /\ JobInv'
    BY <1>2, <2>1, ServeQuiet, SourcesKept, TokenKept, JobKept, TopicOf
  <2>4. DeckInv'
    <3>. DEFINE a == [call |-> c, says |-> s]
    <3>1. a \in answers' /\ a.call.what = "deck" /\ a.says.deck = HasDeck
      BY <2>1, <2>2 DEF Serves
    <3>2. answers \subseteq answers' /\ lost' = lost
      BY <2>1 DEF Serves
    <3>. HIDE DEF a
    <3>. QED
      BY <1>1, <2>1, <3>1, <3>2, HasDeckStays DEF DeckInv
  <2>. QED
    BY <1>3, <2>1, <2>3, <2>4, ServeLone
<1>7. CASE ServePoll(c)
  <2>. DEFINE v == [job |-> c.job, status |-> work[c.job]]
              s == [Silent EXCEPT !.view = v]
  <2>1. Serves(c, s) /\ UNCHANGED <<pageSources, pageReady, pageLink, pageJob, pageDeck>> /\ c.what = "poll"
    BY <1>7, AnswersServes DEF ServePoll
  <2>2. s.view.job = c.job /\ s.view.status = work[c.job]
    BY DEF Silent
  <2>. HIDE DEF s
  <2>3. SourcesInv' /\ TokenInv'
    BY <1>2, <2>1, ServeQuiet, SourcesKept, TokenKept, TopicOf
  <2>4. JobInv'
    <3>1. ASSUME Clear("job")'
          PROVE  /\ AnswersAbout("job")' = {[call |-> c, says |-> s]} /\ CallsAbout("job")' = {} /\ timers' = {}
                 /\ Pending("job")' /\ IsLast(c.job)
      BY <2>1, <3>1, ServeOwn, TopicOf
    <3>2. IsLast(c.job) => IsLast(c.job)'
      BY <1>2 DEF IsLast, Jobs
    <3>. QED
      BY <1>2, <2>2, <3>1, <3>2 DEF JobInv, IsLast, Jobs
  <2>. QED
    BY <1>1, <1>3, <2>1, <2>3, <2>4, ServeLone, ServeDeckKept
<1>. QED
  BY <1>4, <1>5, <1>6, <1>7

LEMMA ServeWriteShown ==
    ASSUME WorkspaceTypes, ShownInv, NEW c \in calls, ServeUpload(c) \/ ServeOrder(c) \/ ServeShare(c)
    PROVE  ShownInv'
<1>. USE DEF ShownInv
<1>1. CompletedStays
  BY ServeTypes DEF Serve
<1>2. CASE ServeUpload(c)
  <2>1. Serves(c, Silent) /\ UNCHANGED <<pageSources, pageReady, pageLink, pageJob, pageDeck>>
        /\ c.what = "upload" /\ UNCHANGED <<link, work>>
    BY <1>2, AnswersServes DEF ServeUpload
  <2>2. TokenInv' /\ JobInv' /\ QueueInv'
    BY <2>1, ServeQuiet, TokenKept, JobKept, QueueKept, TopicOf
  <2>3. SourcesInv'
    BY <2>1, ServeOwn, TopicOf DEF SourcesInv
  <2>. QED
    BY <1>1, <2>1, <2>2, <2>3, ServeLone, ServeDeckKept
<1>3. CASE ServeShare(c)
  <2>. DEFINE s == [Silent EXCEPT !.link = link']
  <2>1. Serves(c, s) /\ UNCHANGED <<pageSources, pageReady, pageLink, pageJob, pageDeck>>
        /\ c.what = "share" /\ UNCHANGED <<kept, work>>
    BY <1>3, AnswersServes DEF ServeShare
  <2>2. s.link = link'
    BY DEF Silent
  <2>. HIDE DEF s
  <2>3. SourcesInv' /\ JobInv' /\ QueueInv'
    BY <2>1, ServeQuiet, SourcesKept, JobKept, QueueKept, TopicOf
  <2>4. TokenInv'
    BY <2>1, <2>2, ServeOwn, TopicOf DEF TokenInv
  <2>. QED
    BY <1>1, <2>1, <2>3, <2>4, ServeLone, ServeDeckKept
<1>4. CASE ServeOrder(c)
  <2>1. PICK j \in Jobs :
          /\ IF ActiveJobs # {} THEN j \in ActiveJobs /\ UNCHANGED work
             ELSE NextJob(j) /\ work' = [work EXCEPT ![j] = "queued"]
          /\ Answers(c, [Silent EXCEPT !.view = [job |-> j, status |-> work'[j]]])
    BY <1>4 DEF ServeOrder
  <2>. DEFINE s == [Silent EXCEPT !.view = [job |-> j, status |-> work'[j]]]
  <2>2. Serves(c, s) /\ UNCHANGED <<pageSources, pageReady, pageLink, pageJob, pageDeck>>
        /\ c.what = "order" /\ UNCHANGED <<kept, link>>
    BY <1>4, <2>1, AnswersServes DEF ServeOrder
  <2>3. s.view.job = j /\ s.view.status = work'[j]
    BY DEF Silent
  <2>. HIDE DEF s
  <2>4. work'[j] \in Active /\ work'[j] # "none" /\ \A i \in Jobs \ {j} : work'[i] = work[i]
    BY <2>1 DEF ActiveJobs, Active, WorkspaceTypes, WorkspaceTypeOK
  <2>5. /\ \A k \in Jobs : k > j => work[k] = "none"
        /\ \A i \in Jobs : i < j => work[i] \in {"completed", "failed"}
    <3>1. CASE j \in ActiveJobs
      <4>1. work[j] \in {"queued", "processing"}
        BY <3>1 DEF ActiveJobs, Active
      <4>. QED
        BY <4>1 DEF QueueInv, Jobs
    <3>2. CASE ActiveJobs = {} /\ NextJob(j)
      <4>1. work[j] = "none" /\ \A i \in 1..(j - 1) : work[i] # "none"
        BY <3>2 DEF NextJob
      <4>2. \A i \in Jobs : work[i] \notin Active
        BY <3>2 DEF ActiveJobs
      <4>3. \A i \in Jobs : i < j => i \in 1..(j - 1)
        BY WorkspaceAssumption DEF Jobs
      <4>4. \A i \in Jobs : i < j => work[i] \in {"completed", "failed"}
        BY <4>1, <4>2, <4>3 DEF WorkspaceTypes, WorkspaceTypeOK, Statuses
      <4>. QED
        BY <4>1, <4>4 DEF QueueInv, Jobs
    <3>. QED
      BY <2>1, <3>1, <3>2
  <2>6. IsLast(j)'
    BY <2>4, <2>5 DEF IsLast, Jobs
  <2>7. QueueInv'
    <3>1. ASSUME NEW i \in Jobs, NEW k \in Jobs, i < k, work'[k] # "none"
          PROVE  work'[i] \in {"completed", "failed"}
      <4>1. i # j
        BY <2>4, <2>5, <3>1 DEF Jobs
      <4>2. CASE k = j
        BY <2>4, <2>5, <3>1, <4>1, <4>2
      <4>3. CASE k # j
        BY <2>4, <3>1, <4>1, <4>3 DEF QueueInv
      <4>. QED
        BY <4>2, <4>3
    <3>. QED
      BY <3>1 DEF QueueInv, Jobs
  <2>8. SourcesInv' /\ TokenInv'
    BY <2>2, ServeQuiet, SourcesKept, TokenKept, TopicOf
  <2>9. JobInv'
    <3>1. ASSUME Clear("job")'
          PROVE  /\ AnswersAbout("job")' = {[call |-> c, says |-> s]} /\ CallsAbout("job")' = {} /\ timers' = {}
                 /\ Pending("job")'
      BY <2>2, <3>1, ServeOwn, TopicOf
    <3>. QED
      BY <2>3, <2>6, <3>1 DEF JobInv
  <2>. QED
    BY <1>1, <2>2, <2>7, <2>8, <2>9, ServeLone, ServeDeckKept
<1>. QED
  BY <1>2, <1>3, <1>4

\* An answer that lands was the only thing under way about its topic.
LEMMA LandOwn ==
    ASSUME ShownInv, NEW a, NEW new, NEW more, LandsAs(a, new, more),
           NEW t \in {"sources", "link", "job"}, Clear(t)', Topic[a.call.what] = t
    PROVE  /\ Clear(t) /\ a \in AnswersAbout(t) /\ AnswersAbout(t)' = {}
           /\ CallsAbout(t)' = {c \in new : Topic[c.what] = t}
           /\ t = "job" => timers' = more
<1>1. Clear(t) /\ Lone(t) /\ a \in AnswersAbout(t)
  BY LandAbout DEF LoneInv, ShownInv
<1>2. CallsAbout(t) = {} /\ AnswersAbout(t) = {a} /\ (t = "job" => timers = {})
  BY <1>1 DEF Lone
<1>3. calls' = calls \cup new /\ timers' = timers \cup more
  BY DEF LandsAs
<1>4. CallsAbout(t)' = CallsAbout(t) \cup {c \in new : Topic[c.what] = t}
  BY <1>3 DEF CallsAbout
<1>. QED
  BY <1>1, <1>2, <1>3, <1>4, LandAbout

LEMMA LandQuiet ==
    ASSUME NEW a, NEW new, NEW more, LandsAs(a, new, more), NEW t, t # "deck", Topic[a.call.what] # t
    PROVE  Quiet(t)
<1>1. t = "job" => more = {}
  BY DEF LandsAs
<1>2. timers' = timers \cup more
  BY DEF LandsAs
<1>. QED
  BY <1>1, <1>2, LandAbout DEF Quiet

LEMMA LandDeckKept ==
    ASSUME DeckInv, CompletedStays, NEW a, NEW new, NEW more, LandsAs(a, new, more),
           UNCHANGED <<pageJob, pageDeck>>, a.call.what # "deck"
    PROVE  DeckInv'
BY DeckKept DEF LandsAs

LEMMA ShowShown ==
    ASSUME WorkspaceTypes, ShownInv, NEW a \in answers,
           \/ ShowLink(a) \/ ShowSources(a) \/ ShowDeck(a)
           \/ UploadDone(a) \/ OrderDone(a) \/ PollDone(a)
    PROVE  ShownInv'
<1>. USE DEF ShownInv, AsksNothing, Asks, Lands
<1>1. AnswersAsAsked(a) /\ MayAsk(a.call) /\ CompletedStays /\ UNCHANGED <<kept, link, work>>
  <2>1. AnswersAsAsked(a)
    BY DEF WorkspaceTypes, WireInv
  <2>. QED
    BY <2>1, ShowTypes
       DEF AnswersAsAsked, ShowLink, ShowSources, ShowDeck, UploadDone, OrderDone, PollDone, serverVars
<1>2. QueueInv'
  BY <1>1, QueueKept
<1>3. CASE ShowLink(a)
  <2>1. LandsAs(a, {}, {}) /\ Topic[a.call.what] = "link" /\ a.call.what # "deck"
        /\ pageLink' = a.says.link /\ UNCHANGED <<pageSources, pageReady, pageJob, pageDeck>>
    BY <1>3, TopicOf DEF ShowLink, LandsAs
  <2>2. SourcesInv' /\ JobInv'
    BY <1>1, <2>1, LandQuiet, SourcesKept, JobKept
  <2>3. TokenInv'
    BY <1>1, <2>1, LandOwn DEF TokenInv
  <2>. QED
    BY <1>1, <1>2, <2>1, <2>2, <2>3, LandLone, LandDeckKept
<1>4. CASE ShowSources(a)
  <2>1. LandsAs(a, {}, {}) /\ Topic[a.call.what] = "sources" /\ a.call.what = "sources"
        /\ pageSources' = a.says.sources /\ pageReady' /\ UNCHANGED <<pageLink, pageJob, pageDeck>>
    BY <1>4, TopicOf DEF ShowSources, LandsAs
  <2>2. TokenInv' /\ JobInv'
    BY <1>1, <2>1, LandQuiet, TokenKept, JobKept
  <2>3. SourcesInv'
    BY <1>1, <2>1, LandOwn DEF SourcesInv
  <2>. QED
    BY <1>1, <1>2, <2>1, <2>2, <2>3, LandLone, LandDeckKept
<1>5. CASE ShowDeck(a)
  <2>1. LandsAs(a, {}, {}) /\ Topic[a.call.what] = "deck"
        /\ pageDeck' = (pageDeck \/ a.says.deck) /\ UNCHANGED <<pageSources, pageReady, pageLink, pageJob>>
    BY <1>5, TopicOf DEF ShowDeck, LandsAs
  <2>2. SourcesInv' /\ TokenInv' /\ JobInv'
    BY <1>1, <2>1, LandQuiet, SourcesKept, TokenKept, JobKept
  <2>3. DeckInv'
    <3>1. calls \subseteq calls' /\ answers' = answers \ {a} /\ lost' = lost
      BY <2>1 DEF LandsAs
    <3>. QED
      BY <1>1, <2>1, <3>1, HasDeckStays DEF DeckInv
  <2>. QED
    BY <1>2, <2>1, <2>2, <2>3, LandLone
<1>6. CASE UploadDone(a)
  <2>. DEFINE q == Request("sources", a.call.by, 0)
  <2>1. LandsAs(a, {q}, {}) /\ Topic[a.call.what] = "sources" /\ a.call.what # "deck" /\ q.what = "sources"
        /\ UNCHANGED <<pageSources, pageReady, pageLink, pageJob, pageDeck>>
    BY <1>6, TopicOf DEF UploadDone, LandsAs, Request, pageVars
  <2>. HIDE DEF q
  <2>2. TokenInv' /\ JobInv'
    BY <1>1, <2>1, LandQuiet, TokenKept, JobKept
  <2>3. SourcesInv'
    <3>1. Clear("sources")' => Clear("sources") /\ AnswersAbout("sources")' = {} /\ q \in CallsAbout("sources")'
      BY <2>1, LandOwn, TopicOf
    <3>. QED
      BY <3>1 DEF SourcesInv, Pending
  <2>. QED
    BY <1>1, <1>2, <2>1, <2>2, <2>3, LandLone, LandDeckKept
<1>7. CASE OrderDone(a)
  <2>. DEFINE q == Request("poll", a.call.by, a.says.view.job)
  <2>1. LandsAs(a, {q}, {}) /\ Topic[a.call.what] = "job" /\ a.call.what = "order" /\ q.what = "poll"
        /\ q.job = a.says.view.job /\ pageJob' = a.says.view
        /\ UNCHANGED <<pageSources, pageReady, pageLink, pageDeck>>
    BY <1>7, TopicOf DEF OrderDone, LandsAs, Request
  <2>. HIDE DEF q
  <2>2. SourcesInv' /\ TokenInv'
    BY <1>1, <2>1, LandQuiet, SourcesKept, TokenKept
  <2>3. JobInv'
    <3>1. Clear("job")' => /\ Clear("job") /\ a \in AnswersAbout("job") /\ AnswersAbout("job")' = {}
                           /\ CallsAbout("job")' = {q} /\ timers' = {}
      BY <2>1, LandOwn, TopicOf
    <3>2. Clear("job")' => IsLast(a.says.view.job)'
      BY <1>1, <3>1 DEF JobInv, IsLast, Jobs
    <3>. QED
      BY <2>1, <3>1, <3>2 DEF JobInv, Pending
  <2>4. DeckInv'
    <3>1. pageJob'.status # "completed"
      BY <1>1, <2>1 DEF AnswersAsAsked, Active
    <3>. QED
      BY <3>1 DEF DeckInv
  <2>. QED
    BY <1>2, <2>1, <2>2, <2>3, <2>4, LandLone
<1>8. CASE PollDone(a)
  <2>. DEFINE q == Request("deck", a.call.by, 0)
              x == [by |-> a.call.by, job |-> a.call.job]
              done == a.says.view.status = "completed"
              goes == a.says.view.status \in Active
              new == IF done THEN {q} ELSE {}
              more == IF goes THEN {x} ELSE {}
  <2>1. q.what = "deck" /\ x.job = a.says.view.job /\ ~(done /\ goes)
    BY <1>1, <1>8 DEF Request, AnswersAsAsked, PollDone, Active
  <2>2. LandsAs(a, new, more) /\ Topic[a.call.what] = "job" /\ a.call.what = "poll"
        /\ pageJob' = a.says.view /\ UNCHANGED <<pageSources, pageReady, pageLink, pageDeck>>
    BY <1>8, <2>1, TopicOf DEF PollDone, LandsAs
  <2>3. SourcesInv' /\ TokenInv'
    BY <1>1, <2>2, LandQuiet, SourcesKept, TokenKept
  <2>4. JobInv'
    <3>1. Clear("job")' => /\ Clear("job") /\ a \in AnswersAbout("job") /\ AnswersAbout("job")' = {}
                           /\ CallsAbout("job")' = {} /\ timers' = more
      <4>1. {c \in new : Topic[c.what] = "job"} = {}
        BY <2>1, TopicOf
      <4>. QED
        BY <2>2, <4>1, LandOwn
    <3>2. Clear("job")' => /\ IsLast(a.says.view.job)' /\ IsLast(a.says.view.job)
                           /\ ~goes => a.says.view.status = work'[a.says.view.job]
      BY <1>1, <3>1 DEF JobInv, IsLast, Jobs
    <3>3. Clear("job")' /\ goes => Pending("job")'
      BY <3>1 DEF Pending
    <3>. QED
      BY <2>1, <2>2, <3>1, <3>2, <3>3 DEF JobInv
  <2>5. DeckInv'
    <3>1. CASE done
      <4>1. q \in calls'
        BY <1>8, <3>1 DEF PollDone
      <4>2. HasDeck
        BY <1>1, <2>2, <3>1 DEF HasDeck, AnswersAsAsked, MayAsk
      <4>. QED
        BY <1>1, <2>1, <4>1, <4>2, HasDeckStays DEF DeckInv
    <3>2. CASE ~done
      BY <2>2, <3>2 DEF DeckInv
    <3>. QED
      BY <3>1, <3>2
  <2>. QED
    BY <1>2, <2>2, <2>3, <2>4, <2>5, LandLone
<1>. QED
  BY <1>3, <1>4, <1>5, <1>6, <1>7, <1>8

LEMMA PressShown ==
    ASSUME ShownInv, NEW what, NEW by, Press(what, by), what \notin {"deck", "poll"}, Topic[what] \in {"sources", "link", "job"}
    PROVE  ShownInv'
<1>. USE DEF ShownInv
<1>. DEFINE q == Request(what, by, 0)
<1>1. /\ q.what = what /\ calls' = calls \cup {q}
      /\ UNCHANGED <<kept, link, work, answers, timers, pageSources, pageReady, pageLink, pageJob, pageDeck, lost>>
      /\ doubled' = doubled \cup {t \in {Topic[what]} : Pending(t)}
  BY DEF Press, Request, serverVars, pageVars
<1>. HIDE DEF q
<1>2. \A t : Topic[what] # t => Quiet(t)
  BY <1>1 DEF Quiet, Clear, CallsAbout, AnswersAbout
<1>3. \A t : Clear(t)' => Clear(t)
  BY <1>1 DEF Clear
<1>4. Pending(Topic[what])' /\ AnswersAbout(Topic[what])' = AnswersAbout(Topic[what])
  BY <1>1 DEF Pending, CallsAbout, AnswersAbout
<1>5. QueueInv' /\ CompletedStays
  BY <1>1, QueueKept DEF CompletedStays
<1>6. DeckInv'
  BY <1>1, <1>5, DeckKept
<1>7. CASE Topic[what] = "sources"
  <2>1. SourcesInv'
    BY <1>1, <1>3, <1>4, <1>7 DEF SourcesInv
  <2>. QED
    BY <1>1, <1>2, <1>5, <1>6, <1>7, <2>1, PressLone, TokenKept, JobKept
<1>8. CASE Topic[what] = "link"
  <2>1. TokenInv'
    BY <1>1, <1>3, <1>4, <1>8 DEF TokenInv
  <2>. QED
    BY <1>1, <1>2, <1>5, <1>6, <1>8, <2>1, PressLone, SourcesKept, JobKept
<1>9. CASE Topic[what] = "job"
  <2>1. JobInv'
    <3>1. \A c \in CallsAbout("job")' : c.what = "poll" => c \in CallsAbout("job")
      BY <1>1, <1>9 DEF CallsAbout
    <3>. QED
      BY <1>1, <1>3, <1>4, <1>9, <3>1 DEF JobInv, IsLast, Jobs
  <2>. QED
    BY <1>1, <1>2, <1>5, <1>6, <1>9, <2>1, PressLone, SourcesKept, TokenKept
<1>. QED
  BY <1>7, <1>8, <1>9

LEMMA TickShown ==
    ASSUME ShownInv, NEW x \in timers, Tick(x)
    PROVE  ShownInv'
<1>. USE DEF ShownInv
<1>. DEFINE q == Request("poll", x.by, x.job)
<1>1. /\ q.what = "poll" /\ q.job = x.job /\ calls' = calls \cup {q} /\ timers' = timers \ {x}
      /\ UNCHANGED <<kept, link, work, answers, pageSources, pageReady, pageLink, pageJob, pageDeck, lost, doubled>>
  BY DEF Tick, Asks, Request, serverVars, pageVars
<1>. HIDE DEF q
<1>2. Quiet("sources") /\ Quiet("link")
  BY <1>1, TopicOf DEF Quiet, Clear, CallsAbout, AnswersAbout
<1>3. SourcesInv' /\ TokenInv' /\ QueueInv' /\ CompletedStays
  BY <1>1, <1>2, SourcesKept, TokenKept, QueueKept DEF CompletedStays
<1>4. DeckInv'
  BY <1>1, <1>3, DeckKept
<1>5. JobInv'
  <2>1. CallsAbout("job")' = CallsAbout("job") \cup {q} /\ AnswersAbout("job")' = AnswersAbout("job")
    BY <1>1, TopicOf DEF CallsAbout, AnswersAbout
  <2>2. Clear("job")' = Clear("job")
    BY <1>1 DEF Clear
  <2>. QED
    BY <1>1, <2>1, <2>2 DEF JobInv, IsLast, Jobs, Pending
<1>. QED
  BY <1>3, <1>4, <1>5, TickLone

LEMMA LostShown ==
    ASSUME ShownInv,
           (\E c \in calls : CallFails(c)) \/ (\E a \in answers : AnswerFails(a))
    PROVE  ShownInv'
<1>. USE DEF ShownInv
<1>1. PICK t :
        /\ Lost(t) /\ UNCHANGED <<kept, link, work, pageSources, pageReady, pageLink, pageJob, pageDeck>>
        /\ \A c \in calls \ calls' : Topic[c.what] = t
        /\ \A a \in answers \ answers' : Topic[a.call.what] = t
  <2>1. ASSUME NEW c \in calls, CallFails(c)
        PROVE  /\ Lost(Topic[c.what])
               /\ UNCHANGED <<kept, link, work, pageSources, pageReady, pageLink, pageJob, pageDeck>>
               /\ \A d \in calls \ calls' : Topic[d.what] = Topic[c.what]
               /\ answers \ answers' = {}
    BY <2>1 DEF CallFails, Lost, serverVars, pageVars
  <2>2. ASSUME NEW a \in answers, AnswerFails(a)
        PROVE  /\ Lost(Topic[a.call.what])
               /\ UNCHANGED <<kept, link, work, pageSources, pageReady, pageLink, pageJob, pageDeck>>
               /\ calls \ calls' = {}
               /\ \A b \in answers \ answers' : Topic[b.call.what] = Topic[a.call.what]
    BY <2>2 DEF AnswerFails, Lost, serverVars, pageVars
  <2>. QED
    BY <2>1, <2>2
<1>2. \A u : Quiet(u)
  <2>. TAKE u
  <2>1. CASE u = t
    BY <1>1, <2>1 DEF Quiet, Lost, Clear
  <2>2. CASE u # t
    BY <1>1, <2>2 DEF Quiet, Lost, Clear, CallsAbout, AnswersAbout
  <2>. QED
    BY <2>1, <2>2
<1>3. SourcesInv' /\ TokenInv' /\ JobInv' /\ QueueInv' /\ CompletedStays
  BY <1>1, <1>2, SourcesKept, TokenKept, JobKept, QueueKept DEF CompletedStays
<1>4. DeckInv'
  <2>1. \A c \in calls : c.what = "deck" => c \in calls' \/ "deck" \in lost'
    BY <1>1, TopicOf DEF Lost
  <2>2. \A a \in answers : a.call.what = "deck" => a \in answers' \/ "deck" \in lost'
    BY <1>1, TopicOf DEF Lost
  <2>3. lost \subseteq lost'
    BY <1>1 DEF Lost
  <2>. QED
    BY <1>1, <1>3, <2>1, <2>2, <2>3, DeckKept
<1>. QED
  BY <1>1, <1>3, <1>4, LostLone

LEMMA WorkerShown ==
    ASSUME WorkspaceTypes, ShownInv, CompletedStays, NEW j \in Jobs,
           \/ WorkerMoves(j, "queued", "processing")
           \/ WorkerMoves(j, "processing", "completed") \/ WorkerMoves(j, "processing", "failed")
    PROVE  ShownInv'
<1>. USE DEF ShownInv
<1>1. /\ work[j] \in Active /\ work'[j] \in {"processing", "completed", "failed"}
      /\ \A i \in Jobs \ {j} : work'[i] = work[i]
      /\ UNCHANGED <<kept, link, wireVars, pageSources, pageReady, pageLink, pageJob, pageDeck>>
  BY DEF WorkerMoves, Active, WorkspaceTypes, WorkspaceTypeOK, pageVars
<1>2. \A t : Quiet(t)
  BY <1>1 DEF Quiet, Clear, CallsAbout, AnswersAbout, wireVars
<1>3. SourcesInv' /\ TokenInv'
  BY <1>1, <1>2, SourcesKept, TokenKept
<1>4. \A i \in Jobs : /\ work'[i] = "none" <=> work[i] = "none"
                      /\ work[i] \in {"completed", "failed"} => work'[i] = work[i]
  BY <1>1 DEF Active
<1>5. QueueInv'
  BY <1>4 DEF QueueInv, Jobs
<1>6. \A i : IsLast(i)' = IsLast(i)
  BY <1>4 DEF IsLast, Jobs
<1>7. JobInv'
  <2>1. ASSUME Clear("job")
        PROVE  /\ \A a \in AnswersAbout("job") :
                    a.says.view.status \notin Active => a.says.view.status = work'[a.says.view.job]
               /\ ~Pending("job") /\ pageJob.job # 0 => pageJob.status = work'[pageJob.job]
    <3>1. ASSUME NEW i, IsLast(i), work[i] \notin Active PROVE work'[i] = work[i]
      BY <1>4, <3>1 DEF IsLast, WorkspaceTypes, WorkspaceTypeOK, Statuses
    <3>. QED
      BY <2>1, <3>1 DEF JobInv
  <2>2. /\ Clear("job")' = Clear("job") /\ CallsAbout("job")' = CallsAbout("job")
        /\ AnswersAbout("job")' = AnswersAbout("job") /\ timers' = timers /\ Pending("job")' = Pending("job")
        /\ pageJob' = pageJob
    BY <1>1 DEF Clear, CallsAbout, AnswersAbout, Pending, wireVars
  <2>. QED
    BY <1>6, <2>1, <2>2 DEF JobInv
<1>8. DeckInv'
  BY <1>1, DeckKept DEF wireVars
<1>9. LoneInv'
  BY <1>1 DEF LoneInv, Lone, Clear, CallsAbout, AnswersAbout, wireVars
<1>. QED
  BY <1>3, <1>5, <1>7, <1>8, <1>9

LEMMA WorkspaceNext ==
    ASSUME WorkspaceTypes, ShownInv, [WorkspaceStep]_workspaceVars
    PROVE  ShownInv'
<1>1. CASE \E c \in calls : Serve(c)
  BY <1>1, ServeReadShown, ServeWriteShown DEF Serve
<1>2. CASE (\E c \in calls : CallFails(c)) \/ (\E a \in answers : AnswerFails(a))
  BY <1>2, LostShown
<1>3. CASE \E a \in answers : \/ ShowLink(a) \/ ShowSources(a) \/ ShowDeck(a)
                              \/ UploadDone(a) \/ OrderDone(a) \/ PollDone(a)
  BY <1>3, ShowShown
<1>4. CASE \E t \in timers : Tick(t)
  BY <1>4, TickShown
<1>5. CASE \E j \in Jobs : \/ WorkerMoves(j, "queued", "processing")
                           \/ WorkerMoves(j, "processing", "completed") \/ WorkerMoves(j, "processing", "failed")
  BY <1>5, WorkerShown, WorkspaceType
<1>6. CASE (\E u \in Uploads : OnUpload(u)) \/ (\E o \in Orders : OnEnqueue(o)) \/ \E s \in Shares : OnShare(s)
  BY <1>6, PressShown, TopicOf DEF OnUpload, OnEnqueue, OnShare
<1>7. CASE UNCHANGED workspaceVars
  <2>. USE <1>7 DEF workspaceVars, serverVars, wireVars, pageVars
  <2>1. \A t : Quiet(t)
    BY DEF Quiet, Clear, CallsAbout, AnswersAbout
  <2>2. LoneInv'
    BY DEF ShownInv, LoneInv, Lone, Clear, CallsAbout, AnswersAbout
  <2>3. DeckInv'
    BY DeckKept DEF ShownInv, CompletedStays
  <2>. QED
    BY <2>1, <2>2, <2>3, SourcesKept, TokenKept, JobKept, QueueKept DEF ShownInv
<1>. QED
  BY <1>1, <1>2, <1>3, <1>4, <1>5, <1>6, <1>7 DEF WorkspaceStep

LEMMA WorkspaceStart == WorkspaceInit => WorkspaceTypes /\ ShownInv
<1>. SUFFICES ASSUME WorkspaceInit PROVE WorkspaceTypes /\ ShownInv
  OBVIOUS
<1>1. PICK visit \in Visits, status \in Statuses :
        /\ asked = (Uploads \cup Orders \cup Shares) \ visit.presses
        /\ kept \in {{}, Uploads \ visit.presses}
        /\ link \in {0, 1} /\ minted = link
        /\ work = [j \in Jobs |-> IF j = 1 THEN status ELSE "none"]
        /\ pageDeck = ("deck" \notin visit.awaits /\ status = "completed")
        /\ calls = {Request(what, Mount, 0) : what \in visit.awaits \ {"poll"}}
            \cup (IF "poll" \in visit.awaits /\ status # "none"
                  THEN {Request("poll", Mount, 1)} ELSE {})
        /\ pageReady = ("sources" \notin visit.awaits)
        /\ pageSources = IF "sources" \in visit.awaits THEN {} ELSE kept
        /\ pageLink = IF "project" \in visit.awaits THEN 0 ELSE link
        /\ pageJob = NoJob
        /\ answers = {} /\ timers = {}
        /\ lost = {} /\ doubled = {}
  BY DEF WorkspaceInit
<1>2. visit.awaits \subseteq {"project", "sources", "deck", "poll"} /\ 1 \in Jobs /\ 0 \in 0..MaxJobs
      /\ 1 \in 0..MaxJobs /\ \A j \in Jobs : j >= 1
  BY WorkspaceAssumption DEF Jobs
<1>3. work \in [Jobs -> Statuses] /\ work[1] = status /\ \A j \in Jobs : j > 1 => work[j] = "none"
  BY <1>1, <1>2 DEF Statuses
<1>4. \A c \in calls : /\ c.by = Mount /\ c.what \in {"project", "sources", "deck", "poll"}
                       /\ c.what # "poll" => c = Request(c.what, Mount, 0) /\ c.what \in visit.awaits
                       /\ c.what = "poll" => c = Request("poll", Mount, 1) /\ c.job = 1 /\ status # "none"
  BY <1>1, <1>2 DEF Request
<1>5. \A c \in calls : MayAsk(c) /\ c \in Call
  BY <1>2, <1>4, RequestType DEF MayAsk, Request
<1>6. NoJob \in JobView /\ NoJob.job = 0 /\ NoJob.status = "none"
  BY <1>2 DEF NoJob, JobView, Statuses
<1>7. WorkspaceTypeOK
  <2>1. kept \subseteq Uploads /\ link \in Nat /\ minted \in Nat /\ pageLink \in Nat /\ pageSources \subseteq Uploads
        /\ pageReady \in BOOLEAN /\ pageDeck \in BOOLEAN /\ asked \subseteq Uploads \cup Orders \cup Shares
    BY <1>1
  <2>. QED
    BY <1>1, <1>3, <1>5, <1>6, <2>1 DEF WorkspaceTypeOK
<1>8. WorkspaceTypes
  BY <1>1, <1>5, <1>7 DEF WorkspaceTypes, WireInv
<1>9. \A t : AnswersAbout(t) = {}
  BY <1>1 DEF AnswersAbout
<1>10. LoneInv
  BY <1>1, <1>4, <1>9, TopicOf DEF LoneInv, Lone, CallsAbout
<1>11. SourcesInv
  <2>1. "sources" \in visit.awaits => Request("sources", Mount, 0) \in CallsAbout("sources")
    BY <1>1, TopicOf DEF CallsAbout, Request
  <2>. QED
    BY <1>1, <1>9, <2>1 DEF SourcesInv, Pending
<1>12. TokenInv
  <2>1. "project" \in visit.awaits => Request("project", Mount, 0) \in CallsAbout("link")
    BY <1>1, TopicOf DEF CallsAbout, Request
  <2>. QED
    BY <1>1, <1>9, <2>1 DEF TokenInv, Pending
<1>13. QueueInv
  BY <1>2, <1>3 DEF QueueInv, Jobs
<1>14. JobInv
  <2>1. status # "none" => IsLast(1)
    BY <1>2, <1>3 DEF IsLast
  <2>. QED
    BY <1>1, <1>4, <1>6, <1>9, <2>1 DEF JobInv, CallsAbout
<1>15. DeckInv
  BY <1>1, <1>6 DEF DeckInv
<1>. QED
  BY <1>8, <1>10, <1>11, <1>12, <1>13, <1>14, <1>15 DEF ShownInv

LEMMA WorkspaceHolds == SiteSpec => [](WorkspaceTypes /\ ShownInv)
<1>1. SiteInit => WorkspaceTypes /\ ShownInv
  BY WorkspaceStart DEF SiteInit
<1>2. WorkspaceTypes /\ ShownInv /\ [SiteNext]_siteVars => (WorkspaceTypes /\ ShownInv)'
  <2>. SUFFICES ASSUME WorkspaceTypes, ShownInv, [SiteNext]_siteVars
                PROVE  WorkspaceTypes' /\ ShownInv'
    OBVIOUS
  <2>1. [WorkspaceStep]_workspaceVars
    BY DEF SiteNext, siteVars, OnAccounts, OnCreation, OnWorkspace
  <2>. QED
    BY <2>1, WorkspaceType, WorkspaceNext
<1>. QED
  BY <1>1, <1>2, PTL DEF SiteSpec

\* In whatever order the answers of the page's reads, of presses and of polls land: once
\* nothing about a topic is under way, no call about it failed and no two overlapped,
\* the page shows what is stored: sources, share link, the last job's outcome, the deck
\* of a completed one (loadProject, refreshSources, pollJob, loadDeck, manageShare).
THEOREM PageSettles == SiteSpec => []WorkspaceSettles
<1>1. ShownInv => WorkspaceSettles
  <2>. SUFFICES ASSUME ShownInv PROVE WorkspaceSettles
    OBVIOUS
  <2>1. \A t : Settled(t) => Clear(t) /\ ~Pending(t)
    BY DEF Settled, Clear
  <2>2. Settled("deck") => ~(\E c \in calls : c.what = "deck") /\ ~(\E a \in answers : a.call.what = "deck")
    BY TopicOf DEF Settled, Pending, CallsAbout, AnswersAbout
  <2>. QED
    BY <2>1, <2>2 DEF WorkspaceSettles, ShownInv, SourcesInv, TokenInv, JobInv, IsLast, DeckInv, Settled
<1>. QED
  BY <1>1, WorkspaceHolds, PTL

\* Whichever part of the site a behaviour follows, it keeps its types.
THEOREM SiteTypeCorrect == SiteSpec => []SiteTypeOK
<1>1. SiteInit => follows \in Followed
  BY DEF SiteInit
<1>2. follows \in Followed /\ [SiteNext]_siteVars => (follows \in Followed)'
  BY DEF SiteNext, siteVars
<1>3. TypeOK /\ CreationTypeOK /\ WorkspaceTypes /\ follows \in Followed => SiteTypeOK
  BY DEF SiteTypeOK, WorkspaceTypes
<1>. QED
  BY <1>1, <1>2, <1>3, SiteImplements, TypeCorrect, CreationHolds, WorkspaceHolds, PTL DEF SiteSpec
=============================================================================
