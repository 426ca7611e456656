-------------------------- MODULE FileServing_proofs --------------------------
(* Theorems about FileServing, for any sites, sizes, chunk size and number *)
(* of edits.                                                               *)
EXTENDS FileServing, TLAPS

(***************************************************************************)
(* The disk: an inode with a name holds a version that has been made.      *)
(***************************************************************************)

Versions == 1 .. Len(made)

DiskInv ==
  /\ made \in Seq(Nat)
  /\ edits \in 0 .. MaxEdits
  /\ Len(made) \in 1 .. edits + 1
  /\ site \in Roots \cup {NoSite}
  /\ name \in [Roots -> Inodes \cup {0}]
  /\ content \in [Inodes -> Nat]
  /\ \A i \in Inodes : content[i] # 0 => content[i] \in Versions
  /\ \A r \in Roots : name[r] # 0 => content[name[r]] # 0

\* Versions made so far keep their sizes when one more is made.
LEMMA AppendKeeps ==
  ASSUME DiskInv, NEW s \in Sizes, made' = Append(made, s)
  PROVE  /\ made' \in Seq(Nat)
         /\ Len(made') = Len(made) + 1
         /\ Len(made) \in Nat
         /\ \A v \in Versions : made'[v] = made[v]
BY SizesAssumption DEF DiskInv, Versions, Inodes

LEMMA StepDiskInv == DiskInv /\ [Next]_vars => DiskInv'
<1> SUFFICES ASSUME DiskInv, [Next]_vars PROVE DiskInv'
  OBVIOUS
<1> USE MaxEditsAssumption
<1>1. CASE ChildStep
  <2>1. UNCHANGED diskVars
    BY <1>1 DEF ChildStep, GetVhost, Stat, Open, GetFileSize, GetMimeType, GetVhostAgain,
       StatAgain, OpenAgain, SendHeaders, ReadChunk
  <2>2. QED
    BY <2>1 DEF diskVars, DiskInv, Versions, Inodes
<1>2. CASE EditSite
  BY <1>2 DEF EditSite, Edit, DiskInv, Versions, Inodes
<1>3. ASSUME NEW r \in Roots, Remove(r) PROVE DiskInv'
  BY <1>3 DEF Remove, Edit, DiskInv, Versions, Inodes
<1>4. ASSUME NEW r \in Roots, NEW s \in Sizes, Replace(r, s) PROVE DiskInv'
  <2> DEFINE n == Len(made) + 1
  <2>1. /\ Len(made') = n /\ n \in Inodes /\ n # 0 /\ n \in Nat /\ 0 \notin Inodes
        /\ n \in 1 .. edits' + 1 /\ edits' \in 0 .. MaxEdits
        /\ made' \in Seq(Nat)
    <3>1. /\ edits < MaxEdits /\ edits' = edits + 1
          /\ made' = Append(made, s)
      BY <1>4 DEF Replace, Edit
    <3>2. /\ edits \in Nat /\ MaxEdits \in Nat
          /\ Len(made) \in 1 .. edits + 1
      BY DEF DiskInv
    <3>3. made' \in Seq(Nat) /\ Len(made') = n
      BY <3>1, AppendKeeps
    <3> QED
      BY <3>1, <3>2, <3>3 DEF Inodes
  <2>2. Versions' = Versions \cup {n}
    BY <2>1, AppendKeeps DEF Versions
  <2>3. /\ name' = [name EXCEPT ![r] = n]
        /\ content' = [content EXCEPT ![n] = n]
        /\ site' = site
    BY <1>4, <2>1 DEF Replace
  <2> HIDE DEF n
  <2>4. content' \in [Inodes -> Nat] /\ name' \in [Roots -> Inodes \cup {0}]
    BY <2>1, <2>3 DEF DiskInv
  <2>5. \A i \in Inodes : content'[i] # 0 => content'[i] \in Versions'
    BY <2>1, <2>2, <2>3 DEF DiskInv
  <2>6. \A q \in Roots : name'[q] # 0 => content'[name'[q]] # 0
    BY <2>1, <2>3 DEF DiskInv
  <2>7. QED
    BY <2>1, <2>3, <2>4, <2>5, <2>6 DEF DiskInv, Inodes
<1>5. ASSUME NEW r \in Roots, NEW s \in Sizes, Overwrite(r, s) PROVE DiskInv'
  <2> DEFINE n == Len(made) + 1
  <2>1. /\ Len(made') = n /\ n \in Inodes /\ n # 0 /\ n \in Nat /\ 0 \notin Inodes
        /\ n \in 1 .. edits' + 1 /\ edits' \in 0 .. MaxEdits
        /\ made' \in Seq(Nat)
    <3>1. /\ edits < MaxEdits /\ edits' = edits + 1
          /\ made' = Append(made, s)
      BY <1>5 DEF Overwrite, Edit
    <3>2. /\ edits \in Nat /\ MaxEdits \in Nat
          /\ Len(made) \in 1 .. edits + 1
      BY DEF DiskInv
    <3>3. made' \in Seq(Nat) /\ Len(made') = n
      BY <3>1, AppendKeeps
    <3> QED
      BY <3>1, <3>2, <3>3 DEF Inodes
  <2>2. Versions' = Versions \cup {n}
    BY <2>1, AppendKeeps DEF Versions
  <2>3. /\ content' = [content EXCEPT ![name[r]] = n]
        /\ name' = name /\ site' = site
        /\ name[r] \in Inodes
    BY <1>5, <2>1 DEF Overwrite, DiskInv
  <2> HIDE DEF n
  <2>4. content' \in [Inodes -> Nat]
    BY <2>1, <2>3 DEF DiskInv
  <2>5. \A i \in Inodes : content'[i] # 0 => content'[i] \in Versions'
    BY <2>1, <2>2, <2>3 DEF DiskInv
  <2>6. \A q \in Roots : name'[q] # 0 => content'[name'[q]] # 0
    BY <2>1, <2>3 DEF DiskInv
  <2>7. QED
    BY <2>1, <2>3, <2>4, <2>5, <2>6 DEF DiskInv, Inodes
<1>6. CASE UNCHANGED vars
  BY <1>6 DEF vars, diskVars, DiskInv, Versions, Inodes
<1>7. QED
  BY <1>1, <1>2, <1>3, <1>4, <1>5, <1>6 DEF Next

LEMMA InitDiskInv == Init => DiskInv
BY SizesAssumption, MaxEditsAssumption DEF Init, DiskInv, Versions, Inodes

Opened == {"size", "mime", "vhost2", "stat2", "open2", "headers", "body", "done"}

\* The file the child has open is there, whatever happens to its name.
FdInv ==
  /\ pc \in {"stat", "open"} \cup Opened => root \in Roots
  /\ pc \in Opened => fd \in Inodes /\ content[fd] # 0

LEMMA StepFdInv == FdInv /\ DiskInv /\ [Next]_vars => FdInv'
<1> SUFFICES ASSUME FdInv, DiskInv, [Next]_vars PROVE FdInv'
  OBVIOUS
<1> USE DEF FdInv, Opened
<1>1. CASE GetVhost \/ Stat \/ GetFileSize \/ GetMimeType \/ GetVhostAgain \/ StatAgain
           \/ SendHeaders \/ ReadChunk
  BY <1>1 DEF GetVhost, Stat, GetFileSize, GetMimeType, GetVhostAgain, StatAgain,
     SendHeaders, ReadChunk, At, diskVars, DiskInv
<1>2. CASE Open \/ OpenAgain
  BY <1>2 DEF Open, OpenAgain, diskVars, DiskInv
<1>3. ASSUME Edit, NEW i \in Inodes, NEW n \in Nat \ {0},
             content' \in {content, [content EXCEPT ![i] = n]}
      PROVE  FdInv'
  BY <1>3 DEF Edit, childVars, DiskInv
<1>4. ASSUME EditSite \/ \E r \in Roots : Remove(r) PROVE FdInv'
  BY <1>4 DEF EditSite, Remove, Edit, childVars
<1>5. ASSUME NEW r \in Roots, NEW s \in Sizes, Replace(r, s) \/ Overwrite(r, s)
      PROVE  FdInv'
  <2> DEFINE n == Len(made) + 1
  <2>1. made' = Append(made, s) /\ Edit
    BY <1>5 DEF Replace, Overwrite
  <2>2. n \in Inodes /\ n \in Nat \ {0}
    BY <2>1, MaxEditsAssumption DEF Edit, DiskInv, Inodes
  <2>3. Len(made') = n
    BY <2>1, AppendKeeps
  <2>4. name[r] # 0 => name[r] \in Inodes
    BY DEF DiskInv
  <2> HIDE DEF n
  <2>5. CASE Replace(r, s)
    BY <2>1, <2>2, <2>3, <2>5, <1>3 DEF Replace
  <2>6. CASE Overwrite(r, s)
    BY <2>1, <2>2, <2>3, <2>4, <2>6, <1>3 DEF Overwrite
  <2>7. QED
    BY <1>5, <2>5, <2>6
<1>6. CASE UNCHANGED vars
  BY <1>6 DEF vars, diskVars, childVars
<1>7. QED
  BY <1>1, <1>2, <1>4, <1>5, <1>6 DEF Next, ChildStep

(***************************************************************************)
(* Without an edit while the child works.                                  *)
(***************************************************************************)

\* What the child has found is still there.
Undisturbed ==
  /\ pc \in {"stat", "open"} \cup Opened => root = site /\ root \in Roots /\ complete
  /\ pc = "open" => name[root] # 0
  /\ pc \in Opened => fd = name[root] /\ fd # 0
  /\ pc \in Opened \ {"size"} => size = AsInt(made[content[fd]])
  /\ pc = "body" => sent <= made[content[fd]]
  /\ pc = "done" => sent = made[content[fd]]
  /\ pc = "crashed" =>
       IF fd = 0 THEN site # NoSite /\ ~complete ELSE complete /\ ~extension

QuietInv ==
  /\ pc \in Points
  /\ sent \in Nat
  /\ pc \notin {"body", "done"} => sent = 0
  /\ pc = "vhost" => fd = 0
  /\ mark \in 0 .. edits
  /\ pc # "vhost" /\ edits = mark => Undisturbed

\* A chunk never goes past the end of the file, and one that is not full
\* reaches it.
LEMMA NextChunkReads ==
  ASSUME made[content[fd]] \in Nat, sent \in Nat
  PROVE  /\ NextChunk(fd) \in Nat
         /\ sent <= made[content[fd]] =>
              IF NextChunk(fd) = Chunk
                THEN sent + NextChunk(fd) <= made[content[fd]]
                ELSE sent + NextChunk(fd) = made[content[fd]]
<1> DEFINE m == made[content[fd]]
<1>1. NextChunk(fd) = LET left == IF m > sent THEN m - sent ELSE 0
                      IN  IF left < Chunk THEN left ELSE Chunk
  BY DEF NextChunk
<1> HIDE DEF m
<1>2. m \in Nat
  BY DEF m
<1>3. NextChunk(fd) \in Nat
  BY <1>1, <1>2, ChunkAssumption
<1>4. sent <= m => IF NextChunk(fd) = Chunk THEN sent + NextChunk(fd) <= m
                                            ELSE sent + NextChunk(fd) = m
  BY <1>1, <1>2, ChunkAssumption
<1>5. QED
  BY <1>3, <1>4 DEF m

LEMMA StepQuietInv == QuietInv /\ FdInv /\ DiskInv /\ [Next]_vars => QuietInv'
<1> SUFFICES ASSUME QuietInv, FdInv, DiskInv, [Next]_vars PROVE QuietInv'
  OBVIOUS
<1> USE NoSiteAssumption DEF QuietInv, Undisturbed, Points, Opened
<1>1. CASE GetVhost
  BY <1>1 DEF GetVhost, diskVars, DiskInv
<1>2. CASE Stat \/ Open \/ GetMimeType \/ GetVhostAgain \/ StatAgain \/ OpenAgain
  BY <1>2 DEF Stat, Open, GetMimeType, GetVhostAgain, StatAgain, OpenAgain, diskVars
<1>3. CASE GetFileSize
  BY <1>3 DEF GetFileSize, GetMimeType, At, diskVars
<1>4. fd \in Inodes /\ content[fd] # 0 => made[content[fd]] \in Nat
  BY DEF DiskInv, Versions
<1>5. CASE SendHeaders
  <2>1. made[content[fd]] \in Nat /\ sent = 0
    BY <1>4, <1>5 DEF SendHeaders, At, FdInv
  <2>2. QED
    BY <1>5, <2>1 DEF SendHeaders, At, diskVars
<1>6. CASE ReadChunk
  <2> DEFINE m == made[content[fd]]
  <2>1. m \in Nat
    BY <1>4, <1>6 DEF ReadChunk, FdInv
  <2>2. /\ NextChunk(fd) \in Nat
        /\ sent <= m =>
             IF NextChunk(fd) = Chunk THEN sent + NextChunk(fd) <= m
                                      ELSE sent + NextChunk(fd) = m
    BY <2>1, NextChunkReads
  <2>3. edits = mark => size = AsInt(m) /\ sent <= m
    BY <1>6 DEF ReadChunk
  <2>4. QED
    BY <1>6, <2>1, <2>2, <2>3 DEF ReadChunk, diskVars
<1>7. ASSUME Edit PROVE QuietInv'
  BY <1>7, MaxEditsAssumption DEF Edit, childVars, DiskInv
<1>8. CASE UNCHANGED vars
  BY <1>8 DEF vars, diskVars, childVars
<1>9. QED
  BY <1>1, <1>2, <1>3, <1>5, <1>6, <1>7, <1>8
     DEF Next, ChildStep, EditSite, Remove, Replace, Overwrite

LEMMA QuietInvariance == Spec => []QuietInv
<1>1. Init => QuietInv
  BY DEF Init, QuietInv, Points
<1>2. Init => FdInv
  BY DEF Init, FdInv, Opened
<1>3. QED
  BY <1>1, <1>2, InitDiskInv, StepDiskInv, StepFdInv, StepQuietInv, PTL DEF Spec

\* Without an edit since the first lookup Content-Length is the length of the
\* body, as far as an int holds it (http.c:75-131, file.c:80-86).
THEOREM QuietLengthHolds == Spec => []QuietLength
<1>1. QuietInv => QuietLength
  BY DEF QuietInv, QuietLength, Undisturbed, Opened
<1>2. QED
  BY <1>1, QuietInvariance, PTL

\* Without an edit since the first lookup the child crashes only of an incomplete
\* site or of a name without extension (hosts.c:74-76, file.c:155-159).
THEOREM CrashHasCauseHolds == Spec => []CrashHasCause
<1>1. DiskInv /\ QuietInv => CrashHasCause
  BY DEF QuietInv, DiskInv, CrashHasCause, Undisturbed
<1>2. QED
  BY <1>1, InitDiskInv, StepDiskInv, QuietInvariance, PTL DEF Spec

(***************************************************************************)
(* With an editor that replaces files as a whole.                          *)
(***************************************************************************)

\* What is in an inode never changes, and a new inode is not the one open.
OneInv ==
  ~overwrites =>
    /\ \A i \in Inodes : content[i] = 0 \/ content[i] = i
    /\ chunks \in Seq(Nat)
    /\ \A i \in DOMAIN chunks : chunks[i] = content[fd]
    /\ pc \notin {"body", "done"} => chunks = <<>> /\ sent = 0
    /\ pc = "body" => sent <= made[content[fd]]
    /\ pc = "done" => sent = made[content[fd]]

LEMMA StepOneInv == OneInv /\ QuietInv /\ FdInv /\ DiskInv /\ [Next]_vars => OneInv'
<1> SUFFICES ASSUME OneInv, QuietInv, FdInv, DiskInv, [Next]_vars,
                    ~overwrites'
             PROVE  OneInv'
  BY DEF OneInv
<1> ~overwrites
  BY DEF Next, ChildStep, GetVhost, Stat, Open, GetFileSize, GetMimeType, GetVhostAgain,
     StatAgain, OpenAgain, SendHeaders, ReadChunk, EditSite, Remove, Replace,
     Overwrite, vars, diskVars
<1> USE DEF OneInv
<1>1. CASE GetVhost \/ Stat \/ Open \/ GetFileSize \/ GetMimeType \/ GetVhostAgain \/ StatAgain
           \/ OpenAgain
  BY <1>1 DEF GetVhost, Stat, Open, GetFileSize, GetMimeType, GetVhostAgain, StatAgain,
     OpenAgain, At, diskVars
<1>2. fd \in Inodes /\ content[fd] # 0 =>
        /\ content[fd] \in Versions /\ content[fd] = fd
        /\ made[content[fd]] \in Nat
  BY DEF DiskInv, Versions
<1>3. CASE SendHeaders
  BY <1>2, <1>3 DEF SendHeaders, At, diskVars, FdInv, Opened
<1>4. CASE ReadChunk
  <2>1. /\ content[fd] \in Nat /\ made[content[fd]] \in Nat /\ sent \in Nat
        /\ sent <= made[content[fd]]
    BY <1>2, <1>4 DEF ReadChunk, FdInv, Opened, QuietInv, DiskInv, Versions
  <2>2. IF NextChunk(fd) = Chunk THEN sent' <= made[content[fd]]
                                 ELSE sent' = made[content[fd]]
    BY <1>4, <2>1, NextChunkReads DEF ReadChunk
  <2>3. chunks' \in Seq(Nat) /\ \A i \in DOMAIN chunks' : chunks'[i] = content[fd]
    BY <1>4, <2>1 DEF ReadChunk
  <2>4. QED
    BY <1>4, <2>2, <2>3 DEF ReadChunk, diskVars
<1>5. CASE EditSite \/ \E r \in Roots : Remove(r)
  BY <1>5 DEF EditSite, Remove, Edit, childVars
<1>6. ASSUME NEW r \in Roots, NEW s \in Sizes, Replace(r, s) PROVE OneInv'
  <2> DEFINE n == Len(made) + 1
  <2>1. n \in Nat \ {0} /\ n \notin Versions
    BY DEF DiskInv, Versions
  <2>2. content' = [content EXCEPT ![n] = n] /\ UNCHANGED childVars
    BY <1>6, AppendKeeps DEF Replace, Edit
  <2>3. \A v \in Versions : made'[v] = made[v]
    BY <1>6, AppendKeeps DEF Replace
  <2> HIDE DEF n
  <2>4. \A i \in Inodes : content'[i] = 0 \/ content'[i] = i
    BY <2>2 DEF DiskInv
  <2>5. pc \in Opened => content'[fd] = content[fd] /\ made'[content[fd]] = made[content[fd]]
    BY <1>2, <2>1, <2>2, <2>3 DEF DiskInv, FdInv
  <2>6. CASE pc \in Opened
    BY <2>2, <2>4, <2>5, <2>6 DEF childVars, Opened
  <2>7. CASE pc \notin Opened
    BY <2>2, <2>4, <2>7 DEF childVars, Opened
  <2>8. QED
    BY <2>6, <2>7
<1>7. CASE UNCHANGED vars
  BY <1>7 DEF vars, diskVars, childVars
<1>8. QED
  BY <1>1, <1>3, <1>4, <1>5, <1>6, <1>7 DEF Next, ChildStep, Overwrite

\* A body is one version of the document, as long as files are replaced and
\* not written over (http.c:122-131).
THEOREM OneVersionHolds == Spec => []OneVersion
<1>1. Init => OneInv
  BY DEF Init, OneInv
<1>2. OneInv => OneVersion
  BY DEF OneInv, OneVersion
<1>3. Init => FdInv
  BY DEF Init, FdInv, Opened
<1>4. QED
  BY <1>1, <1>2, <1>3, InitDiskInv, StepDiskInv, StepFdInv, QuietInvariance,
     StepOneInv, PTL DEF Spec

(***************************************************************************)
(* Types.                                                                  *)
(***************************************************************************)

TypeInv ==
  /\ made \in Seq(Sizes)
  /\ overwrites \in BOOLEAN
  /\ complete \in BOOLEAN /\ extension \in BOOLEAN
  /\ root \in Roots \cup {NoSite}
  /\ fd \in Inodes \cup {0}
  /\ size \in {AsInt(s) : s \in Sizes} \cup {0}
  /\ chunks \in Seq(1 .. MaxEdits + 1)

LEMMA AppendType ==
  ASSUME NEW S, NEW q \in Seq(S), NEW e \in S
  PROVE  Append(q, e) \in Seq(S)
OBVIOUS

LEMMA EmptyType ==
  ASSUME NEW S
  PROVE  << >> \in Seq(S)
OBVIOUS

\* The file that is open has a version, which has a size.
LEMMA OpenedVersion ==
  ASSUME TypeInv, DiskInv, FdInv, pc \in Opened
  PROVE  content[fd] \in 1 .. MaxEdits + 1 /\ made[content[fd]] \in Sizes
<1>1. fd \in Inodes /\ content[fd] \in 1 .. Len(made)
  BY DEF FdInv, DiskInv, Versions
<1>2. Len(made) \in 1 .. MaxEdits + 1
  BY MaxEditsAssumption DEF DiskInv
<1>3. content[fd] \in 1 .. MaxEdits + 1
  BY <1>1, <1>2, MaxEditsAssumption
<1>4. made[content[fd]] \in Sizes
  BY <1>1 DEF TypeInv
<1> QED
  BY <1>3, <1>4

LEMMA StepTypeInv == TypeInv /\ FdInv /\ DiskInv /\ [Next]_vars => TypeInv'
<1> SUFFICES ASSUME TypeInv, FdInv, DiskInv, [Next]_vars PROVE TypeInv'
  OBVIOUS
<1>1. CASE GetVhost \/ GetVhostAgain
  BY <1>1 DEF GetVhost, GetVhostAgain, diskVars, DiskInv, TypeInv, Inodes
<1>2. CASE Open \/ OpenAgain
  <2>1. root \in Roots
    BY <1>2 DEF Open, OpenAgain, FdInv, Opened
  <2>2. name[root] \in Inodes \cup {0}
    BY <2>1 DEF DiskInv
  <2> QED
    BY <1>2, <2>2 DEF Open, OpenAgain, diskVars, TypeInv, Inodes
<1>3. CASE Stat \/ GetMimeType \/ StatAgain \/ SendHeaders
  BY <1>3 DEF Stat, GetMimeType, StatAgain, SendHeaders, diskVars, TypeInv, Inodes
<1>4. CASE GetFileSize
  <2>1. made[content[fd]] \in Sizes
    BY <1>4, OpenedVersion DEF GetFileSize, GetMimeType, At, Opened
  <2> QED
    BY <1>4, <2>1 DEF GetFileSize, GetMimeType, diskVars, TypeInv, Inodes
<1>5. CASE ReadChunk
  <2>1. content[fd] \in 1 .. MaxEdits + 1
    BY <1>5, OpenedVersion DEF ReadChunk, Opened
  <2>2. chunks' \in Seq(1 .. MaxEdits + 1)
    <3>1. Append(chunks, content[fd]) \in Seq(1 .. MaxEdits + 1)
      BY <2>1, AppendType DEF TypeInv
    <3> QED
      BY <1>5, <3>1 DEF ReadChunk, TypeInv
  <2> QED
    BY <1>5, <2>2 DEF ReadChunk, diskVars, TypeInv, Inodes
<1>6. ASSUME NEW s \in Sizes, UNCHANGED <<childVars, complete, extension>>,
             made' \in {made, Append(made, s)}, overwrites' \in {overwrites, TRUE}
      PROVE  TypeInv'
  <2>1. made' \in Seq(Sizes)
    BY <1>6, AppendType DEF TypeInv
  <2>2. overwrites' \in BOOLEAN
    BY <1>6 DEF TypeInv
  <2> QED
    BY <1>6, <2>1, <2>2 DEF childVars, TypeInv, Inodes
<1>7. CASE EditSite \/ \E r \in Roots : Remove(r)
  BY <1>7 DEF EditSite, Remove, Edit, childVars, TypeInv, Inodes
<1>8. ASSUME NEW r \in Roots, NEW s \in Sizes, Replace(r, s) \/ Overwrite(r, s)
      PROVE  TypeInv'
  BY <1>6, <1>8 DEF Replace, Overwrite, Edit
<1>9. CASE UNCHANGED vars
  BY <1>9 DEF vars, diskVars, childVars, TypeInv, Inodes
<1> QED
  BY <1>1, <1>2, <1>3, <1>4, <1>5, <1>7, <1>8, <1>9 DEF Next, ChildStep

\* Every variable keeps its type: what is sent is always a version of the
\* document that was made, its size goes out as an int, and there are never more
\* versions than edits.
THEOREM TypeCorrect == Spec => []TypeOK
<1>1. Init => TypeInv
  <2> SUFFICES ASSUME Init PROVE TypeInv
    OBVIOUS
  <2>1. PICK s \in Sizes : made = <<s>>
    BY DEF Init
  <2>2. made \in Seq(Sizes)
    BY <2>1
  <2>3. /\ complete \in BOOLEAN /\ extension \in BOOLEAN
        /\ overwrites = FALSE /\ root = NoSite /\ fd = 0 /\ size = 0
        /\ chunks = <<>>
    BY DEF Init
  <2>4. chunks \in Seq(1 .. MaxEdits + 1)
    BY <2>3, EmptyType
  <2> QED
    BY <2>2, <2>3, <2>4 DEF TypeInv
<1>2. Init => FdInv
  BY DEF Init, FdInv, Opened
<1>3. TypeInv /\ DiskInv /\ QuietInv => TypeOK
  <2> SUFFICES ASSUME TypeInv, DiskInv, QuietInv PROVE TypeOK
    OBVIOUS
  <2>1. content \in [Inodes -> 0 .. MaxEdits + 1]
    <3>1. \A i \in Inodes : content[i] \in 0 .. MaxEdits + 1
      BY MaxEditsAssumption DEF DiskInv, Versions
    <3> QED
      BY <3>1 DEF DiskInv
  <2>2. mark \in 0 .. MaxEdits
    BY MaxEditsAssumption DEF DiskInv, QuietInv
  <2> QED
    BY <2>1, <2>2 DEF TypeInv, DiskInv, QuietInv, TypeOK
<1> QED
  BY <1>1, <1>2, <1>3, InitDiskInv, StepDiskInv, StepFdInv, StepTypeInv,
     QuietInvariance, PTL DEF Spec
===============================================================================
