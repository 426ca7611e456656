----------------------------- MODULE FileServing ------------------------------
(***************************************************************************)
(* How a child serves a file (webserver/main.c from line 227 on, and the   *)
(* code 200 branch of send_response) while somebody edits the site.        *)
(*                                                                         *)
(* The site is looked up twice and the file is opened twice: once to       *)
(* decide the code and to take the size that becomes Content-Length, and,  *)
(* after the status line has gone out, once more to send it.  Each opening *)
(* is a stat and an fopen of the same path.                                *)
(*                                                                         *)
(* A file is an inode that holds a version of the document; versions are   *)
(* numbered as they are made and only their sizes matter.  The request is  *)
(* a GET whose target is the document in the root of the site.             *)
(***************************************************************************)
EXTENDS Integers, Sequences

CONSTANTS
  Roots,      \* the directories the site can have as its root
  NoSite,     \* no file of config/sites names the host
  Sizes,      \* the sizes of the versions
  Chunk,      \* bytes per fread: 8192 in the code
  IntMax,     \* the largest int: 2147483647 on x86-64
  MaxEdits    \* bound on the number of edits

ASSUME ChunkAssumption == Chunk \in Nat \ {0}
ASSUME IntMaxAssumption == IntMax \in Nat
ASSUME SizesAssumption == Sizes \subseteq Nat
ASSUME NoSiteAssumption == NoSite \notin Roots
ASSUME MaxEditsAssumption == MaxEdits \in Nat

VARIABLES
  site,       \* the root in the file of the site, or NoSite
  complete,   \* whether that file has the lines root and log_dir
  name,       \* the inode the document has in each root, 0 for none
  content,    \* the version in each inode
  made,       \* the sizes of the versions made so far
  edits,      \* the number of edits so far
  overwrites, \* history: whether one of them wrote into a file
  extension,  \* whether the name of the document has an extension
  pc,         \* where the child is
  root,       \* the root the child has read last
  fd,         \* the inode it has opened last
  size,       \* the value that becomes Content-Length
  chunks,     \* the versions the chunks of the body were read from
  sent,       \* bytes of the body
  mark        \* history: edits at the first lookup of the site

diskVars == <<site, complete, name, content, made, edits, overwrites, extension>>
childVars == <<pc, root, fd, size, chunks, sent, mark>>
vars == <<diskVars, childVars>>

\* Every edit makes at most one inode, and one is there at the start.
Inodes == 1 .. MaxEdits + 1

Points == {"vhost", "stat", "open", "size", "mime", "vhost2", "stat2", "open2",
           "headers", "body", "done", "badrequest", "notfound", "crashed"}

\* st_size, which has 64 bits, as an int.
AsInt(n) == ((n + IntMax + 1) % (2 * (IntMax + 1))) - (IntMax + 1)

TypeOK ==
  /\ site \in Roots \cup {NoSite}
  /\ name \in [Roots -> Inodes \cup {0}]
  /\ content \in [Inodes -> 0 .. MaxEdits + 1]
  /\ made \in Seq(Sizes)
  /\ edits \in 0 .. MaxEdits
  /\ overwrites \in BOOLEAN
  /\ complete \in BOOLEAN /\ extension \in BOOLEAN
  /\ pc \in Points
  /\ root \in Roots \cup {NoSite}
  /\ fd \in Inodes \cup {0}
  /\ size \in {AsInt(s) : s \in Sizes} \cup {0}
  /\ chunks \in Seq(1 .. MaxEdits + 1)
  /\ sent \in Nat
  /\ mark \in 0 .. MaxEdits

\* The document exists in one root, in version 1.
Init ==
  /\ site \in Roots \cup {NoSite}
  /\ \E r \in Roots : name = [q \in Roots |-> IF q = r THEN 1 ELSE 0]
  /\ content = [i \in Inodes |-> IF i = 1 THEN 1 ELSE 0]
  /\ \E s \in Sizes : made = <<s>>
  /\ edits = 0
  /\ overwrites = FALSE
  /\ complete \in BOOLEAN /\ extension \in BOOLEAN
  /\ pc = "vhost"
  /\ root = NoSite
  /\ fd = 0
  /\ size = 0
  /\ chunks = <<>>
  /\ sent = 0
  /\ mark = 0

-------------------------------------------------------------------------------
(* Edits of the site and of the document, by somebody else.                *)

Edit ==
  /\ edits < MaxEdits
  /\ edits' = edits + 1
  /\ UNCHANGED <<childVars, extension>>

\* The file of the site is edited, made or removed.
EditSite ==
  /\ Edit
  /\ site' \in Roots \cup {NoSite}
  /\ complete' \in BOOLEAN
  /\ <<site', complete'>> # <<site, complete>>
  /\ UNCHANGED <<name, content, made, overwrites>>

\* A new version is written elsewhere and renamed to the document.
Replace(r, s) ==
  /\ Edit
  /\ made' = Append(made, s)
  /\ name' = [name EXCEPT ![r] = Len(made')]
  /\ content' = [content EXCEPT ![Len(made')] = Len(made')]
  /\ UNCHANGED <<site, complete, overwrites>>

Remove(r) ==
  /\ Edit
  /\ name[r] # 0
  /\ name' = [name EXCEPT ![r] = 0]
  /\ UNCHANGED <<site, complete, content, made, overwrites>>

\* A new version is written over the old one.
Overwrite(r, s) ==
  /\ Edit
  /\ overwrites' = TRUE
  /\ name[r] # 0
  /\ made' = Append(made, s)
  /\ content' = [content EXCEPT ![name[r]] = Len(made')]
  /\ UNCHANGED <<site, complete, name>>

-------------------------------------------------------------------------------
(* The child.                                                              *)

At(from, to) == pc = from /\ pc' = to

\* Variant for mutation testing: the result is not compared with NULL.
GetVhostUnchecked ==
  /\ pc = "vhost"
  /\ root' = site
  /\ pc' = IF site = NoSite \/ ~complete THEN "crashed" ELSE "stat"
  /\ mark' = edits
  /\ UNCHANGED <<diskVars, fd, size, chunks, sent>>

\* get_vhost_config for the decision; it duplicates root and log_dir, which are
\* NULL when the file of the site lacks their lines.
GetVhost ==
  /\ pc = "vhost"
  /\ root' = site
  /\ pc' = IF site = NoSite THEN "badrequest"
           ELSE IF complete THEN "stat" ELSE "crashed"
  /\ mark' = edits
  /\ UNCHANGED <<diskVars, fd, size, chunks, sent>>

\* check_and_open: stat, then fopen, either of which may find no file.
Stat ==
  /\ pc = "stat"
  /\ pc' = IF name[root] = 0 THEN "notfound" ELSE "open"
  /\ UNCHANGED <<diskVars, root, fd, size, chunks, sent, mark>>

Open ==
  /\ pc = "open"
  /\ fd' = name[root]
  /\ pc' = IF name[root] = 0 THEN "notfound" ELSE "size"
  /\ UNCHANGED <<diskVars, root, size, chunks, sent, mark>>

\* Variant for mutation testing: whole blocks in the place of st_size.
GetFileSizeInBlocks ==
  /\ At("size", "mime")
  /\ size' = AsInt(((made[content[fd]] + Chunk - 1) \div Chunk) * Chunk)
  /\ UNCHANGED <<diskVars, root, fd, chunks, sent, mark>>

\* get_file_size of the opened file, which is an int; the status line goes out.
GetFileSize ==
  /\ At("size", "mime")
  /\ size' = AsInt(made[content[fd]])
  /\ UNCHANGED <<diskVars, root, fd, chunks, sent, mark>>

\* get_mime_type increments the NULL that strrchr returns for a name without
\* extension, and compares it with the extensions of the types file.
GetMimeType ==
  /\ pc = "mime"
  /\ pc' = IF extension THEN "vhost2" ELSE "crashed"
  /\ UNCHANGED <<diskVars, root, fd, size, chunks, sent, mark>>

\* get_vhost_config(request)->root for the body.
GetVhostAgain ==
  /\ pc = "vhost2"
  /\ root' = site
  /\ pc' = IF site = NoSite \/ ~complete THEN "crashed" ELSE "stat2"
  /\ UNCHANGED <<diskVars, fd, size, chunks, sent, mark>>

\* check_and_open for the body; get_last_modified_date applies fileno to the
\* result, NULL or not.
StatAgain ==
  /\ pc = "stat2"
  /\ pc' = IF name[root] = 0 THEN "crashed" ELSE "open2"
  /\ UNCHANGED <<diskVars, root, fd, size, chunks, sent, mark>>

OpenAgain ==
  /\ pc = "open2"
  /\ fd' = name[root]
  /\ pc' = IF name[root] = 0 THEN "crashed" ELSE "headers"
  /\ UNCHANGED <<diskVars, root, size, chunks, sent, mark>>

\* The headers, with size as Content-Length.
SendHeaders ==
  /\ At("headers", "body")
  /\ UNCHANGED <<diskVars, root, fd, size, chunks, sent, mark>>

\* What is left of inode i after the bytes already read, at most one chunk.
NextChunk(i) ==
  LET left == IF made[content[i]] > sent THEN made[content[i]] - sent ELSE 0
  IN  IF left < Chunk THEN left ELSE Chunk

\* Variant for mutation testing: the loop stops at the first short chunk,
\* without sending it.
ReadChunkWhileFull ==
  /\ pc = "body"
  /\ IF NextChunk(fd) = Chunk
       THEN /\ sent' = sent + Chunk
            /\ chunks' = Append(chunks, content[fd])
            /\ pc' = "body"
       ELSE pc' = "done" /\ UNCHANGED <<sent, chunks>>
  /\ UNCHANGED <<diskVars, root, fd, size, mark>>

\* Variant for mutation testing: the file is opened again for every chunk.
ReadChunkByName ==
  /\ pc = "body"
  /\ IF name[root] # 0 /\ NextChunk(name[root]) > 0
       THEN /\ sent' = sent + NextChunk(name[root])
            /\ chunks' = Append(chunks, content[name[root]])
            /\ pc' = "body"
       ELSE pc' = "done" /\ UNCHANGED <<sent, chunks>>
  /\ UNCHANGED <<diskVars, root, fd, size, mark>>

\* fread and write; fread does not go on after it has met the end of the file.
ReadChunk ==
  /\ pc = "body"
  /\ sent' = sent + NextChunk(fd)
  /\ chunks' = IF NextChunk(fd) > 0 THEN Append(chunks, content[fd]) ELSE chunks
  /\ pc' = IF NextChunk(fd) = Chunk THEN "body" ELSE "done"
  /\ UNCHANGED <<diskVars, root, fd, size, mark>>

ChildStep ==
  \/ GetVhost \/ Stat \/ Open \/ GetFileSize \/ GetMimeType
  \/ GetVhostAgain \/ StatAgain \/ OpenAgain \/ SendHeaders \/ ReadChunk

Next ==
  \/ ChildStep
  \/ EditSite
  \/ \E r \in Roots : Remove(r) \/ \E s \in Sizes : Replace(r, s) \/ Overwrite(r, s)

Spec == Init /\ [][Next]_vars

-------------------------------------------------------------------------------
(* Properties.                                                             *)

\* As long as files are replaced as a whole and not written over, a body is one
\* version of the document from its first byte to its last, whatever happens to
\* the name while it is read (http.c:122-131).
OneVersion ==
  pc = "done" /\ ~overwrites =>
    /\ \A i, j \in DOMAIN chunks : chunks[i] = chunks[j]
    /\ sent = made[content[fd]]

\* Content-Length is the length of the body, as far as an int holds it, unless
\* there was an edit after the first lookup: the two openings, and the chunks,
\* add up.
QuietLength == pc = "done" /\ edits = mark => size = AsInt(sent)

\* A child that dies without an edit since its first lookup has met a file of
\* the site that lacks a line, before it opened anything, or a name without
\* extension, after the status line: whatever else is missing from the start is
\* answered with 400 or 404.
CrashHasCause ==
  pc = "crashed" /\ edits = mark =>
    IF fd = 0 THEN site # NoSite /\ ~complete ELSE complete /\ ~extension

\* http.c:43, "@param size the size of the response body": as long as files are
\* not written over, and an int holds the length of the body.
LengthMatches == pc = "done" /\ ~overwrites /\ sent <= IntMax => sent = size
===============================================================================
