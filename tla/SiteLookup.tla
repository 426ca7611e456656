------------------------------ MODULE SiteLookup ------------------------------
(***************************************************************************)
(* How a child finds the site of a request (webserver/vhosts/hosts.c): it  *)
(* reads the files of config/sites one after the other, in whatever order  *)
(* the directory lists them, and takes the first one that names the host.  *)
(*                                                                         *)
(* A file is the sequence of its lines, and a line is what strtok makes of *)
(* it: a key and a value, either of which may be missing.  A value without *)
(* quotes keeps its line end and is then a different value.                *)
(***************************************************************************)
EXTENDS Naturals, Sequences

CONSTANTS
  SiteDirs,  \* what config/sites may be
  Hosts,     \* what a Host header may say, without the port; "" for no header
  NoDir,     \* config/sites is not there
  Null       \* strtok found nothing

ASSUME NoDirAssumption == NoDir # Null
ASSUME NullAssumption == Null \notin Hosts

\* The values of the lines of a file.
ValuesOf(file) == {file.lines[i].value : i \in DOMAIN file.lines}

\* A directory is a function from file names to files; no value is empty,
\* because no token of strtok is.
ASSUME SiteDirsAssumption ==
  \A d \in SiteDirs \ {NoDir} : \A n \in DOMAIN d :
    /\ d[n].readable \in BOOLEAN
    /\ DOMAIN d[n].lines = 1 .. Len(d[n].lines)
    /\ Len(d[n].lines) \in Nat
    /\ "" \notin ValuesOf(d[n])

VARIABLES
  dir,       \* config/sites: a function from file names to files, or NoDir
  at,        \* where the lookup is
  host,      \* the host that is looked up
  left,      \* the files readdir has still to return
  entry,     \* the file that was opened last
  row,       \* lines of it that have been read
  found      \* hostname, root and log_dir: what they say of the site

lookupVars == <<at, host, left, entry, row, found>>

\* The three pointers are NULL.
Blank == [hostname |-> Null, root |-> Null, log_dir |-> Null]

Values == {Null} \cup UNION {ValuesOf(dir[n]) : n \in DOMAIN dir}

LookupTypeOK ==
  /\ dir \in SiteDirs
  /\ at \in {"idle", "reading", "lines", "found", "none", "crashed"}
  /\ host \in Hosts
  /\ row \in Nat
  /\ dir # NoDir => /\ left \subseteq DOMAIN dir
                    /\ entry \in DOMAIN dir \cup {Null}
                    /\ found \in [DOMAIN Blank -> Values]

LookupInit ==
  /\ dir \in SiteDirs
  /\ at = "idle"
  /\ host \in Hosts
  /\ left = {}
  /\ entry = Null
  /\ row = 0
  /\ found = Blank

\* get_vhost_config is called for h; without a host or a directory it returns
\* NULL at once.
OpenSites(h) ==
  /\ at \notin {"reading", "lines"}
  /\ host' = h
  /\ IF h = "" \/ dir = NoDir
       THEN at' = "none" /\ left' = {}
       ELSE at' = "reading" /\ left' = DOMAIN dir
  /\ entry' = Null
  /\ row' = 0
  /\ found' = Blank
  /\ UNCHANGED dir

\* Variant for mutation testing: the pointers keep what the file before said.
OpenEntryKeeping(n) ==
  /\ at = "reading"
  /\ n \in left
  /\ left' = left \ {n}
  /\ IF dir[n].readable
       THEN at' = "lines" /\ entry' = n /\ row' = 0
       ELSE UNCHANGED <<at, entry, row>>
  /\ UNCHANGED <<dir, host, found>>

\* Variant for mutation testing: a file that does not open ends the search.
OpenEntryOrGiveUp(n) ==
  /\ at = "reading"
  /\ n \in left
  /\ left' = left \ {n}
  /\ IF dir[n].readable
       THEN at' = "lines" /\ entry' = n /\ row' = 0 /\ found' = Blank
       ELSE at' = "none" /\ UNCHANGED <<entry, row, found>>
  /\ UNCHANGED <<dir, host>>

\* readdir returns n; a file that cannot be opened is passed over.
OpenEntry(n) ==
  /\ at = "reading"
  /\ n \in left
  /\ left' = left \ {n}
  /\ IF dir[n].readable
       THEN at' = "lines" /\ entry' = n /\ row' = 0 /\ found' = Blank
       ELSE UNCHANGED <<at, entry, row, found>>
  /\ UNCHANGED <<dir, host>>

\* Variant for mutation testing: the key is spelled as in server.cfg.
TakeLogsDir(site, line) ==
  IF line.key = "logs_dir"
    THEN [site EXCEPT !.log_dir = line.value]
    ELSE IF line.key \in {"hostname", "root"} /\ line.value # Null
           THEN [site EXCEPT ![line.key] = line.value]
           ELSE site

\* A line: the last value of a key counts, lines without key or value do not.
Take(site, line) ==
  IF line.key \in DOMAIN site /\ line.value # Null
    THEN [site EXCEPT ![line.key] = line.value]
    ELSE site

\* One turn of the loop over the lines.
TakeLine ==
  /\ at = "lines"
  /\ row < Len(dir[entry].lines)
  /\ row' = row + 1
  /\ found' = Take(found, dir[entry].lines[row + 1])
  /\ UNCHANGED <<dir, at, host, left, entry>>

\* The file is at its end.  If it is the one of the host, strdup of a missing
\* root or log_dir is a crash.
CloseEntry ==
  /\ at = "lines"
  /\ row = Len(dir[entry].lines)
  /\ at' = IF found.hostname # host THEN "reading"
           ELSE IF Null \in {found.root, found.log_dir} THEN "crashed" ELSE "found"
  /\ UNCHANGED <<dir, host, left, entry, row, found>>

EndOfSites ==
  /\ at = "reading"
  /\ left = {}
  /\ at' = "none"
  /\ UNCHANGED <<dir, host, left, entry, row, found>>

\* Somebody edits config/sites between two lookups; FileServing has edits
\* between the two lookups of one request.
EditSites ==
  /\ at \notin {"reading", "lines"}
  /\ dir' \in SiteDirs
  /\ at' = "idle"
  /\ left' = {}
  /\ entry' = Null
  /\ row' = 0
  /\ found' = Blank
  /\ UNCHANGED host

LookupStep ==
  \/ EditSites
  \/ \E h \in Hosts : OpenSites(h)
  \/ \E n \in left : OpenEntry(n)
  \/ TakeLine
  \/ CloseEntry
  \/ EndOfSites

-------------------------------------------------------------------------------
\* v is the value of the last line of the file that gives key a value.
IsLast(file, key, v) ==
  \E i \in DOMAIN file.lines :
    /\ file.lines[i].key = key
    /\ file.lines[i].value = v
    /\ v # Null
    /\ \A j \in DOMAIN file.lines :
         j > i => file.lines[j].key # key \/ file.lines[j].value = Null

Named(file, key) == \E i \in DOMAIN file.lines :
                      file.lines[i].key = key /\ file.lines[i].value # Null

\* The file is the one of the host that is looked up.
OfHost(file) == file.readable /\ IsLast(file, "hostname", host)

\* A site that is found is, in all its parts, what one file says last: no root
\* or log_dir of a file read before gets into it (hosts.c:48-82).
FoundInOneFile ==
  at = "found" =>
    \E n \in DOMAIN dir :
      OfHost(dir[n]) /\ \A key \in DOMAIN Blank : IsLast(dir[n], key, found[key])

\* Whatever the order of the directory, a lookup comes back without a site
\* only if no file that can be read names the host last (hosts.c:40-87).
MissedMeansAbsent ==
  at = "none" /\ dir # NoDir => \A n \in DOMAIN dir : ~OfHost(dir[n])

\* A lookup dies of a file of its host that lacks its root or its log_dir, and
\* of nothing else (hosts.c:74-76).
CrashNeedsIncomplete ==
  at = "crashed" =>
    \E n \in DOMAIN dir :
      /\ OfHost(dir[n])
      /\ ~Named(dir[n], "root") \/ ~Named(dir[n], "log_dir")
===============================================================================
