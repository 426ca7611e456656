------------------------------ MODULE MCStartup -------------------------------
(* Startup with a few files of each kind, and room for two sites.          *)
EXTENDS Startup

Line(key, value) == [key |-> key, value |-> value]
Port(n) == Line("port", n)
Address(a) == Line("listen_addr", a)
Logs(d) == Line("logs_dir", d)

\* The file of the repository; settings twice, missing, out of range, for an
\* address or a directory that is not there; lines that cannot be used.
SomeServerFiles ==
  {NoFile, <<>>,
   <<Line("#", Null), Port(8080), Address("127.0.0.1"),
     Line("mimes_file", "/config/types.txt"), Logs("/var/log/")>>,
   <<Logs("/nowhere/"), Port(80), Logs("/var/log/"), Port(8081)>>,
   <<Port(0), Logs("/var/log/")>>,
   <<Port(65616), Logs("/var/log/")>>,
   <<Port(-1), Logs("/var/log/")>>,
   <<Address("10.0.0.1"), Logs("/var/log/")>>,
   <<Logs("/nowhere/")>>,
   <<Line("color", "red"), Line(Null, Null)>>,
   <<Port(80), Line("port", Null)>>}

File(lines) == [readable |-> TRUE, lines |-> lines]
Site(h, r) == File(<<Line("hostname", h), Line("root", r), Line("log_dir", "/l/")>>)

\* As in config/hosts.cfg: two sites in one file, without log_dir.
Shipped == File(<<Line("#", Null), Line("hostname", "a"), Line("root", "/a/"),
                  Line("hostname", "b"), Line("root", "/b/")>>)

SomeSiteDirs ==
  {NoDir, <<>>, <<Shipped>>,
   <<Site("a", "/a/")>>,
   <<Site("a", "/a/"), Site("a", "/b/")>>,
   <<Site("a", "/a/"), File(<<Line("hostname", "b"), Line("log_dir", "/l/")>>)>>,
   <<Site("b", "/b/"), File(<<Line("root", "/c/"), Line("log_dir", "/l/")>>)>>,
   <<[Site("a", "/a/") EXCEPT !.readable = FALSE], Site("b", "/b/")>>,
   <<Site("a", "/a/"), File(<<Line("hostname", Null), Line("log_dir", "/l/")>>)>>,
   <<Site("a", "/a/"), File(<<Line(Null, Null), Line("log_dir", Null)>>)>>,
   <<File(<<Line("log_dir", Null)>>), File(<<>>)>>,
   <<Site("a", "/a/"), Site("b", "/b/"), Site("c", "/c/")>>}

AllFaults == {"mmap", "socket", "setsockopt", "bind", "listen", "signal",
              "sigaction", "sem_init"}
===============================================================================
