---------------------------- MODULE Configuration ----------------------------
(***************************************************************************)
(* load_program_config of src/src/program_config.cc, with what main makes  *)
(* of its result before it opens a file: which command lines (cmd) and     *)
(* configuration files (conf) the program refuses, and the prog_config it  *)
(* gets from the others.  A value is None when its key or option is        *)
(* missing or cannot be parsed.                                            *)
(* Definitions whose comment begins with "Defect" are the same code with   *)
(* one mistake.                                                            *)
(***************************************************************************)
EXTENDS Integers, Sequences

CONSTANTS SizeT,   \* size_t has the values 0..SizeT - 1
          None

ASSUME SizeAssumption == SizeT \in Nat \ {0}

\* read_nonzero_string and read_numeric_value throw when these do not hold.
HasText(value)   == value \notin {None, ""}
HasNumber(value) == value # None

ServerReads(server) ==
  /\ HasText(server.Address) /\ HasText(server.Username) /\ HasText(server.Password)
  /\ HasText(server.TLS)
  /\ HasNumber(server.Port) /\ HasNumber(server.Connections)

FileReads(conf) ==
  /\ conf.wellformed /\ conf.global
  /\ HasText(conf.From)
  /\ HasNumber(conf.ArticleSize) /\ HasNumber(conf.ArticleQueueSize)
  /\ HasNumber(conf.OperationTimeout)
  /\ \A i \in DOMAIN conf.servers : ServerReads(conf.servers[i])

\* The command line is refused, or asks for help, before anything is read.
Usage(cmd) == ~cmd.parses \/ cmd.help \/ cmd.files = <<>>

\* getenv("HOME") is a null pointer, and a path is made of it.
NoHome(cmd) == cmd.config = None /\ ~cmd.home

\* The configuration file's path can be made, and whether it exists can be asked.
ConfigPath(cmd, conf) == ~NoHome(cmd) /\ conf.reachable

\* Here the exception for a path whose status cannot be had is caught.
PathsExist(cmd, kind) == \A i \in DOMAIN cmd.files : kind[cmd.files[i]] \notin {"missing", "unreachable"}

Accepts(cmd, conf, kind) ==
  /\ conf.exists
  /\ FileReads(conf)
  /\ conf.servers # <<>>
  /\ cmd.groups # <<>>
  /\ PathsExist(cmd, kind)

\* Defect: the number stays an int.
ArticleSizeInInt(cmd, conf) ==
  IF cmd.articlesize = None THEN conf.ArticleSize ELSE cmd.articlesize

\* An option that is not given leaves the value of the configuration file.  An int
\* becomes a size_t.
ArticleSize(cmd, conf) ==
  (IF cmd.articlesize = None THEN conf.ArticleSize ELSE cmd.articlesize) % SizeT

DefaultDomain == <<[text |-> "post2usenet", number |-> 0]>>

\* main takes the file name for the subject when one path is named.
Subject(cmd) ==
  IF cmd.subject \notin {None, ""} THEN cmd.subject
  ELSE IF Len(cmd.files) = 1 THEN cmd.files[1] ELSE None

\* What the rest of main looks at; the sender and the groups only go into the text
\* of headers and of the nzb file.
ProgConfig(cmd, conf) ==
  [files |-> cmd.files, article_size |-> ArticleSize(cmd, conf),
   connections |-> [i \in DOMAIN conf.servers |-> conf.servers[i].Connections],
   io_threads |-> cmd.iothreads,
   msgiddomain |-> IF conf.MsgIdDomain = <<>> THEN DefaultDomain ELSE conf.MsgIdDomain]
=============================================================================
