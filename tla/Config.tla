------------------------------- MODULE Config --------------------------------
(***************************************************************************)
(* tunnel_config.c: the INI file is read by ini_parse(), which calls      *)
(* ini_parse_handler() for every "name = value" line, and                 *)
(* tunnel_config_new() keeps the TunnelConfig unless ini_parse() returned *)
(* a negative result.                                                     *)
(*                                                                         *)
(* A line is a record [section, name, value] or Malformed.  The text of a *)
(* value is abstracted to the number atoi()/atol() read from it; a string *)
(* setting is represented only by being set (strdup()ed).                 *)
(***************************************************************************)
EXTENDS Integers, Sequences

CONSTANT SizeModulus   \* 2^64: buffer_size is a size_t

\* A line ini_parse() cannot split into a name and a value; its fields
\* are never read.
Malformed == [section |-> "", name |-> "", value |-> 0]

\* The string settings; each is strdup()ed into the TunnelConfig.
StrKeys == {"ssl_server_name", "destination_name", "destination_port",
            "verify_locations", "certificate_file", "PrivateKey_file"}

\* The section in which ini_parse_handler() accepts each name.
Section ==
  [k \in StrKeys \cup {"ssl_server_port", "thread_count", "buffer_size"} |->
     IF k \in {"verify_locations", "certificate_file", "PrivateKey_file"}
     THEN "ssl" ELSE "main"]

Keys == DOMAIN Section

\* TunnelConfig as calloc() leaves it: every pointer NULL, every number 0.
EmptyConfig ==
  [strings |-> {}, ssl_server_port |-> 0, thread_count |-> 0, buffer_size |-> 0]

ConfigType ==
  [strings : SUBSET StrKeys, ssl_server_port : 0 .. 65535,
   thread_count : Int, buffer_size : 0 .. SizeModulus - 1]

MaxOf(a, b) == IF a > b THEN a ELSE b

\* is_match(): both the section and the name compare equal.
IsMatch(e) == e.name \in Keys /\ e.section = Section[e.name]

\* ini_parse_handler() for a line it matches: strdup() the string, or
\* convert the number: (uint16_t)atoi() for the port; atoi() clamped to at
\* least 1 for thread_count; (size_t)atol() clamped to at least 1 for
\* buffer_size, after the conversion wrapped a negative value.
Handle(c, e) ==
  CASE e.name \in StrKeys ->
         [c EXCEPT !.strings = @ \cup {e.name}]
    [] e.name = "ssl_server_port" ->
         [c EXCEPT !.ssl_server_port = e.value % 65536]
    [] e.name = "thread_count" ->
         [c EXCEPT !.thread_count = MaxOf(e.value, 1)]
    [] e.name = "buffer_size" ->
         [c EXCEPT !.buffer_size = MaxOf(e.value % SizeModulus, 1)]

\* ini_parse() (inih) on a file it could open: each "name = value" line
\* goes to the handler, which returns 0 for a name it does not match; the
\* first line that is malformed or refused gives the result, 0 if none is;
\* parsing goes on after an error.
RECURSIVE ParseLines(_, _, _)
ParseLines(lines, i, acc) ==
  IF i > Len(lines) THEN acc
  ELSE LET e  == lines[i]
           ok == e # Malformed /\ IsMatch(e)
       IN  ParseLines(lines, i + 1,
             [config |-> IF ok THEN Handle(acc.config, e) ELSE acc.config,
              error  |-> IF acc.error = 0 /\ ~ok THEN i ELSE acc.error])

IniParse(lines) == ParseLines(lines, 1, [config |-> EmptyConfig, error |-> 0])

\* ini_parse()'s result for a file: -1 if it cannot be opened.
IniResult(file) == IF file.opened THEN IniParse(file.lines).error ELSE -1

\* tunnel_config_new(): the config, or none (NULL) when ini_parse()'s
\* result is negative.  A positive result, the line of the first error, is
\* not checked.
TunnelConfigNew(file) ==
  IF IniResult(file) < 0 THEN {} ELSE {IniParse(file.lines).config}

\* What spec 6.1 asks of the loader: a file with an unknown key is
\* rejected, and thread_count and buffer_size are at least 1.
MeetsSpec(file, c) ==
  /\ \A i \in 1 .. Len(file.lines) :
       file.lines[i] # Malformed => IsMatch(file.lines[i])
  /\ c.thread_count >= 1
  /\ c.buffer_size >= 1

====
