---------------------------- MODULE AdapterConfig ----------------------------
(***************************************************************************)
(* etherAdapter.cfg: ConfigParser reads the file line by line into a map   *)
(* of sections, AdapterConfig::load takes its settings from it.  A line is *)
(* what trimming and the tests on its first characters make of it; a value *)
(* is its text, its text in lower case, and what atoi makes of it and of   *)
(* each of its parts between commas that is not blank.                     *)
(***************************************************************************)
EXTENDS Integers, Sequences, FiniteSets, SequencesExt

CONSTANTS
  Sections, Keys,    \* names that occur in files
  Texts,             \* values that occur in files
  MaxLines,          \* bound: lines of a file
  Settings,          \* settings load() reads: section, key, kind, default, least
  U16                \* number of port numbers (65536)

Value(t, low, n, items) == [t |-> t, low |-> low, n |-> n, items |-> items]
Empty == Value("", "", 0, <<>>)

\* Comment and blank lines and lines without "=" are skipped alike.  A value is what
\* is left of it without surrounding quotes.
Lines ==
  [kind : {"skip"}, s : {""}, k : {""}, v : {Empty}] \cup
  [kind : {"section"}, s : Sections, k : {""}, v : {Empty}] \cup
  [kind : {"assign"}, s : {""}, k : Keys, v : Texts]

VARIABLES
  exists,     \* the file can be opened
  file,       \* lines read so far
  section,    \* currentSection
  sections,   \* ConfigParser::_sections, a set of <<section, key, value>>
  cfg,        \* the AdapterConfig load() returns
  configFile  \* AdapterConfig::configFile, set on every path of load()
vars == <<exists, file, section, sections, cfg, configFile>>

Default(s) == s.default
Defaults == [s \in Settings |-> Default(s)]

Init ==
  /\ exists \in BOOLEAN /\ file = <<>> /\ section = "default" /\ sections = {}
  /\ cfg = Defaults /\ configFile = ""

\* _sections[currentSection][key] = val, without surrounding quotes.
Store(line) == {e \in sections : ~(e[1] = section /\ e[2] = line.k)} \cup {<<section, line.k, line.v>>}

\* One getline() of ConfigParser::load.
ReadLine ==
  /\ exists /\ configFile = "" /\ Len(file) < MaxLines
  /\ \E line \in Lines :
       /\ file' = Append(file, line)
       /\ section' = IF line.kind = "section" THEN line.s ELSE section
       /\ sections' = IF line.kind = "assign" THEN Store(line) ELSE sections
  /\ UNCHANGED <<exists, cfg, configFile>>

Found(s) == {e \in sections : e[1] = s.section /\ e[2] = s.key}
Get(s, default) == IF Found(s) = {} THEN default ELSE (CHOOSE e \in Found(s) : TRUE)[3]
Num(n) == Value("", "", n, <<>>)
AtLeast(v, least) == IF v.n < least THEN Num(least) ELSE v

GetInt(s) == IF Get(s, Empty).t = "" THEN s.default ELSE Num(Get(s, Empty).n)
GetBool(s) == IF Get(s, Empty).t = "" THEN s.default
              ELSE Num(IF Get(s, Empty).low \in {"true", "1", "yes", "on"} THEN 1 ELSE 0)

\* The ports of a list, in its order; those out of range are ignored.
InRange(n) == n > 0 /\ n < U16
ParsePortList(v) == Value("", "", 0, SelectSeq(v.items, InRange))

\* AdapterConfig::load after the file was read.
Load ==
  /\ configFile = ""
  /\ cfg' = IF ~exists THEN Defaults
            ELSE [s \in Settings |->
                    CASE s.kind = "string" -> Get(s, s.default)
                      [] s.kind = "int" -> AtLeast(GetInt(s), s.least)
                      [] s.kind = "port" -> Num(GetInt(s).n % U16)
                      [] s.kind = "ports" -> ParsePortList(Get(s, Empty))
                      [] s.kind = "bool" -> GetBool(s)]
  /\ configFile' = "etherAdapter.cfg"
  /\ UNCHANGED <<exists, file, section, sections>>

Next == ReadLine \/ Load
Spec == Init /\ [][Next]_vars
-----------------------------------------------------------------------------
(* The line that decides a setting, found in the file as text.                *)
SectionAt(i) ==
  LET heads == {j \in 1 .. i : file[j].kind = "section"}
  IN IF heads = {} THEN "default" ELSE file[CHOOSE j \in heads : \A k \in heads : k <= j].s
Assigning(s) == {i \in DOMAIN file : file[i].kind = "assign" /\ file[i].k = s.key /\ SectionAt(i) = s.section}
Deciding(s) == CHOOSE i \in Assigning(s) : \A j \in Assigning(s) : j <= i

\* A setting has the value of the last line that assigns it under its section, wherever
\* the section's parts stand in the file and however often it is opened again; a missing
\* file or line gives the default, a number below the least one is raised to it, a port
\* is the number modulo 2^16, and a list of ports keeps every item that is a port, in the
\* order of the line, and no other.
SettingIsLastLine ==
  configFile # "" => \A s \in Settings :
    LET v == file[Deciding(s)].v
        given == exists /\ Assigning(s) # {}
    IN CASE s.kind = "string" -> cfg[s] = IF given THEN v ELSE s.default
         [] s.kind = "int" -> cfg[s].n = (IF ~given \/ v.t = "" THEN s.default.n
                                          ELSE IF v.n < s.least THEN s.least ELSE v.n)
         [] s.kind = "bool" -> cfg[s].n = (IF ~given \/ v.t = "" THEN s.default.n
                                           ELSE IF v.low \in {"true", "1", "yes", "on"} THEN 1 ELSE 0)
         [] s.kind = "port" -> /\ cfg[s].n \in 0 .. U16 - 1
                               /\ (cfg[s].n - (IF ~given \/ v.t = "" THEN s.default.n ELSE v.n)) % U16 = 0
         [] s.kind = "ports" ->
              LET items == IF given THEN v.items ELSE <<>>
                  valid == {i \in DOMAIN items : items[i] \in 1 .. U16 - 1}
              IN /\ Len(cfg[s].items) = Cardinality(valid)
                 /\ \A i \in valid : cfg[s].items[Cardinality({j \in valid : j <= i})] = items[i]

=============================================================================
