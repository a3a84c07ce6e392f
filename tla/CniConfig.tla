----------------------------- MODULE CniConfig -------------------------------
(***************************************************************************)
(* LoadConfig: the plugin's configuration, checked and completed on every  *)
(* call.  The networks of a node are loaded one after the other; what is   *)
(* kept of each is the PluginConf that the handlers go on to use.          *)
(***************************************************************************)
EXTENDS Naturals, Integers, Sequences, FiniteSetsExt

CONSTANTS
  Letters,     \* of network and bridge names
  Digests,     \* values of the hash suffix, each a letter: 2^16 in the code
  NameSize,    \* grIfaceNameSize, 16 in the code
  MaxName,     \* bound on the length of a network name
  MaxBridge,   \* bound on the length of a configured bridge name, or 0
  Word,        \* values of a uint16: 65536 in the code
  ConfMTUs, IfTypes, LogWords,  \* what the other fields may hold
  MaxNets      \* bound on the networks of a node

\* A name field holds the prefix, a hash suffix and the terminator.
ASSUME ConfAssumption ==
  /\ NameSize \in Nat /\ NameSize >= 6
  /\ MaxName \in Nat /\ MaxBridge \in Nat
  /\ Word \in Nat \ {0} /\ ConfMTUs \subseteq Int

VARIABLE conf   \* PluginConf of each network loaded, as a set of records

NetworkNames == UNION {[1..n -> Letters] : n \in 0..MaxName}

\* Of a configured bridge name, only its length is looked at.
Bridges == {[i \in 1..n |-> "x"] : n \in 0..MaxBridge}

\* A logLevel is a word, perhaps in capitals or between blanks.
Levels == [word : LogWords, plain : BOOLEAN]

Unset == [word |-> "", plain |-> TRUE]

\* stdin: does it parse, has it an ipam section, and its fields.
Inputs ==
  [json : BOOLEAN, ipam : BOOLEAN, name : NetworkNames, mtu : ConfMTUs,
   bridge : Bridges, ifType : IfTypes, level : Levels]

-----------------------------------------------------------------------------
Prefix == <<"b", "r", "-">>

\* Mutant: the name is cut where it still has to hold the terminator.
bridgeNameTooLong(network, digest) ==
  LET name == Prefix \o network
      suffix == <<"-", digest>>
  IN IF Len(name) <= NameSize THEN name
     ELSE SubSeq(name, 1, NameSize - Len(suffix)) \o suffix

\* A name that fits is kept, a longer one is cut and gets a hash suffix.
bridgeNameFor(network, digest) ==
  LET name == Prefix \o network
      maxLen == NameSize - 1
      suffix == <<"-", digest>>
  IN IF Len(name) <= maxLen THEN name
     ELSE SubSeq(name, 1, Max({maxLen - Len(suffix), Len(Prefix)})) \o suffix

\* Mutant: one more word is let through.
validLogLevelLoose(l) == l.word \in {"debug", "info", "warn", "warning", "error", "trace"}

validLogLevel(l) == l.word \in {"debug", "info", "warn", "warning", "error"}

parseLogLevel(l) ==
  CASE l.word = "debug" -> "debug"
    [] l.word = "info" -> "info"
    [] l.word \in {"warn", "warning"} -> "warn"
    [] l.word = "error" -> "error"
    [] OTHER -> "warn"

\* The checks of LoadConfig, each with an error return.
Accepted(in) ==
  /\ in.json
  /\ in.ipam
  /\ in.name # <<>>
  /\ in.mtu >= 0 /\ in.mtu <= Word - 1
  /\ in.bridge # <<>> => Len(in.bridge) < NameSize
  /\ in.ifType \in {"", "tap", "virtio"}
  /\ in.level # Unset => validLogLevel(in.level)

\* What it returns, and the level ConfigureLogging then installs.
PluginConf(in, digest) ==
  [name |-> in.name,
   mtu |-> in.mtu,
   derived |-> in.bridge = <<>>,
   bridge |-> IF in.bridge = <<>> THEN bridgeNameFor(in.name, digest) ELSE in.bridge,
   ifType |-> IF in.ifType = "" THEN "tap" ELSE in.ifType,
   asked |-> in.level,
   level |-> parseLogLevel(in.level)]

ConfInit == conf = {}

\* A network is loaded once here, so its digest can be chosen when it is: the
\* hash may be any function of the name.
LoadConfig ==
  /\ Cardinality(conf) < MaxNets
  /\ \E in \in Inputs, digest \in Digests :
    /\ \A c \in conf : c.name # in.name
    /\ IF Accepted(in) THEN conf' = conf \union {PluginConf(in, digest)} ELSE UNCHANGED conf

ConfSpec == ConfInit /\ [][LoadConfig]_conf

-----------------------------------------------------------------------------
(* Properties                                                              *)

\* Every PluginConf that LoadConfig lets through has a bridge name that fits
\* grout's name field with its terminator, and an MTU that the later
\* conversion to uint16 keeps.
ConfFitsWire ==
  \A c \in conf : Len(c.bridge) \in 1..(NameSize - 1) /\ c.mtu % Word = c.mtu

\* The two switches on the log level agree: a level that LoadConfig accepts is
\* the one ConfigureLogging installs, never the fallback.
LevelHonoured ==
  \A c \in conf :
    c.asked # Unset => c.level = IF c.asked.word = "warning" THEN "warn" ELSE c.asked.word
=============================================================================
