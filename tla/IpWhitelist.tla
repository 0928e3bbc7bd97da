----------------------------- MODULE IpWhitelist -----------------------------
(***************************************************************************)
(* IpWhitelist (src/IpWhitelist.hpp).  A configuration file has a          *)
(* [whitelist] section or not, and the section a sequence of values.  A    *)
(* value, a regular expression, is the set of the hosts it matches;        *)
(* NoValue is the empty one.                                               *)
(***************************************************************************)
EXTENDS Filter

NoValue == {"no value"}

\* An object without patterns, and what load("") makes of any other.
Disabled == [patterns |-> <<>>, filteringEnabled |-> FALSE]

Values(file) == {file.values[i] : i \in DOMAIN file.values} \ {NoValue}

\* Mutated form: a section without patterns turns the filter on.
loadEnablesEmpty(file) ==
  IF ~file.hasSection THEN Disabled
  ELSE [patterns |-> Kept(file.values, Values(file)), filteringEnabled |-> TRUE]

load(file) ==
  LET kept == Kept(file.values, Values(file))
  IN  IF ~file.hasSection THEN Disabled
      ELSE [patterns |-> kept, filteringEnabled |-> kept # <<>>]

\* The host of an address: a remote address here is a pair of host and port.
extractIp(addr) == addr[1]

isAllowed(w, addr) ==
  w.filteringEnabled => \E i \in DOMAIN w.patterns : extractIp(addr) \in w.patterns[i]
=============================================================================
