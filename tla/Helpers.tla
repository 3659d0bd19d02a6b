------------------------------- MODULE Helpers -------------------------------
(***************************************************************************)
(* The helpers of the program, each on its own: the memory pool runs, with *)
(* the loop's tables in it (module Mpool), or one conversion or one        *)
(* message is given its arguments (modules Text and Messages) and held     *)
(* against what its comment says.                                          *)
(***************************************************************************)
EXTENDS Text, Messages, Mpool

CONSTANTS
    Parts,       \* what may stand between two dots
    Tails,       \* what may follow an address
    Numbers,     \* of 16 bits
    Nibbles,     \* of a hexadecimal number
    Octets,      \* of a version
    Strings,     \* for messages
    MaxStrings,  \* of a kind in a request
    Ssids,       \* names of access points
    Stale        \* what is left in the buffer behind the data

\* Characters are those of Text, bytes and counts are 8 bits, a string holds no
\* terminator, and a name of an access point has at most 32 bytes.
ASSUME HelpersAssumption ==
    /\ Parts \subseteq Seq(Digit \cup {Letter})
    /\ Tails \subseteq Seq(Digit \cup {Dot, Letter})
    /\ Numbers \subseteq 0 .. Word - 1
    /\ Nibbles \subseteq 0 .. 15
    /\ Octets \subseteq 0 .. 255
    /\ Strings \subseteq Seq(1 .. 255)
    /\ MaxStrings \in 0 .. 255
    /\ Ssids \subseteq Seq(0 .. 255)
    /\ \A ssid \in Ssids : Len(ssid) <= 32
    /\ Stale \subseteq 0 .. 255

VARIABLES given     \* the conversion and its arguments
vars == <<poolVars, given>>

Nothing == [to |-> "nothing"]

Init == PoolInit /\ given = Nothing

PoolRuns == given = Nothing /\ PoolNext /\ UNCHANGED given

Give(to, args) ==
    /\ ~init_done /\ given = Nothing
    /\ given' = [to |-> to, args |-> args]
    /\ UNCHANGED poolVars

Address == \E parts \in [1 .. 4 -> Parts], tail \in Tails : Give("address", <<parts, tail>>)
Number == \E n \in Numbers : Give("number", n)
Hex == \E num \in [1 .. 8 -> Nibbles], pad \in 0 .. 8 : Give("hex", <<num, pad>>)
Versions == \E old, new \in [1 .. 3 -> Octets] : Give("versions", <<old, new>>)
Request ==
    \E path, keys, values \in SeqOf(Strings, MaxStrings) :
        /\ Len(keys) = Len(values)
        /\ Give("request", <<path, keys, values>>)
Servers ==
    \E tz \in Strings, server \in [1 .. 3 -> Strings \cup {Null}] :
        Give("servers", <<tz, server>>)
Scan ==
    \E ssids \in SeqOf(Ssids, 3), cut \in 0 .. 8, stale \in Stale :
        Give("scan", <<ssids, cut, stale>>)

Next == PoolRuns \/ Address \/ Number \/ Hex \/ Versions \/ Request \/ Servers \/ Scan

Spec == Init /\ [][Next]_vars

-----------------------------------------------------------------------------
(* Properties of the conversions.                                          *)

\* The value of a numeral.
Value(s) == FoldLeft(LAMBDA v, c : 10 * v + c, 0, s)

IsOctet(s) == s # <<>> /\ ToSet(s) \subseteq Digit /\ Value(s) <= 255

Dotted(parts) ==
    parts[1] \o <<Dot>> \o parts[2] \o <<Dot>> \o parts[3] \o <<Dot>> \o parts[4]

\* ip_validate() takes four numbers of 8 bits and nothing else, leading zeros
\* or not, and an address that it takes ip_str_to_uint32() reads as it stands
\* and without leaving the string.
AddressRead ==
    given.to = "address" =>
        LET parts == given.args[1]
            s == Dotted(parts) \o given.args[2]
        IN  /\ ip_validate(s) <=>
                   /\ \A i \in 1 .. 3 : IsOctet(parts[i])
                   /\ IsOctet(parts[4] \o given.args[2])
            /\ ip_validate(s) =>
                   /\ ip_str_to_uint32(s) = [i \in 1 .. 4 |->
                          Value(IF i = 4 THEN parts[4] \o given.args[2] ELSE parts[i])]
                   /\ ReadAddress(s).at = Len(s) + 1

Numeral(s, n) == s # <<>> /\ Value(s) = n /\ (Len(s) > 1 => s[1] # 0)

\* In hexadecimal, as many digits as asked for, or as the number needs; in full
\* as its bytes are.
HexNumeral(s, num, pad) ==
    /\ \A i \in 1 .. 8 : num[i] = IF i <= 8 - Len(s) THEN 0 ELSE s[i - 8 + Len(s)]
    /\ Len(s) >= pad
    /\ s # <<>>
    /\ Len(s) > pad => s[1] # 0 \/ Len(s) = 1
    /\ pad = 8 => s = FlattenSeq([i \in 1 .. 4 |->
                          uint8_to_hex_str(16 * num[2 * i - 1] + num[2 * i])])

Weight(version) == (version[1] * 256 + version[2]) * 256 + version[3]

\* Numbers are written without leading zeros, or with those asked for, and read
\* as what they are; versions are ordered by major, minor and micro number.
NumbersRead ==
    /\ given.to = "number" => Numeral(uint16_to_str(given.args), given.args)
    /\ given.to = "hex" =>
          HexNumeral(uint32_to_hex_str(given.args[1], given.args[2]),
                     given.args[1], given.args[2])
    /\ given.to = "versions" =>
          LET old == given.args[1]
              new == given.args[2]
          IN  /\ version_cmp(old, new) > 0 <=> Weight(new) > Weight(old)
              /\ version_cmp(old, new) = 0 <=> new = old

\* util.h:128 says of uint32_to_ip_str(): "Writes the corresponding string
\* representing an IPv4 stored in the input DWORD".  The string that main()
\* shows is then read as the address it was written from.
AddressWritten ==
    given.to = "address" =>
        LET ip == ip_str_to_uint32(Dotted(given.args[1]) \o given.args[2])
        IN  ip_str_to_uint32(uint32_to_ip_str(ip)) = ip

-----------------------------------------------------------------------------
(* Properties of the messages.                                             *)

\* So many strings from first on, each where the one before it ended.
Strung(bytes, first, n) ==
    LET at[i \in 1 .. n] == IF i = 1 THEN first ELSE After(bytes, at[i - 1])
    IN  [i \in 1 .. n |-> StringAt(bytes, at[i])]

Interleaved(keys, values) ==
    FlattenSeq([i \in DOMAIN keys |-> <<keys[i], values[i]>>])

\* Behind a head of so many bytes it holds the strings, with an empty one behind;
\* it is refused only if it would not fit the buffer of the command.
Whole(sent, head, strings) ==
    LET size == head + Len(FlattenSeq(strings)) + Len(strings) + 1
    IN  /\ sent = Refused <=> size > BufLen
        /\ sent # Refused =>
               /\ Len(sent) = size
               /\ Strung(sent, head + 1, Len(strings) + 1) = Append(strings, <<>>)

\* A message of the game API fits the buffer and holds its paths, keys and
\* values, in the numbers that it says (concat_strings(), concat_kv_pairs()).  A
\* request without a path is refused.
RequestWhole ==
    given.to = "request" =>
        LET path == given.args[1]
            pairs == Interleaved(given.args[2], given.args[3])
            sent == GaRequest(1, path, given.args[2], given.args[3])
        IN  /\ IF path = <<>> THEN sent = Refused ELSE Whole(sent, 3, path \o pairs)
            /\ sent # Refused => sent[2] = Len(path) /\ sent[3] = Len(given.args[2])
            /\ Whole(KeyValues(given.args[2], given.args[3]), 0, pairs)
            /\ Len(path) = 2 => Whole(Endpoint(path[1], path[2]), 0, path)

\* The time zone is empty, or a server up to the i-th is missing.
Missing(tz, server, i) == tz = <<>> \/ \E k \in 1 .. i : server[k] \in {Null, <<>>}

\* What mw_sntp_cfg_set() sends, mw_sntp_cfg_get() reads back: the time zone and
\* the servers up to the first that is missing, none of them another's tail.  For
\* the first that is missing it gives an empty string, which megawifi.h:602-603
\* does not say ("unused ones will be NULL"), and null for those behind it only.
\* Behind an empty time zone it reads no server.
ServersReadBack ==
    given.to = "servers" =>
        LET tz == given.args[1]
            server == given.args[2]
            token == tokens_get(SntpCfg(tz, server))
        IN  /\ token[1] = tz
            /\ \A i \in 1 .. 3 :
                  token[i + 1] = IF ~Missing(tz, server, i) THEN server[i]
                                 ELSE IF Missing(tz, server, i - 1) THEN Null
                                 ELSE <<>>

\* An access point as the module writes it, and all of an answer.
Auth == 3
Channel == 11
Rssi == 200         \* -56, as a char
Ap(ssid) == <<Auth, Channel, Rssi, Len(ssid)>> \o ssid

Aps(ssids) == FlattenSeq([i \in DOMAIN ssids |-> Ap(ssids[i])])

\* The first len bytes of the answer, and what is left behind them.
Cut(ssids, len, stale) == SubSeq(Aps(ssids), 1, len) \o [i \in 1 .. 8 |-> stale]

ApsEnd(ssids, n) == Len(Aps(SubSeq(ssids, 1, n)))

\* So many are whole, and no more.
AreWhole(ssids, len, n) ==
    ApsEnd(ssids, n) <= len /\ (n = Len(ssids) \/ ApsEnd(ssids, n + 1) > len)

\* The length of the next is cut off, and the byte that is left there is negative
\* enough, as a char, for the next to seem to fit.
Seems(ssids, n, len, stale) ==
    /\ ApsEnd(ssids, n) < len /\ len < ApsEnd(ssids, n) + 4
    /\ ApsEnd(ssids, n) + 4 + Char(stale) <= len

Named(found, ssids, data, n) ==
    \A i \in 1 .. n :
        /\ found[i].auth = Auth /\ found[i].channel = Channel
        /\ found[i].rssi = Rssi - 256
        /\ found[i].ssid_len = Len(ssids[i])
        /\ SubSeq(data, found[i].ssid + 1, found[i].ssid + found[i].ssid_len) = ssids[i]

ScanFound(ssids, len, stale) ==
    LET data == Cut(ssids, len, stale)
        n == CHOOSE n \in 0 .. Len(ssids) : AreWhole(ssids, len, n)
        found == ApWalk(data, len)
    IN  /\ Len(found) = IF Seems(ssids, n, len, stale) THEN n + 1 ELSE n
        /\ Named(found, ssids, data, n)

Received(all, lost) == IF lost > all THEN 0 ELSE all - lost

\* The access points of an answer are found one by one, each with its name; of an
\* answer that is cut short those that are whole, and no more unless the next one
\* seems to fit (mw_ap_fill_next()).
ApsFound ==
    given.to = "scan" =>
        ScanFound(given.args[1], Received(Len(Aps(given.args[1])), given.args[2]), given.args[3])
=============================================================================
