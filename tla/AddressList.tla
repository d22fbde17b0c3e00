------------------------------- MODULE AddressList -----------------------------
(***************************************************************************)
(* The access list of the daemons (ad2_acl_check): entries are ranges of   *)
(* addresses, written as one address, as two, or as a prefix and its       *)
(* length.  An address is a string of bytes and a byte one of bits, the    *)
(* highest first, few of them here; an address of IPv4 ends a string whose *)
(* first bytes are all ones, as none of IPv6 does here.  The command task  *)
(* clears the list and fills it again while the daemons look addresses up. *)
(***************************************************************************)
EXTENDS Naturals, Sequences

CONSTANTS
  Bits,          \* of a byte
  Bytes,         \* of an address, at least two
  V4Bytes,       \* of an address of IPv4, the last of them
  LengthValues   \* that the byte a prefix length is stored in can have

ASSUME AddressListAssumption ==
  /\ {Bits, V4Bytes, LengthValues} \subseteq Nat \ {0}
  /\ Bytes \in Nat /\ V4Bytes < Bytes

VARIABLES
  entry,         \* the text of the list: one entry, or none
  networks,      \* allowed_networks: {} or {[first, last]}
  verdict        \* the last lookup since: {} or {[address, found]}

aclVars == <<entry, networks, verdict>>

Octet == [1..Bits -> {0, 1}]
AllOnes == [k \in 1..Bits |-> 1]
Address == [1..Bytes -> Octet]
IsV4(a) == \A i \in 1..Bytes - V4Bytes : a[i] = AllOnes

NoEntry == [kind |-> "none", first |-> <<>>, last |-> <<>>, length |-> 0]
Entries ==
  [kind : {"cidr"}, first : Address, last : {<<>>}, length : 0..LengthValues]
  \cup [kind : {"range"}, first : {a \in Address : IsV4(a)}, last : {a \in Address : IsV4(a)},
        length : {0}]
  \cup [kind : {"single"}, first : Address, last : {<<>>}, length : {0}]

AclInit == entry = NoEntry /\ networks = {} /\ verdict = {}

--------------------------------------------------------------------------------
(* The bits of an address. *)

\* Of two bytes, x is the smaller number.
Less(x, y) == \E k \in 1..Bits : x[k] < y[k] /\ \A j \in 1..k - 1 : x[j] = y[j]

\* Mutant: the top bit of a byte is lost.
ShiftLeftOnceInBytes(a) ==
  [i \in 1..Bytes |-> [k \in 1..Bits |-> IF k < Bits THEN a[i][k + 1] ELSE 0]]

\* One round of _addr_SHIFT_LEFT: the top bit goes to the byte before.
ShiftLeftOnce(a) ==
  [i \in 1..Bytes |->
     [k \in 1..Bits |-> IF k < Bits THEN a[i][k + 1]
                        ELSE IF i < Bytes THEN a[i + 1][1] ELSE 0]]

ShiftLeft(a, n) ==
  LET shifted[m \in 0..n] == IF m = 0 THEN a ELSE ShiftLeftOnce(shifted[m - 1])
  IN shifted[n]

AddrAnd(a, b) ==
  [i \in 1..Bytes |-> [k \in 1..Bits |-> IF a[i][k] = 1 /\ b[i][k] = 1 THEN 1 ELSE 0]]
AddrOr(a, b) ==
  [i \in 1..Bytes |-> [k \in 1..Bits |-> IF a[i][k] = 1 \/ b[i][k] = 1 THEN 1 ELSE 0]]
AddrNot(a) == [i \in 1..Bytes |-> [k \in 1..Bits |-> 1 - a[i][k]]]

\* A prefix longer than an address of IPv4 shifts nothing.
Mask(isV4, n) ==
  LET all == Bits * (IF isV4 THEN V4Bytes ELSE Bytes)
  IN ShiftLeft([i \in 1..Bytes |-> AllOnes], IF n < all THEN all - n ELSE 0)

--------------------------------------------------------------------------------
(* ad2_acl_check::add, find *)

\* The length is stored in a byte before it is compared.
Length(e) == e.length % LengthValues

\* Lengths up to that of the longest address are taken.
IsFormatOk(e) == e.kind = "cidr" => Length(e) <= Bits * Bytes

Network(e) ==
  IF e.kind = "cidr"
  THEN LET mask == Mask(IsV4(e.first), Length(e))
       IN [first |-> AddrAnd(e.first, mask), last |-> AddrOr(e.first, AddrNot(mask))]
  ELSE [first |-> e.first, last |-> IF e.kind = "range" THEN e.last ELSE e.first]

\* A list that is wrong is tried in an object of its own, and the one in use stays.
ClearList ==
  /\ entry # NoEntry
  /\ entry' = NoEntry /\ networks' = {} /\ verdict' = {}

Add(e) ==
  /\ entry = NoEntry /\ verdict = {}
  /\ IsFormatOk(e)
  /\ entry' = e /\ networks' = {Network(e)}
  /\ UNCHANGED verdict

\* _in_addr_BETWEEN compares byte by byte.
Between(a, n) == \A i \in 1..Bytes : ~Less(a[i], n.first[i]) /\ ~Less(n.last[i], a[i])

\* An empty list lets every address pass.
Find(a) ==
  /\ verdict = {}
  /\ verdict' = {[address |-> a,
                  found |-> networks = {} \/ \E n \in networks : Between(a, n)]}
  /\ UNCHANGED <<entry, networks>>

NextLookup ==
  /\ verdict # {} /\ verdict' = {}
  /\ UNCHANGED <<entry, networks>>

AclNext ==
  \/ ClearList \/ NextLookup
  \/ \E e \in Entries : Add(e)
  \/ \E a \in Address : Find(a)

AclSpec == AclInit /\ [][AclNext]_aclVars

--------------------------------------------------------------------------------
(* Properties. *)

\* Bit k of byte i is this bit of the address.
Position(i, k) == Bits * (i - 1) + k

\* The bits a prefix fixes, or more than there are: for IPv4 they come after those that
\* mark it.
Fixed(e) == (IF IsV4(e.first) THEN Bits * (Bytes - V4Bytes) ELSE 0) + Length(e)

\* A prefix lets exactly the addresses pass that begin with its bits.
PrefixAdmitsItsOwn ==
  \A v \in verdict :
    entry.kind = "cidr" =>
      (v.found <=> \A i \in 1..Bytes, k \in 1..Bits :
                     Position(i, k) <= Fixed(entry) => v.address[i][k] = entry.first[i][k])

\* A single address lets itself alone pass.
AddressAdmitsItself ==
  \A v \in verdict : entry.kind = "single" => (v.found <=> v.address = entry.first)

\* a comes before b, or is b.
AtMost(a, b) ==
  \/ a = b
  \/ \E i \in 1..Bytes : Less(a[i], b[i]) /\ \A j \in 1..i - 1 : a[j] = b[j]

\* No address outside a range passes.
RangeAdmitsNoOther ==
  \A v \in verdict :
    entry.kind = "range" /\ v.found => AtMost(entry.first, v.address) /\ AtMost(v.address, entry.last)

\* A prefix and an address let exactly what they list pass, and a range nothing
\* outside it; not every address inside it, see Between.
AdmitsWhatItLists == PrefixAdmitsItsOwn /\ AddressAdmitsItself /\ RangeAdmitsNoOther
================================================================================
