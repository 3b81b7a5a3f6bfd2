---------------------------- MODULE Mac32Address ----------------------------
(***************************************************************************)
(* Addresses (model/mac32-address.cc): four bytes, the first one on the    *)
(* air first.                                                              *)
(***************************************************************************)
EXTENDS Bytes

NoAddress == <<0, 0, 0, 0>>

(* The nth address that Allocate returns, as the static counter id says. *)
Allocate(n) == <<Bits(n, 24, 8), Bits(n, 16, 8), Bits(n, 8, 8), Bits(n, 0, 8)>>

GetBroadcast == <<255, 255, 255, 255>>
IsBroadcast(a) == a = GetBroadcast

IsGroup(a) == IsSet(a[1], 0)

=============================================================================
