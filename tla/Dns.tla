-------------------------------- MODULE Dns --------------------------------
(* dns_resolve_hostname of src/dns/dns.c, which blocks in getaddrinfo and    *)
(* then copies the addresses of the list it got.                             *)
EXTENDS Integers, FiniteSetsExt

(* The counts the loop over a list of so many addresses comes to.  The test *)
(* that ends it stands behind the copy and the increment.                    *)
Counts(addresses, ip_addresses_size) ==
  {count \in 1 .. addresses : count = addresses \/ count > ip_addresses_size}

(* The first of them ends the loop: so many addresses are written.  A list  *)
(* of none stands for a failure of getaddrinfo.                              *)
dns_resolve_hostname(addresses, ip_addresses_size) ==
  IF addresses = 0 THEN [result |-> "Failed_To_Get_Address_Info", count |-> 0]
  ELSE [result |-> "OK", count |-> Min(Counts(addresses, ip_addresses_size))]
=============================================================================
