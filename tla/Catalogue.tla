----------------------------- MODULE Catalogue -----------------------------
(***************************************************************************)
(* What the layers of designate declare about the resources that are only  *)
(* rows of the database: TLDs, blacklists, TSIG keys, the plain columns of *)
(* pools and zone transfer requests.  The handlers of these resources are  *)
(* the same text with another name; Resources.tla models that text once,   *)
(* and this module holds what differs from one resource to the next.       *)
(* Errors are named by their exception class.                              *)
(***************************************************************************)

Kinds == {"tld", "blacklist", "tsigkey", "pool", "transfer_request"}

(***************************************************************************)
(* The adapters of API v2: the keys a body may change and those it may set *)
(* once.  Every other key of the resource can only be repeated.            *)
(***************************************************************************)
TldAdapter == [writable |-> {"name", "description"}, immutable |-> {}]

BlacklistAdapter == [writable |-> {"pattern", "description"}, immutable |-> {}]

TsigKeyAdapter ==
    [writable |-> {"name", "algorithm", "secret", "scope", "resource_id"},
     immutable |-> {}]

PoolAdapter == [writable |-> {"name", "description"}, immutable |-> {"tenant_id"}]

ZoneTransferRequestAdapter ==
    [writable |-> {"description"}, immutable |-> {"zone_id", "target_tenant_id"}]

Adapter(k) ==
    CASE k = "tld" -> TldAdapter
      [] k = "blacklist" -> BlacklistAdapter
      [] k = "tsigkey" -> TsigKeyAdapter
      [] k = "pool" -> PoolAdapter
      [] k = "transfer_request" -> ZoneTransferRequestAdapter

(***************************************************************************)
(* The objects: the fields validate() requires and those whose schema      *)
(* admits null.                                                            *)
(***************************************************************************)
\* Faulty variant: the name of a TLD is not required.
TldNameOptional == [required |-> {}, nullable |-> {"name", "description"}]

Tld == [required |-> {"name"}, nullable |-> {"description"}]

Blacklist == [required |-> {"pattern"}, nullable |-> {"description"}]

TsigKey ==
    [required |-> {"name", "algorithm", "secret", "scope", "resource_id"},
     nullable |-> {}]

Pool == [required |-> {"name"}, nullable |-> {"description", "tenant_id"}]

ZoneTransferRequest ==
    [required |-> {}, nullable |-> {"description", "target_tenant_id"}]

Object(k) ==
    CASE k = "tld" -> Tld
      [] k = "blacklist" -> Blacklist
      [] k = "tsigkey" -> TsigKey
      [] k = "pool" -> Pool
      [] k = "transfer_request" -> ZoneTransferRequest

(***************************************************************************)
(* The tables: unique and NOT NULL columns, and whether rows belong to a   *)
(* tenant.  None of them has a "deleted" column: a delete removes the row. *)
(***************************************************************************)
tlds == [unique |-> {"name"}, notnull |-> {"name"}, tenanted |-> FALSE]

blacklists == [unique |-> {"pattern"}, notnull |-> {"pattern"}, tenanted |-> FALSE]

tsigkeys ==
    [unique |-> {"name"},
     notnull |-> {"name", "algorithm", "secret", "scope", "resource_id"},
     tenanted |-> FALSE]

pools == [unique |-> {"name"}, notnull |-> {"name"}, tenanted |-> TRUE]

zone_transfer_requests ==
    [unique |-> {}, notnull |-> {"zone_id", "description"}, tenanted |-> TRUE]

Table(k) ==
    CASE k = "tld" -> tlds
      [] k = "blacklist" -> blacklists
      [] k = "tsigkey" -> tsigkeys
      [] k = "pool" -> pools
      [] k = "transfer_request" -> zone_transfer_requests

(***************************************************************************)
(* The storage driver: the exceptions _create, _find, _update and _delete  *)
(* are told to raise for a duplicate and for a missing row.                *)
(***************************************************************************)
TldStorage == [dup |-> "DuplicateTld", missing |-> "TldNotFound"]

BlacklistStorage == [dup |-> "DuplicateBlacklist", missing |-> "BlacklistNotFound"]

TsigKeyStorage == [dup |-> "DuplicateTsigKey", missing |-> "TsigKeyNotFound"]

PoolStorage == [dup |-> "DuplicatePool", missing |-> "PoolNotFound"]

ZoneTransferRequestStorage ==
    [dup |-> "DuplicateZoneTransferRequest",
     missing |-> "ZoneTransferRequestNotFound"]

Storage(k) ==
    CASE k = "tld" -> TldStorage
      [] k = "blacklist" -> BlacklistStorage
      [] k = "tsigkey" -> TsigKeyStorage
      [] k = "pool" -> PoolStorage
      [] k = "transfer_request" -> ZoneTransferRequestStorage

(***************************************************************************)
(* Central: who the policy lets create, read and write the resource, and   *)
(* whether create stamps the caller's tenant on the row.                   *)
(***************************************************************************)
TldCentral == [read |-> "admin", write |-> "admin", stamps |-> FALSE]

BlacklistCentral == [read |-> "admin", write |-> "admin", stamps |-> FALSE]

TsigKeyCentral == [read |-> "admin", write |-> "admin", stamps |-> FALSE]

PoolCentral == [read |-> "admin", write |-> "admin", stamps |-> TRUE]

ZoneTransferRequestCentral ==
    [read |-> "admin_or_owner_or_target", write |-> "admin_or_owner",
     stamps |-> TRUE]

Central(k) ==
    CASE k = "tld" -> TldCentral
      [] k = "blacklist" -> BlacklistCentral
      [] k = "tsigkey" -> TsigKeyCentral
      [] k = "pool" -> PoolCentral
      [] k = "transfer_request" -> ZoneTransferRequestCentral

(***************************************************************************)
(* The calls the RPC interface of central offers to the API and the calls  *)
(* the storage interface offers to central.                                *)
(***************************************************************************)
Crud == {"create", "get", "find", "update", "delete"}

TldRpc == Crud

BlacklistRpc == Crud \cup {"find_one"}

TsigKeyRpc == Crud

PoolRpc == Crud \cup {"find_one"}

ZoneTransferRequestRpc == Crud \cup {"find_one"}

Rpc(k) ==
    CASE k = "tld" -> TldRpc
      [] k = "blacklist" -> BlacklistRpc
      [] k = "tsigkey" -> TsigKeyRpc
      [] k = "pool" -> PoolRpc
      [] k = "transfer_request" -> ZoneTransferRequestRpc

(***************************************************************************)
(* The controllers: the status of a success.  A POST and a PATCH parse the *)
(* body, validate the object and call central; a PATCH reads it first.     *)
(***************************************************************************)
TldsController == [post_all |-> 201, patch_one |-> 200, delete_one |-> 204]

BlacklistsController == [post_all |-> 201, patch_one |-> 200, delete_one |-> 204]

TsigKeysController == [post_all |-> 201, patch_one |-> 200, delete_one |-> 204]

PoolsController == [post_all |-> 201, patch_one |-> 202, delete_one |-> 204]

TransferRequestsController ==
    [post_all |-> 201, patch_one |-> 200, delete_one |-> 204]

Controller(k) ==
    CASE k = "tld" -> TldsController
      [] k = "blacklist" -> BlacklistsController
      [] k = "tsigkey" -> TsigKeysController
      [] k = "pool" -> PoolsController
      [] k = "transfer_request" -> TransferRequestsController
=============================================================================
