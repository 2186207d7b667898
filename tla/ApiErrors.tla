----------------------------- MODULE ApiErrors -----------------------------
(***************************************************************************)
(* designate/exceptions.py: the HTTP status every exception class carries, *)
(* and the middleware that turns an exception into an answer.  A class     *)
(* without an error_code of its own inherits one; Base's is 500.           *)
(***************************************************************************)
EXTENDS Naturals

(***************************************************************************)
(* Failures of the service or of its configuration: nothing the client     *)
(* sent is at fault.  QuotaResourceUnknown, NotImplemented and XFRFailure  *)
(* are here because they inherit the code of Base.                         *)
(***************************************************************************)
ServerErrors ==
    {"RelationNotLoaded", "AdapterNotFound", "NotImplemented", "XFRFailure",
     "ConfigurationError", "UnknownFailure", "NoFiltersConfigured",
     "NoServersConfigured", "MultiplePoolsFound", "NoPoolTargetsConfigured",
     "QuotaResourceUnknown"}

BadRequests ==
    {"InvalidObject", "BadRequest", "EmptyRequestBody", "InvalidUUID",
     "InvalidRecord", "MarkerNotFound", "ValueError", "InvalidMarker",
     "InvalidSortDir", "InvalidLimit", "InvalidSortKey", "InvalidJson",
     "NoneIpAddress", "InvalidOperation"}

InvalidNames ==
    {"InvalidZoneName", "InvalidAclName", "InvalidRecordSetName",
     "InvalidRecordSetLocation", "InvaildZoneTransfer", "InvalidTTL",
     "ZoneHasSubZone", "NeedView", "LastServerDeleteNotAllowed"}

Forbiddens ==
    {"Forbidden", "IllegalChildZone", "IllegalParentZone",
     "IncorrectZoneTransferKey", "NetworkEndpointNotFound"}

Duplicates ==
    {"Duplicate", "DuplicateServiceStatus", "DuplicateQuota",
     "DuplicateServer", "DuplicateTsigKey", "DuplicateZone", "DuplicateAcl",
     "DuplicateTld", "DuplicateRecordSet", "DuplicateRecord",
     "DuplicateBlacklist", "DuplicatePoolManagerStatus", "DuplicatePool",
     "DuplicatePoolAttribute", "DuplicatePoolNsRecord",
     "DuplicatePoolNameserver", "DuplicatePoolTarget",
     "DuplicatePoolTargetOption", "DuplicatePoolTargetMaster",
     "DuplicatePoolAlsoNotify", "DuplicateZoneImport", "DuplicateZoneExport",
     "DuplicateZdnsViewInfo", "DuplicateViewZdnsView", "DuplicateView",
     "DuplicateZoneTransferRequest", "DuplicateZoneTransferAccept",
     "DuplicateZoneAttribute", "DuplicateZoneMaster"}

NotFounds ==
    {"NotFound", "ServiceStatusNotFound", "QuotaNotFound", "ServerNotFound",
     "TsigKeyNotFound", "BlacklistNotFound", "ZoneNotFound", "AclNotFound",
     "ZoneMasterNotFound", "ZoneAttributeNotFound", "TldNotFound",
     "RecordSetNotFound", "RecordNotFound", "ReportNotFound",
     "PoolManagerStatusNotFound", "PoolNotFound", "NoValidPoolFound",
     "PoolAttributeNotFound", "PoolNsRecordNotFound",
     "PoolNameserverNotFound", "PoolTargetNotFound",
     "PoolTargetOptionNotFound", "PoolTargetMasterNotFound",
     "PoolAlsoNotifyNotFound", "ZoneTransferRequestNotFound",
     "ZoneTransferAcceptNotFound", "ZoneImportNotFound", "ZoneExportNotFound",
     "ViewNotFound", "ViewAclNotFound", "AclsIsNone", "ParamsIsNotLegal",
     "AclidsMustBeList", "CreateViewFailed"}

(***************************************************************************)
(* Classes of this fork: a record set whose records failed on the device,  *)
(* the device's own error, and an ACL that a view uses.                    *)
(***************************************************************************)
DeviceErrors ==
    {"Failed", "AllFailed", "PartlyFailed", "NotEqual", "NoChange",
     "ZdnsErrMessage", "AclUsedByView"}

(***************************************************************************)
(* FaultWrapperMiddleware: the class's error_code for an exception of      *)
(* designate, 504 for an RPC that timed out, 500 for anything else.        *)
(***************************************************************************)
ErrorCode(e) ==
    CASE e \in BadRequests \cup InvalidNames -> 400
      [] e \in Forbiddens -> 403
      [] e \in NotFounds -> 404
      [] e \in Duplicates -> 409
      [] e = "OverQuota" -> 413
      [] e = "UnsupportedAccept" -> 406
      [] e = "UnsupportedContentType" -> 415
      [] e = "MethodNotAllowed" -> 405
      [] e \in {"CommunicationFailure", "MessagingTimeout"} -> 504
      [] OTHER -> 500
=============================================================================
