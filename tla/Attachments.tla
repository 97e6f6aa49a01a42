---------------------------- MODULE Attachments ----------------------------
(***************************************************************************)
(* internal/attachvalidate: what a submission's attachments must be, and   *)
(* server/computecaps.go: the MIME types the relay publishes.              *)
(*                                                                         *)
(* Of an attachment the model keeps its declared type and MIME type, what  *)
(* its url is, the length the url decodes to and the MIME type that        *)
(* net/http sniffs in those bytes.                                         *)
(***************************************************************************)
EXTENDS Naturals, Sequences

CONSTANTS
  MIMETypes,          (* MIME types that occur                              *)
  AttachmentsEnabled, (* attachments.enabled                                *)
  AllowedMIMETypes,   (* attachments.allowed_mime_types                     *)
  Accepted,           (* the union of the enabled adapters' capabilities    *)
  MaxSizeBytes,       (* attachments.max_size_bytes, 0 for no limit         *)
  MaxTotalBytes       (* attachments.max_total_bytes, 0 for no limit        *)

ASSUME AttachmentsAssumption ==
  /\ AttachmentsEnabled \in BOOLEAN
  /\ AllowedMIMETypes \subseteq MIMETypes
  /\ Accepted \subseteq MIMETypes
  /\ MaxSizeBytes \in Nat
  /\ MaxTotalBytes \in Nat

(* What the schema lets through; "base64" is a url of the form             *)
(* data:...;base64,... whose payload decodes.                              *)
AttachmentType ==
  [type : {"screenshot", "file"}, mime : MIMETypes, url : {"base64", "malformed"},
   size : Nat, sniffed : MIMETypes]

PublishedMIMETypes == IF AttachmentsEnabled THEN AllowedMIMETypes \cap Accepted ELSE {}

Decodes(a) == a.url = "base64" /\ a.size > 0

Within(cap, n) == cap = 0 \/ n <= cap

(* The bytes of the first i attachments *)
Total(atts, i) ==
  LET sum[k \in 0..Len(atts)] == IF k = 0 THEN 0 ELSE sum[k - 1] + atts[k].size
  IN  sum[i]

(* What the loop makes of attachment i when it has come that far *)
Verdict(atts, i) ==
  IF atts[i].type # "screenshot" THEN "attachment_type_unsupported"
  ELSE IF atts[i].mime \notin PublishedMIMETypes THEN "attachment_mime_not_allowed"
  ELSE IF ~Decodes(atts[i]) THEN "attachment_malformed"
  ELSE IF ~Within(MaxSizeBytes, atts[i].size) THEN "attachment_too_large"
  ELSE IF ~Within(MaxTotalBytes, Total(atts, i)) THEN "attachments_exceed_total"
  ELSE IF atts[i].sniffed # atts[i].mime THEN "attachment_mime_mismatch"
  ELSE "ok"

(* Mutant: the loop returns in its first round. *)
ValidateAllFirst(atts) == IF atts = <<>> THEN "ok" ELSE Verdict(atts, 1)

(* The first refusal ends the loop. *)
ValidateAll(atts) ==
  LET refused == {i \in DOMAIN atts : Verdict(atts, i) # "ok"}
  IN  IF refused = {} THEN "ok"
      ELSE Verdict(atts, CHOOSE i \in refused : \A j \in refused : i <= j)

(* mapAttachvalidateError *)
StatusOf(code) ==
  CASE code \in {"attachment_too_large", "attachments_exceed_total"} -> 413
    [] code \in {"attachment_mime_not_allowed", "attachment_mime_mismatch"} -> 415
    [] OTHER -> 400

-----------------------------------------------------------------------------
(* What an adapter may rely on, independent of the order of the tests *)
Acceptable(atts) ==
  /\ \A i \in DOMAIN atts :
       /\ atts[i].type = "screenshot"
       /\ atts[i].mime \in AllowedMIMETypes \cap Accepted
       /\ Decodes(atts[i])
       /\ Within(MaxSizeBytes, atts[i].size)
       /\ atts[i].sniffed = atts[i].mime
  /\ \/ atts = <<>>
     \/ AttachmentsEnabled /\ Within(MaxTotalBytes, Total(atts, Len(atts)))

=============================================================================
