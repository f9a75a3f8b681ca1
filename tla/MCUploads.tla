------------------------------ MODULE MCUploads ------------------------------
(* Uploads for TLC: three mutations of two rows.                           *)
EXTENDS Uploads
=============================================================================
