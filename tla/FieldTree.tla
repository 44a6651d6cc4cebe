----------------------------- MODULE FieldTree -----------------------------
(***************************************************************************)
(* The walk of the AcroForm field tree for signature fields                *)
(* (src/internal/pdfcore/signature.go).  A document is a record: fields    *)
(* (the /Fields array) and node (what each object of the field tree is: a  *)
(* dictionary, its /T, /FT, /Kids and /V).                                 *)
(***************************************************************************)
EXTENDS Naturals, SequencesExt

CONSTANT maxNodeIDDepth      \* 64 in the code

\* The terminal signature fields at and below obj, in document order, each
\* with its qualified name.  A kid with a /T is a field of its own.
RECURSIVE walkSignatureField(_, _, _, _, _)
walkSignatureField(doc, obj, parentName, inheritedFT, depth) ==
  LET d    == doc.node[obj]
      name == IF d.T \in {"absent", "empty"} THEN parentName ELSE Append(parentName, d.T)
      ft   == IF d.FT = "absent" THEN inheritedFT ELSE d.FT
      kids == SelectSeq(d.kids, LAMBDA k : doc.node[k].dict /\ doc.node[k].T # "absent")
  IN  IF depth > maxNodeIDDepth \/ ~d.dict THEN <<>>
      ELSE IF kids # <<>>
           THEN FlattenSeq([i \in DOMAIN kids |-> walkSignatureField(doc, kids[i], name, ft, depth + 1)])
           ELSE IF ft # "Sig" THEN <<>> ELSE <<[name |-> name, V |-> d.V]>>

collectSignatures(doc) ==
  FlattenSeq([i \in DOMAIN doc.fields |-> walkSignatureField(doc, doc.fields[i], <<>>, "", 0)])
=============================================================================
