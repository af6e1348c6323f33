SPECIFICATION MCSpec
CONSTANTS
  whole = whole
  k1 = k1
  Uploads = {u1, u2}
  Keys = {k1, k2}
  Targets = {whole, bare}
  BucketOf <- MCBucketOf
  NumParts = 2
  Requests = {r1, r2}
SYMMETRY Symmetry
INVARIANTS
  TypeOK
  UploadIsTracked
  ObjectOfOneUpload
  AcknowledgedIsStored
