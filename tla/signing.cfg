SPECIFICATION Spec
CONSTANTS
  Names = {"INV-1", "INV-2"}
  Keys = {"old", "renewed", "chained", "authority"}
  Bundles <- IssuedBundles
  MaxSignings = 3
INVARIANTS SigningTypeOK DocumentsVerify RecordIsRegistered DuplicatesDiffer
