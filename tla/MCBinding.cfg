SPECIFICATION BindingSpec
CONSTANTS
  Bar = Bar
  U = U
  NaN = NaN
  Byte <- MCByte
  Hosts <- MCHosts
  Keys <- MCKeys
  Nonces <- MCNonces
  RawVectors <- MCRawVectors
  Digests <- MCDigests
  RawLen = 1
  IdLen = 2
  MaxQueries = 2
  ChipKeys = {"k", "l"}
  Codes <- MCCodes
  Inputs <- MCInputs
  Signatures <- MCSignatures
  Numbers <- MCNumbers
  XLen = 1
  Infer <- MCInfer
  Round <- MCRound
  Near <- MCNear
  MaxProofs = 2
INVARIANTS QueriesToldApart ZkTypeOK AcceptedAsMade HonestAccepted
\* A fixed number of queries is made, and that is all.
CHECK_DEADLOCK FALSE
