------------------------------ MODULE Messages ------------------------------
(***************************************************************************)
(* The protobuf messages of the network and rollkitmngr modules, as the    *)
(* generated code treats them.  Per message there are three tables, each   *)
(* translated from the method of that name: what Marshal writes and in     *)
(* which order, what Size counts, and what Unmarshal does with each field  *)
(* number.  Codec gives the tables their meaning; that they agree is what  *)
(* it checks.                                                              *)
(***************************************************************************)
EXTENDS Naturals, Sequences

CONSTANTS WordBits,  \* width of uint64, int64 and int (64 in the code)
          IntBits    \* width of uint32, int32 and enums (32 in the code)

\* A row of a Marshal or Size table.  `head` is the tag byte that Marshal
\* writes, or the number of bytes that Size counts for it.
Field(kind, head, f, type) ==
    [kind |-> kind, head |-> head, field |-> f, type |-> type]

Num(head, f) == Field("num", head, f, "")
Flag(head, f) == Field("flag", head, f, "")
Raw(head, f) == Field("raw", head, f, "")        \* string or []byte
Sub(head, f, type) == Field("sub", head, f, type) \* embedded, always written
Ptr(head, f, type) == Field("ptr", head, f, type) \* written unless nil
Rep(head, f, type) == Field("rep", head, f, type) \* one entry per element

\* A row of an Unmarshal table: a case of the switch over field numbers.
Case(num, wireType, kind, f, bits, type) ==
    [num |-> num, wireType |-> wireType, kind |-> kind, field |-> f,
     bits |-> bits, type |-> type]

Uint64(num, f) == Case(num, 0, "uint", f, WordBits, "")
Int64(num, f) == Case(num, 0, "int", f, WordBits, "")
Uint32(num, f) == Case(num, 0, "uint", f, IntBits, "")
Enum(num, f) == Case(num, 0, "int", f, IntBits, "")
Bool(num, f) == Case(num, 0, "flag", f, WordBits, "")
Bytes(num, f) == Case(num, 2, "raw", f, 0, "")
Embedded(num, f, type) == Case(num, 2, "sub", f, 0, type)
Pointer(num, f, type) == Case(num, 2, "ptr", f, 0, type)
Repeated(num, f, type) == Case(num, 2, "rep", f, 0, type)

-----------------------------------------------------------------------------
\* modules/network/types/types.pb.go
ParamsMarshal ==
    <<Num(8, "EpochLength"), Raw(18, "QuorumFraction"),
      Raw(26, "MinParticipation"), Num(32, "PruneAfter"),
      Num(40, "SignMode")>>
ParamsSize ==
    <<Num(1, "EpochLength"), Raw(1, "QuorumFraction"),
      Raw(1, "MinParticipation"), Num(1, "PruneAfter"), Num(1, "SignMode")>>
ParamsUnmarshal ==
    <<Uint64(1, "EpochLength"), Bytes(2, "QuorumFraction"),
      Bytes(3, "MinParticipation"), Uint64(4, "PruneAfter"),
      Enum(5, "SignMode")>>

AttestationBitmapMarshal ==
    <<Num(8, "Height"), Raw(18, "Bitmap"), Num(24, "VotedPower"),
      Num(32, "TotalPower"), Flag(40, "SoftConfirmed")>>
AttestationBitmapSize ==
    <<Num(1, "Height"), Raw(1, "Bitmap"), Num(1, "VotedPower"),
      Num(1, "TotalPower"), Flag(1, "SoftConfirmed")>>
AttestationBitmapUnmarshal ==
    <<Int64(1, "Height"), Bytes(2, "Bitmap"), Uint64(3, "VotedPower"),
      Uint64(4, "TotalPower"), Bool(5, "SoftConfirmed")>>

ValidatorIndexMarshal ==
    <<Raw(10, "Address"), Num(16, "Index"), Num(24, "Power")>>
\* A slip: the bytes of Index are not counted.
ValidatorIndexSizeShort == <<Raw(1, "Address"), Num(1, "Power")>>

ValidatorIndexSize == <<Raw(1, "Address"), Num(1, "Index"), Num(1, "Power")>>
ValidatorIndexUnmarshal ==
    <<Bytes(1, "Address"), Uint32(2, "Index"), Uint64(3, "Power")>>

-----------------------------------------------------------------------------
\* modules/network/types/tx.pb.go
MsgAttestMarshal ==
    <<Raw(10, "Validator"), Num(16, "Height"), Raw(26, "Vote")>>
MsgAttestSize == <<Raw(1, "Validator"), Num(1, "Height"), Raw(1, "Vote")>>
MsgAttestUnmarshal ==
    <<Bytes(1, "Validator"), Int64(2, "Height"), Bytes(3, "Vote")>>

MsgAttestResponse == <<>>

MsgJoinAttesterSetMarshal == <<Raw(10, "Validator")>>
MsgJoinAttesterSetSize == <<Raw(1, "Validator")>>
MsgJoinAttesterSetUnmarshal == <<Bytes(1, "Validator")>>

MsgJoinAttesterSetResponse == <<>>

MsgLeaveAttesterSetMarshal == <<Raw(10, "Validator")>>
MsgLeaveAttesterSetSize == <<Raw(1, "Validator")>>
MsgLeaveAttesterSetUnmarshal == <<Bytes(1, "Validator")>>

MsgLeaveAttesterSetResponse == <<>>

MsgUpdateParamsMarshal ==
    <<Raw(10, "Authority"), Sub(18, "Params", "Params")>>
MsgUpdateParamsSize == <<Raw(1, "Authority"), Sub(1, "Params", "Params")>>
MsgUpdateParamsUnmarshal ==
    <<Bytes(1, "Authority"), Embedded(2, "Params", "Params")>>

MsgUpdateParamsResponse == <<>>

-----------------------------------------------------------------------------
\* modules/network/types/query.pb.go
QueryParamsRequest == <<>>

QueryParamsResponseMarshal == <<Sub(10, "Params", "Params")>>
QueryParamsResponseSize == <<Sub(1, "Params", "Params")>>
QueryParamsResponseUnmarshal == <<Embedded(1, "Params", "Params")>>

QueryAttestationBitmapRequestMarshal == <<Num(8, "Height")>>
QueryAttestationBitmapRequestSize == <<Num(1, "Height")>>
QueryAttestationBitmapRequestUnmarshal == <<Int64(1, "Height")>>

QueryAttestationBitmapResponseMarshal ==
    <<Ptr(10, "Bitmap", "AttestationBitmap")>>
QueryAttestationBitmapResponseSize ==
    <<Ptr(1, "Bitmap", "AttestationBitmap")>>
QueryAttestationBitmapResponseUnmarshal ==
    <<Pointer(1, "Bitmap", "AttestationBitmap")>>

QueryEpochInfoRequestMarshal == <<Num(8, "Epoch")>>
QueryEpochInfoRequestSize == <<Num(1, "Epoch")>>
QueryEpochInfoRequestUnmarshal == <<Uint64(1, "Epoch")>>

QueryEpochInfoResponseMarshal ==
    <<Num(8, "Epoch"), Num(16, "StartHeight"), Num(24, "EndHeight"),
      Raw(34, "ParticipationBitmap"), Num(40, "ActiveValidators"),
      Num(48, "ParticipatingValidators")>>
QueryEpochInfoResponseSize ==
    <<Num(1, "Epoch"), Num(1, "StartHeight"), Num(1, "EndHeight"),
      Raw(1, "ParticipationBitmap"), Num(1, "ActiveValidators"),
      Num(1, "ParticipatingValidators")>>
QueryEpochInfoResponseUnmarshal ==
    <<Uint64(1, "Epoch"), Int64(2, "StartHeight"), Int64(3, "EndHeight"),
      Bytes(4, "ParticipationBitmap"), Uint64(5, "ActiveValidators"),
      Uint64(6, "ParticipatingValidators")>>

QueryValidatorIndexRequestMarshal == <<Raw(10, "Address")>>
QueryValidatorIndexRequestSize == <<Raw(1, "Address")>>
QueryValidatorIndexRequestUnmarshal == <<Bytes(1, "Address")>>

QueryValidatorIndexResponseMarshal == <<Ptr(10, "Index", "ValidatorIndex")>>
QueryValidatorIndexResponseSize == <<Ptr(1, "Index", "ValidatorIndex")>>
QueryValidatorIndexResponseUnmarshal ==
    <<Pointer(1, "Index", "ValidatorIndex")>>

QuerySoftConfirmationStatusRequestMarshal == <<Num(8, "Height")>>
QuerySoftConfirmationStatusRequestSize == <<Num(1, "Height")>>
QuerySoftConfirmationStatusRequestUnmarshal == <<Int64(1, "Height")>>

QuerySoftConfirmationStatusResponseMarshal ==
    <<Flag(8, "IsSoftConfirmed"), Num(16, "VotedPower"),
      Num(24, "TotalPower"), Raw(34, "QuorumFraction")>>
QuerySoftConfirmationStatusResponseSize ==
    <<Flag(1, "IsSoftConfirmed"), Num(1, "VotedPower"), Num(1, "TotalPower"),
      Raw(1, "QuorumFraction")>>
QuerySoftConfirmationStatusResponseUnmarshal ==
    <<Bool(1, "IsSoftConfirmed"), Uint64(2, "VotedPower"),
      Uint64(3, "TotalPower"), Bytes(4, "QuorumFraction")>>

-----------------------------------------------------------------------------
\* modules/network/types/genesis.pb.go
GenesisStateMarshal ==
    <<Sub(10, "Params", "Params"),
      Rep(18, "ValidatorIndices", "ValidatorIndex"),
      Rep(26, "AttestationBitmaps", "AttestationBitmap")>>
GenesisStateSize ==
    <<Sub(1, "Params", "Params"),
      Rep(1, "ValidatorIndices", "ValidatorIndex"),
      Rep(1, "AttestationBitmaps", "AttestationBitmap")>>
GenesisStateUnmarshal ==
    <<Embedded(1, "Params", "Params"),
      Repeated(2, "ValidatorIndices", "ValidatorIndex"),
      Repeated(3, "AttestationBitmaps", "AttestationBitmap")>>

-----------------------------------------------------------------------------
\* modules/rollkitmngr/types/types.pb.go
RollkitMigrationMarshal ==
    <<Num(16, "BlockHeight"), Sub(26, "Sequencer", "Sequencer"),
      Rep(34, "Attesters", "Attester")>>
RollkitMigrationSize ==
    <<Num(1, "BlockHeight"), Sub(1, "Sequencer", "Sequencer"),
      Rep(1, "Attesters", "Attester")>>
RollkitMigrationUnmarshal ==
    <<Uint64(2, "BlockHeight"), Embedded(3, "Sequencer", "Sequencer"),
      Repeated(4, "Attesters", "Attester")>>

SequencerMarshal == <<Raw(10, "Name"), Ptr(18, "ConsensusPubkey", "Any")>>
SequencerSize == <<Raw(1, "Name"), Ptr(1, "ConsensusPubkey", "Any")>>
SequencerUnmarshal ==
    <<Bytes(1, "Name"), Pointer(2, "ConsensusPubkey", "Any")>>

AttesterMarshal == <<Raw(10, "Name"), Ptr(18, "ConsensusPubkey", "Any")>>
AttesterSize == <<Raw(1, "Name"), Ptr(1, "ConsensusPubkey", "Any")>>
AttesterUnmarshal ==
    <<Bytes(1, "Name"), Pointer(2, "ConsensusPubkey", "Any")>>

-----------------------------------------------------------------------------
\* modules/rollkitmngr/types/tx.pb.go
MsgMigrateToRollkitMarshal ==
    <<Raw(10, "Authority"), Num(16, "BlockHeight"),
      Sub(26, "Sequencer", "Sequencer"), Rep(34, "Attesters", "Attester")>>
MsgMigrateToRollkitSize ==
    <<Raw(1, "Authority"), Num(1, "BlockHeight"),
      Sub(1, "Sequencer", "Sequencer"), Rep(1, "Attesters", "Attester")>>
MsgMigrateToRollkitUnmarshal ==
    <<Bytes(1, "Authority"), Uint64(2, "BlockHeight"),
      Embedded(3, "Sequencer", "Sequencer"),
      Repeated(4, "Attesters", "Attester")>>

MsgMigrateToRollkitResponse == <<>>

-----------------------------------------------------------------------------
\* modules/rollkitmngr/types/query.pb.go
QueryIsMigratingRequest == <<>>

QueryIsMigratingResponseMarshal ==
    <<Flag(8, "IsMigrating"), Num(16, "StartBlockHeight"),
      Num(24, "EndBlockHeight")>>
QueryIsMigratingResponseSize ==
    <<Flag(1, "IsMigrating"), Num(1, "StartBlockHeight"),
      Num(1, "EndBlockHeight")>>
QueryIsMigratingResponseUnmarshal ==
    <<Bool(1, "IsMigrating"), Uint64(2, "StartBlockHeight"),
      Uint64(3, "EndBlockHeight")>>

QuerySequencerRequest == <<>>

QuerySequencerResponseMarshal == <<Sub(10, "Sequencer", "Sequencer")>>
QuerySequencerResponseSize == <<Sub(1, "Sequencer", "Sequencer")>>
QuerySequencerResponseUnmarshal == <<Embedded(1, "Sequencer", "Sequencer")>>

QueryAttestersRequest == <<>>

QueryAttestersResponseMarshal == <<Rep(10, "Attesters", "Attester")>>
QueryAttestersResponseSize == <<Rep(1, "Attesters", "Attester")>>
QueryAttestersResponseUnmarshal == <<Repeated(1, "Attesters", "Attester")>>

-----------------------------------------------------------------------------
\* modules/network/module/v1/module.pb.go
NetworkModuleMarshal == <<Raw(10, "Authority")>>
NetworkModuleSize == <<Raw(1, "Authority")>>
NetworkModuleUnmarshal == <<Bytes(1, "Authority")>>

-----------------------------------------------------------------------------
\* modules/rollkitmngr/module/module.pb.go
RollkitMngrModuleMarshal == <<Raw(10, "Authority")>>
RollkitMngrModuleSize == <<Raw(1, "Authority")>>
RollkitMngrModuleUnmarshal == <<Bytes(1, "Authority")>>

-----------------------------------------------------------------------------
\* google.protobuf.Any, generated in another repository.
AnyMarshal == <<Raw(10, "TypeUrl"), Raw(18, "Value")>>
AnySize == <<Raw(1, "TypeUrl"), Raw(1, "Value")>>
AnyUnmarshal == <<Bytes(1, "TypeUrl"), Bytes(2, "Value")>>

\* The three tables of a message, and the messages by name.
Of(marshal, size, unmarshal) ==
    [Marshal |-> marshal, Size |-> size, Unmarshal |-> unmarshal]

Empty(table) == Of(table, table, table)

Message ==
    [Params |-> Of(ParamsMarshal, ParamsSize, ParamsUnmarshal),
     AttestationBitmap |->
        Of(AttestationBitmapMarshal,
           AttestationBitmapSize, AttestationBitmapUnmarshal),
     ValidatorIndex |->
        Of(ValidatorIndexMarshal,
           ValidatorIndexSize, ValidatorIndexUnmarshal),
     MsgAttest |-> Of(MsgAttestMarshal, MsgAttestSize, MsgAttestUnmarshal),
     MsgJoinAttesterSet |->
        Of(MsgJoinAttesterSetMarshal,
           MsgJoinAttesterSetSize, MsgJoinAttesterSetUnmarshal),
     MsgLeaveAttesterSet |->
        Of(MsgLeaveAttesterSetMarshal,
           MsgLeaveAttesterSetSize, MsgLeaveAttesterSetUnmarshal),
     MsgUpdateParams |->
        Of(MsgUpdateParamsMarshal,
           MsgUpdateParamsSize, MsgUpdateParamsUnmarshal),
     QueryParamsResponse |->
        Of(QueryParamsResponseMarshal,
           QueryParamsResponseSize, QueryParamsResponseUnmarshal),
     QueryAttestationBitmapRequest |->
        Of(QueryAttestationBitmapRequestMarshal,
           QueryAttestationBitmapRequestSize,
           QueryAttestationBitmapRequestUnmarshal),
     QueryAttestationBitmapResponse |->
        Of(QueryAttestationBitmapResponseMarshal,
           QueryAttestationBitmapResponseSize,
           QueryAttestationBitmapResponseUnmarshal),
     QueryEpochInfoRequest |->
        Of(QueryEpochInfoRequestMarshal,
           QueryEpochInfoRequestSize, QueryEpochInfoRequestUnmarshal),
     QueryEpochInfoResponse |->
        Of(QueryEpochInfoResponseMarshal,
           QueryEpochInfoResponseSize, QueryEpochInfoResponseUnmarshal),
     QueryValidatorIndexRequest |->
        Of(QueryValidatorIndexRequestMarshal,
           QueryValidatorIndexRequestSize, QueryValidatorIndexRequestUnmarshal),
     QueryValidatorIndexResponse |->
        Of(QueryValidatorIndexResponseMarshal,
           QueryValidatorIndexResponseSize,
           QueryValidatorIndexResponseUnmarshal),
     QuerySoftConfirmationStatusRequest |->
        Of(QuerySoftConfirmationStatusRequestMarshal,
           QuerySoftConfirmationStatusRequestSize,
           QuerySoftConfirmationStatusRequestUnmarshal),
     QuerySoftConfirmationStatusResponse |->
        Of(QuerySoftConfirmationStatusResponseMarshal,
           QuerySoftConfirmationStatusResponseSize,
           QuerySoftConfirmationStatusResponseUnmarshal),
     GenesisState |->
        Of(GenesisStateMarshal,
           GenesisStateSize, GenesisStateUnmarshal),
     RollkitMigration |->
        Of(RollkitMigrationMarshal,
           RollkitMigrationSize, RollkitMigrationUnmarshal),
     Sequencer |-> Of(SequencerMarshal, SequencerSize, SequencerUnmarshal),
     Attester |-> Of(AttesterMarshal, AttesterSize, AttesterUnmarshal),
     MsgMigrateToRollkit |->
        Of(MsgMigrateToRollkitMarshal,
           MsgMigrateToRollkitSize, MsgMigrateToRollkitUnmarshal),
     QueryIsMigratingResponse |->
        Of(QueryIsMigratingResponseMarshal,
           QueryIsMigratingResponseSize, QueryIsMigratingResponseUnmarshal),
     QuerySequencerResponse |->
        Of(QuerySequencerResponseMarshal,
           QuerySequencerResponseSize, QuerySequencerResponseUnmarshal),
     QueryAttestersResponse |->
        Of(QueryAttestersResponseMarshal,
           QueryAttestersResponseSize, QueryAttestersResponseUnmarshal),
     NetworkModule |->
        Of(NetworkModuleMarshal,
           NetworkModuleSize, NetworkModuleUnmarshal),
     RollkitMngrModule |->
        Of(RollkitMngrModuleMarshal,
           RollkitMngrModuleSize, RollkitMngrModuleUnmarshal),
     Any |-> Of(AnyMarshal, AnySize, AnyUnmarshal),
     MsgAttestResponse |-> Empty(MsgAttestResponse),
     MsgJoinAttesterSetResponse |-> Empty(MsgJoinAttesterSetResponse),
     MsgLeaveAttesterSetResponse |-> Empty(MsgLeaveAttesterSetResponse),
     MsgUpdateParamsResponse |-> Empty(MsgUpdateParamsResponse),
     QueryParamsRequest |-> Empty(QueryParamsRequest),
     MsgMigrateToRollkitResponse |-> Empty(MsgMigrateToRollkitResponse),
     QueryIsMigratingRequest |-> Empty(QueryIsMigratingRequest),
     QuerySequencerRequest |-> Empty(QuerySequencerRequest),
     QueryAttestersRequest |-> Empty(QueryAttestersRequest)]
=============================================================================
