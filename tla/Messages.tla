------------------------------ MODULE Messages ------------------------------
(***************************************************************************)
(* The message classes of the TypeScript client (compiled.js): for each,   *)
(* the fields its `encode` writes and its `decode` understands, with their *)
(* numbers, their types and how often they may occur.                      *)
(*                                                                         *)
(* A type is the name of the reader's and writer's method, or the name of  *)
(* another class; the fields of an enum are int32.  Where two packages use *)
(* one name, the class of onnx has the prefix Onnx.                        *)
(***************************************************************************)

Field(label, number, name, type) ==
  [label |-> label, number |-> number, name |-> name, type |-> type]

(* A singular field; a repeated one with a tag for each element; a repeated *)
(* one of numbers under one tag; a map from strings.                       *)
One(number, name, type)    == Field("one", number, name, type)
Many(number, name, type)   == Field("many", number, name, type)
Packed(number, name, type) == Field("packed", number, name, type)
MapOf(number, name, type)  == Field("map", number, name, type)

-----------------------------------------------------------------------------
(* hydrosphere.contract *)

ModelSignature == {
  One(1, "signatureName", "string"), Many(2, "inputs", "ModelField"),
  Many(3, "outputs", "ModelField")}

ModelField == {
  One(1, "name", "string"), One(2, "shape", "TensorShapeProto"),
  One(3, "subfields", "Subfield"), One(4, "dtype", "int32"),
  One(10, "profile", "int32")}

Subfield == {Many(1, "data", "ModelField")}

ModelContract == {
  One(1, "modelName", "string"), One(2, "predict", "ModelSignature")}

-----------------------------------------------------------------------------
(* hydrosphere.onnx *)

AttributeProto == {
  One(1, "name", "string"), One(2, "f", "float"), One(3, "i", "int64"),
  One(4, "s", "bytes"), One(5, "t", "OnnxTensorProto"),
  One(6, "g", "GraphProto"), Packed(7, "floats", "float"),
  Packed(8, "ints", "int64"), Many(9, "strings", "bytes"),
  Many(10, "tensors", "OnnxTensorProto"), Many(11, "graphs", "GraphProto"),
  One(13, "docString", "string"), One(20, "type", "int32"),
  One(21, "refAttrName", "string")}

ValueInfoProto == {
  One(1, "name", "string"), One(2, "type", "TypeProto"),
  One(3, "docString", "string")}

NodeProto == {
  Many(1, "input", "string"), Many(2, "output", "string"),
  One(3, "name", "string"), One(4, "opType", "string"),
  Many(5, "attribute", "AttributeProto"), One(6, "docString", "string"),
  One(7, "domain", "string")}

ModelProto == {
  One(1, "irVersion", "int64"), One(2, "producerName", "string"),
  One(3, "producerVersion", "string"), One(4, "domain", "string"),
  One(5, "modelVersion", "int64"), One(6, "docString", "string"),
  One(7, "graph", "GraphProto"),
  Many(8, "opsetImport", "OperatorSetIdProto"),
  Many(14, "metadataProps", "StringStringEntryProto")}

StringStringEntryProto == {One(1, "key", "string"), One(2, "value", "string")}

GraphProto == {
  Many(1, "node", "NodeProto"), One(2, "name", "string"),
  Many(5, "initializer", "OnnxTensorProto"), One(10, "docString", "string"),
  Many(11, "input", "ValueInfoProto"), Many(12, "output", "ValueInfoProto"),
  Many(13, "valueInfo", "ValueInfoProto")}

OnnxTensorProto == {
  Packed(1, "dims", "int64"), One(2, "dataType", "int32"),
  One(3, "segment", "Segment"), Packed(4, "floatData", "float"),
  Packed(5, "int32Data", "int32"), Many(6, "stringData", "bytes"),
  Packed(7, "int64Data", "int64"), One(8, "name", "string"),
  One(9, "rawData", "bytes"), Packed(10, "doubleData", "double"),
  Packed(11, "uint64Data", "uint64"), One(12, "docString", "string")}

Segment == {One(1, "begin", "int64"), One(2, "end", "int64")}

OnnxTensorShapeProto == {Many(1, "dim", "Dimension")}

Dimension == {
  One(1, "dimValue", "int64"), One(2, "dimParam", "string"),
  One(3, "denotation", "string")}

DenotationConstProto == {
  One(1, "DATA_BATCH", "string"), One(2, "DATA_CHANNEL", "string"),
  One(3, "DATA_TIME", "string"), One(4, "DATA_FEATURE", "string"),
  One(5, "FILTER_IN_CHANNEL", "string"),
  One(6, "FILTER_OUT_CHANNEL", "string"), One(7, "FILTER_SPATIAL", "string")}

TypeProto == {One(1, "tensorType", "Tensor")}

Tensor == {
  One(1, "elemType", "int32"), One(2, "shape", "OnnxTensorShapeProto")}

OperatorSetIdProto == {One(1, "domain", "string"), One(2, "version", "int64")}

-----------------------------------------------------------------------------
(* hydrosphere.discovery *)

WatchResp == {Many(1, "removedIds", "string"), Many(2, "added", "ServingApp")}

-----------------------------------------------------------------------------
(* hydrosphere.manager *)

GetVersionRequest == {One(1, "id", "int64")}

ExecutionService == {
  One(1, "modelVersion", "ModelVersion"), One(2, "weight", "int32")}

ExecutionStage == {
  One(1, "stageId", "string"), One(2, "signature", "ModelSignature"),
  Many(3, "services", "ExecutionService")}

ExecutionGraph == {Many(1, "stages", "ExecutionStage")}

KafkaStreaming == {
  One(1, "consumerId", "string"), One(2, "sourceTopic", "string"),
  One(3, "destinationTopic", "string"), One(4, "errorTopic", "string")}

Application == {
  One(1, "id", "int64"), One(2, "name", "string"),
  One(3, "contract", "ModelContract"),
  One(4, "executionGraph", "ExecutionGraph"),
  Many(5, "kafkaStreaming", "KafkaStreaming"), One(6, "namespace", "string")}

Model == {One(1, "id", "int64"), One(2, "name", "string")}

DockerImage == {One(1, "name", "string"), One(2, "tag", "string")}

ModelVersion == {
  One(1, "id", "int64"), One(2, "version", "int64"),
  One(3, "modelType", "string"), One(4, "status", "string"),
  One(5, "selector", "HostSelector"), One(6, "model", "Model"),
  One(7, "contract", "ModelContract"), One(31, "image", "DockerImage"),
  One(32, "imageSha", "string"), One(33, "runtime", "DockerImage")}

HostSelector == {One(1, "id", "int64"), One(2, "name", "string")}

Servable == {
  One(1, "host", "string"), One(2, "port", "int32"),
  One(3, "weight", "int32"), One(4, "modelVersion", "ModelVersion")}

Stage == {
  One(1, "stageId", "string"), One(2, "signature", "ModelSignature"),
  Many(3, "servable", "Servable")}

ServingApp == {
  One(1, "id", "string"), One(2, "name", "string"),
  One(3, "contract", "ModelContract"), Many(4, "pipeline", "Stage")}

KafkaError == {
  One(5, "errorMessage", "string"),
  One(8, "lastKnownRequest", "PredictRequest")}

KafkaMessageLocation == {
  One(1, "sourceTopic", "string"), One(2, "consumerId", "string"),
  One(3, "offset", "int64"), One(4, "partition", "int32")}

KafkaMessageMeta == {
  One(1, "traceId", "string"), One(2, "applicationId", "string"),
  One(3, "stageId", "string"), One(4, "stageName", "string"),
  One(5, "location", "KafkaMessageLocation")}

KafkaServingMessage == {
  One(1, "error", "KafkaError"), One(2, "request", "PredictRequest"),
  One(3, "meta", "KafkaMessageMeta")}

-----------------------------------------------------------------------------
(* hydrosphere.monitoring *)

ExecutionInformation == {
  One(1, "request", "PredictRequest"), One(2, "error", "ExecutionError"),
  One(3, "response", "PredictResponse"),
  One(4, "metadata", "ExecutionMetadata")}

ExecutionError == {One(1, "errorMessage", "string")}

TraceData == {One(1, "ts", "int64"), One(2, "uid", "int64")}

ExecutionMetadata == {
  One(1, "applicationId", "int64"), One(2, "stageId", "string"),
  One(3, "modelVersionId", "int64"), One(4, "signatureName", "string"),
  One(5, "requestId", "string"), One(6, "applicationRequestId", "string"),
  One(7, "applicationNamespace", "string"), One(8, "modelName", "string"),
  One(10, "traceData", "TraceData")}

-----------------------------------------------------------------------------
(* hydrosphere.tensorflow *)

TensorShapeProto == {Many(2, "dim", "Dim"), One(3, "unknownRank", "bool")}

Dim == {One(1, "size", "int64"), One(2, "name", "string")}

-----------------------------------------------------------------------------
(* hydrosphere.tensorflow.serving *)

PredictRequest == {
  One(1, "modelSpec", "ModelSpec"), MapOf(2, "inputs", "TensorProto")}

PredictResponse == {
  MapOf(1, "outputs", "TensorProto"),
  MapOf(101, "internalInfo", "TensorProto"),
  One(102, "traceData", "TraceData")}

ModelSpec == {
  One(1, "name", "string"), One(2, "version", "Int64Value"),
  One(3, "signatureName", "string")}

-----------------------------------------------------------------------------
(* hydrosphere.tensorflow *)

TensorProto == {
  One(1, "dtype", "int32"), One(2, "tensorShape", "TensorShapeProto"),
  One(3, "versionNumber", "int32"), One(4, "tensorContent", "bytes"),
  Packed(5, "floatVal", "float"), Packed(6, "doubleVal", "double"),
  Packed(7, "intVal", "int32"), Many(8, "stringVal", "bytes"),
  Packed(9, "scomplexVal", "float"), Packed(10, "int64Val", "int64"),
  Packed(11, "boolVal", "bool"), Packed(12, "dcomplexVal", "double"),
  Packed(13, "halfVal", "int32"),
  Many(15, "variantVal", "VariantTensorDataProto"),
  Packed(16, "uint32Val", "uint32"), Packed(17, "uint64Val", "uint64"),
  Many(27, "mapVal", "MapTensorData")}

VariantTensorDataProto == {
  One(1, "typeName", "string"), One(2, "metadata", "bytes"),
  Many(3, "tensors", "TensorProto")}

MapTensorData == {MapOf(1, "subtensors", "TensorProto")}

-----------------------------------------------------------------------------
(* tensorflow.serving *)

StatusResponse == {One(1, "status", "int32"), One(2, "message", "string")}

-----------------------------------------------------------------------------
(* google.protobuf *)

Empty == {}

DoubleValue == {One(1, "value", "double")}

FloatValue == {One(1, "value", "float")}

Int64Value == {One(1, "value", "int64")}

UInt64Value == {One(1, "value", "uint64")}

Int32Value == {One(1, "value", "int32")}

UInt32Value == {One(1, "value", "uint32")}

BoolValue == {One(1, "value", "bool")}

StringValue == {One(1, "value", "string")}

BytesValue == {One(1, "value", "bytes")}

-----------------------------------------------------------------------------
(* class -> its fields *)
Schema ==
  [ModelSignature |-> ModelSignature, ModelField |-> ModelField,
   Subfield |-> Subfield, ModelContract |-> ModelContract,
   AttributeProto |-> AttributeProto, ValueInfoProto |-> ValueInfoProto,
   NodeProto |-> NodeProto, ModelProto |-> ModelProto,
   StringStringEntryProto |-> StringStringEntryProto,
   GraphProto |-> GraphProto, OnnxTensorProto |-> OnnxTensorProto,
   Segment |-> Segment, OnnxTensorShapeProto |-> OnnxTensorShapeProto,
   Dimension |-> Dimension, DenotationConstProto |-> DenotationConstProto,
   TypeProto |-> TypeProto, Tensor |-> Tensor,
   OperatorSetIdProto |-> OperatorSetIdProto, WatchResp |-> WatchResp,
   GetVersionRequest |-> GetVersionRequest,
   ExecutionService |-> ExecutionService, ExecutionStage |-> ExecutionStage,
   ExecutionGraph |-> ExecutionGraph, KafkaStreaming |-> KafkaStreaming,
   Application |-> Application, Model |-> Model, DockerImage |-> DockerImage,
   ModelVersion |-> ModelVersion, HostSelector |-> HostSelector,
   Servable |-> Servable, Stage |-> Stage, ServingApp |-> ServingApp,
   KafkaError |-> KafkaError, KafkaMessageLocation |-> KafkaMessageLocation,
   KafkaMessageMeta |-> KafkaMessageMeta,
   KafkaServingMessage |-> KafkaServingMessage,
   ExecutionInformation |-> ExecutionInformation,
   ExecutionError |-> ExecutionError, TraceData |-> TraceData,
   ExecutionMetadata |-> ExecutionMetadata,
   TensorShapeProto |-> TensorShapeProto, Dim |-> Dim,
   PredictRequest |-> PredictRequest, PredictResponse |-> PredictResponse,
   ModelSpec |-> ModelSpec, TensorProto |-> TensorProto,
   VariantTensorDataProto |-> VariantTensorDataProto,
   MapTensorData |-> MapTensorData, StatusResponse |-> StatusResponse,
   Empty |-> Empty, DoubleValue |-> DoubleValue, FloatValue |-> FloatValue,
   Int64Value |-> Int64Value, UInt64Value |-> UInt64Value,
   Int32Value |-> Int32Value, UInt32Value |-> UInt32Value,
   BoolValue |-> BoolValue, StringValue |-> StringValue,
   BytesValue |-> BytesValue]

=============================================================================
